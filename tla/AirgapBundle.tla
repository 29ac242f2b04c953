----------------------------- MODULE AirgapBundle -----------------------------
(***************************************************************************)
(* Delivery over an air gap: `faraday bundle create` and `install`,        *)
(* internal/cli/bundle.go over internal/bundle/bundle.go.  The files that  *)
(* are packed change while create works: what it reads of one is whatever  *)
(* the file holds by then.  A create is cut short and repeated; the bundle *)
(* is damaged while it is carried; an install is cut short and repeated.   *)
(*                                                                         *)
(* SHA-256 is a function without collisions: the digest of a content is    *)
(* the content; a signature is the key with the digest that was signed.    *)
(***************************************************************************)
EXTENDS Naturals, Sequences

CONSTANTS Names,       \* names inside the bundle, ConfigName among them
          ConfigName, lockName, manifestName,
          PathOf(_),   \* filepath.Clean: where a name is installed
          Requests,    \* the --add arguments considered: sequences of names
          Contents,    \* what a file can hold
          Modes,       \* its permissions, as sets of bits
          Default,     \* mode 0644
          Keys,        \* ed25519 keys
          None, Broken

Reserved == {lockName, manifestName}

Pins  == [digest : Contents, mode : Modes]
Locks == [Names -> Pins \union {None}]

ASSUME AirgapAssumption ==
  /\ {ConfigName, lockName, manifestName} \subseteq Names
  /\ Requests \subseteq Seq(Names)
  /\ {} \in Modes /\ Default \in Modes
  /\ {None, Broken} \intersect (Contents \union Keys) = {}
  /\ None # Broken /\ None \notin Pins
  /\ Reserved \intersect Contents = {}

VARIABLES
  keyFile,  \* bundle.key: None, a key, or Broken after a crash while it was written
  pc,       \* "idle", "read", "stat", "key", "save", "sign", "write", "written"; "refused",
            \* "install", "failed", "installed" (create, then install)
  sources,  \* names of the sources that are not yet packed
  files,    \* map of contents per name; a reserved name holds its own file as that name
  lock,     \* lock.Artifacts: per name, [digest, mode] or None
  identity, \* lock.Identity: "given", or "changed" on the way
  signer,   \* the private key in Create
  manifest, \* [root, key, signature]
  archive,  \* what is at outPath: "none", "partial", "whole" (files, lock and manifest)
  dest,     \* per path at the destination: the file, or None
  toCopy,   \* names Install has still to copy
  packed,   \* history: the artifacts at the end of Create
  unmoded,  \* history: names that this install has copied without setting the mode
  clean     \* history: the bundle is as Create wrote it

work == <<sources, files, lock, signer, manifest>>     \* what a create has in memory
vars == <<keyFile, pc, work, identity, archive, dest, toCopy, packed, unmoded, clean>>

Nothing    == [n \in Names |-> None]
NoManifest == [root |-> None, key |-> None, signature |-> None]
Fresh ==
  /\ sources' = <<>> /\ files' = Nothing /\ lock' = Nothing
  /\ signer' = None /\ manifest' = NoManifest

Init ==
  /\ keyFile \in Keys \union {None}
  /\ pc = "idle" /\ sources = <<>> /\ files = Nothing /\ lock = Nothing
  /\ identity = "given" /\ signer = None /\ manifest = NoManifest /\ archive = "none"
  /\ dest = [p \in {PathOf(n) : n \in Names} |-> None] /\ toCopy = {}
  /\ packed = Nothing /\ unmoded = {} /\ clean = TRUE

-----------------------------------------------------------------------------
(* create.                                                                  *)

\* parseSources: every --add names an existing file; the active config comes last, if
\* there is one.
parseSources(args, config) == IF config THEN Append(args, ConfigName) ELSE args

Request(args) ==
  /\ pc = "idle"
  /\ \E config \in BOOLEAN :
       /\ parseSources(args, config) # <<>>
       /\ sources' = parseSources(args, config)
  /\ pc' = "read"
  /\ UNCHANGED <<keyFile, files, lock, identity, signer, manifest, archive, dest, toCopy,
                 packed, unmoded, clean>>

\* One reading gives the content and its digest; a second source of one name replaces
\* the first.
ReadSource(data) ==
  /\ pc = "read" /\ sources # <<>>
  /\ files' = [files EXCEPT ![Head(sources)] = data]
  /\ lock' = [lock EXCEPT ![Head(sources)] = [digest |-> data, mode |-> Default]]
  /\ pc' = "stat"
  /\ UNCHANGED <<keyFile, sources, identity, signer, manifest, archive, dest, toCopy,
                 packed, unmoded, clean>>

\* The mode is read after the content; if the file is gone by then it stays 0644.
StatSource ==
  /\ pc = "stat"
  /\ \/ \E m \in Modes : lock' = [lock EXCEPT ![Head(sources)].mode = m]
     \/ UNCHANGED lock
  /\ sources' = Tail(sources)
  /\ pc' = "read"
  /\ UNCHANGED <<keyFile, files, identity, signer, manifest, archive, dest, toCopy,
                 packed, unmoded, clean>>

\* After the last source the lock itself becomes a file of the bundle.
AddLock ==
  /\ pc = "read" /\ sources = <<>>
  /\ files' = [files EXCEPT ![lockName] = lockName]
  /\ pc' = "key"
  /\ UNCHANGED <<keyFile, sources, lock, identity, signer, manifest, archive, dest, toCopy,
                 packed, unmoded, clean>>

LoadKey ==
  /\ pc = "key" /\ keyFile \in Keys
  /\ signer' = keyFile /\ pc' = "sign"
  /\ UNCHANGED <<keyFile, sources, files, lock, identity, manifest, archive, dest, toCopy,
                 packed, unmoded, clean>>

\* There is no key, or the one that is there cannot be read: any error is taken alike.
NewKey(key) ==
  /\ pc = "key"
  /\ signer' = key /\ pc' = "save"
  /\ UNCHANGED <<keyFile, sources, files, lock, identity, manifest, archive, dest, toCopy,
                 packed, unmoded, clean>>

\* The error of writing the key, before or after the file was truncated, is dropped.
SaveKey ==
  /\ pc = "save"
  /\ keyFile' \in {signer, keyFile, Broken} /\ pc' = "sign"
  /\ UNCHANGED <<work, identity, archive, dest, toCopy, packed, unmoded, clean>>

rootDigest(artifacts) == artifacts

\* The root digest of the lock is signed; the archive is created empty.
Sign ==
  /\ pc = "sign"
  /\ manifest' = [root |-> rootDigest(lock), key |-> signer,
                  signature |-> [key |-> signer, root |-> rootDigest(lock)]]
  /\ files' = [files EXCEPT ![manifestName] = manifestName]
  /\ archive' = "partial" /\ pc' = "write"
  /\ UNCHANGED <<keyFile, sources, lock, identity, signer, dest, toCopy, packed, unmoded, clean>>

\* The archive is written and reported; its end, written by deferred Closes whose errors
\* are dropped, may be missing.
WriteArchive ==
  /\ pc = "write"
  /\ archive' \in {"whole", "partial"} /\ pc' = "written"
  /\ packed' = lock /\ signer' = None
  /\ UNCHANGED <<keyFile, sources, files, lock, identity, manifest, dest, toCopy, unmoded, clean>>

\* A source is gone or cannot be read, the key file is no key, or the archive cannot be
\* written: create reports the error and can be called again.
CreateFails ==
  /\ \/ pc = "read" /\ sources # <<>>
     \/ pc = "key" /\ keyFile = Broken
     \/ pc \in {"sign", "write"}
  /\ pc' = "idle" /\ Fresh
  /\ UNCHANGED <<keyFile, identity, archive, dest, toCopy, packed, unmoded, clean>>

\* The process dies while it writes the key.
CreateCrash ==
  /\ pc = "save"
  /\ keyFile' = Broken
  /\ pc' = "idle" /\ Fresh
  /\ UNCHANGED <<identity, archive, dest, toCopy, packed, unmoded, clean>>

-----------------------------------------------------------------------------
(* The way: one thing in the archive is damaged.                            *)

Carried == pc \in {"written", "failed"} /\ archive = "whole" /\ clean

\* A pinned file is another, or missing; a reserved one is missing or cannot be parsed then.
DamageFile(n, c) ==
  /\ Carried /\ files[n] # c /\ (lock[n] # None \/ n \in Reserved)
  /\ files' = [files EXCEPT ![n] = c]
  /\ clean' = FALSE
  /\ UNCHANGED <<keyFile, pc, sources, lock, identity, signer, manifest, archive, dest,
                 toCopy, packed, unmoded>>

\* An entry the lock does not know is added: verification looks only at what the lock names.
StrayFile(n, c) ==
  /\ Carried /\ lock[n] = None /\ n \notin Reserved
  /\ files' = [files EXCEPT ![n] = c]
  /\ UNCHANGED <<keyFile, pc, sources, lock, identity, signer, manifest, archive, dest,
                 toCopy, packed, unmoded, clean>>

DamageLock(n, a) ==
  /\ Carried /\ lock[n] # a
  /\ lock' = [lock EXCEPT ![n] = a]
  /\ clean' = FALSE
  /\ UNCHANGED <<keyFile, pc, sources, files, identity, signer, manifest, archive, dest,
                 toCopy, packed, unmoded>>

DamageManifest(k) ==
  /\ Carried /\ manifest.key # k
  /\ manifest' = [manifest EXCEPT !.key = k]
  /\ clean' = FALSE
  /\ UNCHANGED <<keyFile, pc, sources, files, lock, identity, signer, archive, dest,
                 toCopy, packed, unmoded>>

\* The identity (like a kind, the version or the time) is not part of the root digest.
DamageIdentity ==
  /\ Carried
  /\ identity' = "changed"
  /\ UNCHANGED <<keyFile, pc, work, archive, dest, toCopy, packed, unmoded, clean>>

-----------------------------------------------------------------------------
(* install.                                                                 *)

\* Deliberate error used as a mutant: the root digest is not compared with the lock.
Verifies_NoRoot ==
  /\ archive = "whole"
  /\ \A n \in Reserved : files[n] = n
  /\ \A n \in Names : lock[n] # None => files[n] = lock[n].digest
  /\ manifest.signature = [key |-> manifest.key, root |-> manifest.root]

\* The archive can be read and verifyFiles finds no problem: lock and manifest parse, every
\* artifact of the lock is there with its digest, the root digest is the lock's, and the
\* signature is good for the key in the manifest.
Verifies ==
  /\ archive = "whole"
  /\ \A n \in Reserved : files[n] = n
  /\ \A n \in Names : lock[n] # None => files[n] = lock[n].digest
  /\ rootDigest(lock) = manifest.root
  /\ manifest.signature = [key |-> manifest.key, root |-> manifest.root]

Startable == pc \in {"written", "failed", "refused"}

Refuse ==
  /\ Startable /\ ~Verifies
  /\ pc' = "refused"
  /\ UNCHANGED <<keyFile, work, identity, archive, dest, toCopy, packed, unmoded, clean>>

\* Every file of the archive is to be copied, the two reserved ones excepted.
Begin ==
  /\ Startable /\ Verifies
  /\ pc' = "install"
  /\ toCopy' = {n \in Names \ Reserved : files[n] # None}
  /\ UNCHANGED <<keyFile, work, identity, archive, dest, packed, unmoded, clean>>

\* The pinned mode unless it is 0, else 0644.
InstalledMode(n) == IF lock[n] # None /\ lock[n].mode # {} THEN lock[n].mode ELSE Default

\* What os.WriteFile leaves: a file that is there keeps its mode, a new one is masked.
WrittenModes(n) ==
  IF dest[PathOf(n)] = None THEN {m \in Modes : m \subseteq InstalledMode(n)}
  ELSE {dest[PathOf(n)].mode}

Write(n, data, mode) == dest' = [dest EXCEPT ![PathOf(n)] = [data |-> data, mode |-> mode]]

\* Deliberate error used as a mutant: a file that is there already is kept.
Copy_Keep(n) ==
  /\ pc = "install" /\ n \in toCopy
  /\ IF dest[PathOf(n)] = None THEN Write(n, files[n], InstalledMode(n)) ELSE UNCHANGED dest
  /\ toCopy' = toCopy \ {n}
  /\ UNCHANGED <<keyFile, pc, work, identity, archive, packed, unmoded, clean>>

\* os.WriteFile, then os.Chmod, whose error is dropped; in the order of a map.
Copy(n) ==
  /\ pc = "install" /\ n \in toCopy
  /\ \/ Write(n, files[n], InstalledMode(n)) /\ UNCHANGED unmoded
     \/ /\ \E m \in WrittenModes(n) : Write(n, files[n], m)
        /\ unmoded' = unmoded \union {n}
  /\ toCopy' = toCopy \ {n}
  /\ UNCHANGED <<keyFile, pc, work, identity, archive, packed, clean>>

\* A file cannot be written, or the process dies in the middle of one: what was
\* copied stays, with a truncated file.
CopyFails(n, c) ==
  /\ pc = "install" /\ n \in toCopy
  /\ UNCHANGED dest \/ \E m \in WrittenModes(n) : Write(n, c, m)
  /\ pc' = "failed" /\ toCopy' = {} /\ unmoded' = {}
  /\ UNCHANGED <<keyFile, work, identity, archive, packed, clean>>

Finish ==
  /\ pc = "install" /\ toCopy = {}
  /\ pc' = "installed"
  /\ UNCHANGED <<keyFile, work, identity, archive, dest, toCopy, packed, unmoded, clean>>

Next ==
  \/ \E args \in Requests : Request(args)
  \/ \E data \in Contents : ReadSource(data)
  \/ StatSource \/ AddLock \/ LoadKey \/ SaveKey \/ Sign \/ WriteArchive
  \/ CreateFails \/ CreateCrash
  \/ \E n \in Names : \/ Copy(n)
                      \/ \E c \in Contents : CopyFails(n, c) \/ StrayFile(n, c)
                      \/ \E c \in Contents \union {None} : DamageFile(n, c)
                      \/ \E a \in Pins \union {None} : DamageLock(n, a)
  \/ \E k \in Keys : NewKey(k) \/ DamageManifest(k)
  \/ DamageIdentity \/ Refuse \/ Begin \/ Finish

Spec == Init /\ [][Next]_vars

-----------------------------------------------------------------------------
(* Properties.                                                              *)

TypeOK ==
  /\ keyFile \in Keys \union {None, Broken}
  /\ pc \in {"idle", "read", "stat", "key", "save", "sign", "write", "written", "refused",
             "install", "failed", "installed"}
  /\ sources \in Seq(Names)
  /\ files \in [Names -> Contents \union Reserved \union {None}]
  /\ lock \in Locks /\ packed \in Locks
  /\ identity \in {"given", "changed"} /\ signer \in Keys \union {None}
  /\ manifest \in [root : Locks \union {None}, key : Keys \union {None},
                   signature : [key : Keys \union {None}, root : Locks] \union {None}]
  /\ archive \in {"none", "partial", "whole"}
  /\ dest \in [{PathOf(n) : n \in Names}
                 -> [data : Contents \union Reserved, mode : Modes] \union {None}]
  /\ unmoded \subseteq Names /\ (unmoded # {} => pc \in {"install", "installed"})
  /\ toCopy \subseteq {n \in Names : files[n] # None} /\ (pc # "install" => toCopy = {})
  /\ clean \in BOOLEAN

\* Names that are installed at a path of their own.
Alone(n) == \A m \in Names : PathOf(m) = PathOf(n) /\ files[m] # None => m = n

\* What Install reports as installed is what Create packed, byte for byte, after any
\* number of failed attempts ("reproduces the identical file set"), and with its mode
\* (0644 for a mode of 0) but where os.Chmod failed, unless two names are one path.
InstalledIsPacked ==
  pc = "installed" =>
    \A n \in Names : packed[n] # None /\ Alone(n) =>
      /\ dest[PathOf(n)].data = packed[n].digest
      /\ n \notin unmoded =>
           dest[PathOf(n)].mode = IF packed[n].mode = {} THEN Default ELSE packed[n].mode

\* No source was given a name that the bundle uses itself.
NamesFree == \A n \in Reserved : packed[n] = None

\* Verification tells an intact bundle from a damaged one: written to the end the bundle
\* verifies, even if its sources changed under it or an earlier create was cut short;
\* damaged in a file, a digest, a mode or the key, or without its end, it is never
\* installed, not by a second attempt either ("refuses to install anything if
\* verification fails").
IntactOnly ==
  /\ clean /\ Startable /\ archive = "whole" /\ NamesFree => Verifies
  /\ ~clean \/ archive # "whole" => pc \notin {"install", "installed"}

-----------------------------------------------------------------------------
(* Statements of the documentation that the code does not keep (README,     *)
(* "Divergences").                                                          *)

\* bundle.go:24 "reserved entries inside the bundle" (contradicted: a source may have such a
\* name, and the bundle made of it is refused).
ReservedNames == clean /\ Startable /\ archive = "whole" => Verifies

\* bundle.go:3 "reproduces the identical file set" (contradicted: of two names that clean to
\* one path the one copied last stays; a file of mode 0 gets 0644; and where os.Chmod fails
\* install says nothing).
IdenticalFiles ==
  pc = "installed" =>
    \A n \in Names : packed[n] # None =>
      dest[PathOf(n)] = [data |-> packed[n].digest, mode |-> packed[n].mode]

\* The same sentence (contradicted: a file in the archive that the lock does not pin is
\* installed with the others).
NothingElse ==
  pc = "installed" =>
    \A p \in DOMAIN dest : dest[p] # None => \E n \in Names : PathOf(n) = p /\ packed[n] # None

\* bundle.go:2 "signed" (contradicted for the identity that verify prints: it is in the lock
\* but not in the root digest that is signed).
IdentityIsSigned == Startable /\ Verifies => identity = "given"

\* bundle.go:254 with cli/bundle.go:40 "wrote" (contradicted: the errors of the deferred
\* Closes that write the end of the archive are dropped).
WroteIsWhole == pc = "written" => archive = "whole"

=============================================================================
