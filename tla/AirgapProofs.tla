----------------------------- MODULE AirgapProofs -----------------------------
(***************************************************************************)
(* AirgapBundle proved for any names, paths, contents, modes, keys and     *)
(* requests.                                                               *)
(*                                                                         *)
(* As long as nobody touched it, the archive is what its lock says and the *)
(* lock what was signed; touched once it does not verify, whatever was     *)
(* touched (BundleInv).  An install that goes on has copied so far what    *)
(* the archive holds (CopyInv).                                            *)
(***************************************************************************)
EXTENDS AirgapBundle, SequenceTheorems, TLAPS

\* Between the reading of a source and its stat the source has an artifact.
Statable == pc = "stat" => sources # <<>> /\ lock[Head(sources)] # None

Typed == TypeOK /\ Statable

\* Setting the mode of an artifact leaves its digest.
LEMMA ModeType ==
  ASSUME NEW l \in Locks, NEW n \in Names, l[n] # None, NEW m \in Modes
  PROVE  /\ [l EXCEPT ![n].mode = m] \in Locks
         /\ \A x \in Names : [l EXCEPT ![n].mode = m][x] = None <=> l[x] = None
         /\ \A x \in Names : l[x] # None => [l EXCEPT ![n].mode = m][x].digest = l[x].digest
<1>1. l[n] \in Pins BY DEF Locks
<1>2. [l[n] EXCEPT !.mode = m] \in Pins /\ [l[n] EXCEPT !.mode = m].digest = l[n].digest
  BY <1>1 DEF Pins
<1>3. None \notin Pins BY AirgapAssumption
<1>4. [l EXCEPT ![n].mode = m] = [l EXCEPT ![n] = [l[n] EXCEPT !.mode = m]] OBVIOUS
<1> QED BY <1>1, <1>2, <1>3, <1>4 DEF Locks

\* parseSources gives names.
LEMMA ParseType ==
  ASSUME NEW args \in Requests, NEW config \in BOOLEAN
  PROVE  parseSources(args, config) \in Seq(Names)
<1>1. args \in Seq(Names) /\ ConfigName \in Names BY AirgapAssumption
<1>2. Append(args, ConfigName) \in Seq(Names) BY <1>1
<1> QED BY <1>1, <1>2 DEF parseSources

\* What Export starts from: no files, no lock, no manifest.
LEMMA FreshType == Nothing \in Locks /\ NoManifest \in [root : Locks \union {None},
    key : Keys \union {None}, signature : [key : Keys \union {None}, root : Locks] \union {None}]
BY DEF Nothing, Locks, NoManifest

\* The types hold of a fresh directory.
LEMMA TypeInit == Init => Typed
<1> SUFFICES ASSUME Init PROVE Typed OBVIOUS
<1>1. <<>> \in Seq(Names) OBVIOUS
<1>2. Nothing \in [Names -> Contents \union Reserved \union {None}] BY DEF Nothing
<1> QED BY <1>1, <1>2, FreshType DEF Init, Typed, TypeOK, Statable

\* The modes an install sets, and those a write leaves.
LEMMA InstalledModes ==
  ASSUME TypeOK, NEW n \in Names
  PROVE  InstalledMode(n) \in Modes /\ WrittenModes(n) \subseteq Modes
<1>1. InstalledMode(n) \in Modes BY AirgapAssumption DEF InstalledMode, TypeOK, Locks, Pins
<1>2. WrittenModes(n) \subseteq Modes
  <2>1. dest[PathOf(n)] # None => dest[PathOf(n)].mode \in Modes BY DEF TypeOK
  <2> QED BY <2>1 DEF WrittenModes
<1> QED BY <1>1, <1>2

\* Every step keeps the types.
LEMMA TypeNext == Typed /\ [Next]_vars => Typed'
<1> SUFFICES ASSUME Typed, [Next]_vars PROVE Typed' OBVIOUS
<1>t. \A s \in Seq(Names) : s # <<>> => Head(s) \in Names /\ Tail(s) \in Seq(Names)
  BY HeadTailProperties
<1>c. /\ lockName \in Names /\ manifestName \in Names /\ Default \in Modes
      /\ lockName \in Reserved /\ manifestName \in Reserved
  BY AirgapAssumption DEF Reserved
<1> USE <1>c DEF Typed, TypeOK, Statable, work
<1>2. ASSUME NEW args \in Requests, Request(args) PROVE Typed' BY <1>2, ParseType DEF Request
<1>3. ASSUME NEW data \in Contents, ReadSource(data) PROVE Typed'
  <2>1. sources \in Seq(Names) /\ sources # <<>> BY <1>3 DEF ReadSource
  <2>2. Head(sources) \in Names BY <1>t, <2>1
  <2>3. [digest |-> data, mode |-> Default] \in Pins BY DEF Pins
  <2>4. lock' \in Locks /\ lock'[Head(sources)] # None
    BY <1>3, <2>2, <2>3, AirgapAssumption DEF ReadSource, Locks
  <2> QED BY <1>3, <2>2, <2>4 DEF ReadSource
<1>4. CASE StatSource
  <2>1. sources \in Seq(Names) /\ sources # <<>> BY <1>4 DEF StatSource
  <2>2. Head(sources) \in Names /\ Tail(sources) \in Seq(Names) BY <1>t, <2>1
  <2>3. lock' \in Locks
    <3>1. lock \in Locks /\ lock[Head(sources)] # None BY <1>4, <2>1 DEF StatSource
    <3>2. CASE UNCHANGED lock BY <3>1, <3>2
    <3>3. ASSUME NEW m \in Modes, lock' = [lock EXCEPT ![Head(sources)].mode = m]
          PROVE  lock' \in Locks
      BY <2>2, <3>1, <3>3, ModeType
    <3> QED BY <1>4, <3>2, <3>3 DEF StatSource
  <2> QED BY <1>4, <2>2, <2>3 DEF StatSource
<1>5. CASE AddLock BY <1>5 DEF AddLock
<1>6. CASE LoadKey BY <1>6 DEF LoadKey
<1>7. ASSUME NEW k \in Keys, NewKey(k) PROVE Typed' BY <1>7 DEF NewKey
<1>8. CASE SaveKey BY <1>8 DEF SaveKey
<1>9. CASE Sign BY <1>9 DEF Sign, rootDigest
<1>10. CASE WriteArchive BY <1>10 DEF WriteArchive
<1>11. CASE CreateFails \/ CreateCrash
  <2>1. <<>> \in Seq(Names) OBVIOUS
  <2>2. Nothing \in [Names -> Contents \union Reserved \union {None}] BY DEF Nothing
  <2> QED BY <1>11, <2>1, <2>2, FreshType DEF CreateFails, CreateCrash, Fresh
<1>12. ASSUME NEW n \in Names, NEW c \in Contents \union {None}, DamageFile(n, c) \/ StrayFile(n, c)
       PROVE  Typed'
  <2>1. toCopy = {} /\ pc # "stat" BY <1>12 DEF DamageFile, StrayFile, Carried
  <2>2. files' = [files EXCEPT ![n] = c] BY <1>12 DEF DamageFile, StrayFile
  <2>3. files' \in [Names -> Contents \union Reserved \union {None}] BY <2>2
  <2> QED BY <1>12, <2>1, <2>3 DEF DamageFile, StrayFile
<1>13. ASSUME NEW n \in Names, NEW a \in Pins \union {None}, DamageLock(n, a) PROVE Typed'
  BY <1>13 DEF DamageLock, Carried, Locks
<1>14. ASSUME NEW k \in Keys, DamageManifest(k) PROVE Typed' BY <1>14 DEF DamageManifest, Carried
<1>15. CASE DamageIdentity \/ Refuse \/ Begin \/ Finish
  BY <1>15 DEF DamageIdentity, Refuse, Begin, Finish, Startable, Carried
<1>16. ASSUME NEW n \in Names, Copy(n) PROVE Typed'
  <2>1. n \in toCopy /\ files[n] \in Contents \union Reserved BY <1>16 DEF Copy
  <2>2. InstalledMode(n) \in Modes /\ WrittenModes(n) \subseteq Modes BY InstalledModes
  <2>3. PICK m \in Modes : Write(n, files[n], m) BY <1>16, <2>2 DEF Copy
  <2>4. [data |-> files[n], mode |-> m] \in [data : Contents \union Reserved, mode : Modes]
    BY <2>1
  <2>5. dest' \in [{PathOf(x) : x \in Names}
                     -> [data : Contents \union Reserved, mode : Modes] \union {None}]
    BY <2>3, <2>4 DEF Write
  <2>6. unmoded' \subseteq Names /\ pc = "install" /\ pc' = pc BY <1>16 DEF Copy
  <2> QED BY <1>16, <2>5, <2>6 DEF Copy
<1>17. ASSUME NEW n \in Names, NEW c \in Contents, CopyFails(n, c) PROVE Typed'
  <2>1. WrittenModes(n) \subseteq Modes BY InstalledModes
  <2>2. UNCHANGED dest \/ \E m \in Modes : Write(n, c, m) BY <1>17, <2>1 DEF CopyFails
  <2>3. dest' \in [{PathOf(x) : x \in Names}
                     -> [data : Contents \union Reserved, mode : Modes] \union {None}]
    <3>1. CASE UNCHANGED dest BY <3>1
    <3>2. ASSUME NEW m \in Modes, Write(n, c, m)
          PROVE  dest' \in [{PathOf(x) : x \in Names}
                     -> [data : Contents \union Reserved, mode : Modes] \union {None}]
      <4>1. [data |-> c, mode |-> m] \in [data : Contents \union Reserved, mode : Modes]
        OBVIOUS
      <4> QED BY <3>2, <4>1 DEF Write
    <3> QED BY <2>2, <3>1, <3>2
  <2> QED BY <1>17, <2>3 DEF CopyFails
<1>18. CASE UNCHANGED vars BY <1>18 DEF vars
<1> QED BY <1>2, <1>3, <1>4, <1>5, <1>6, <1>7, <1>8, <1>9, <1>10, <1>11, <1>12, <1>13, <1>14,
           <1>15, <1>16, <1>17, <1>18 DEF Next

\* The variables keep their types.
THEOREM AirgapTypeCorrect == Spec => []TypeOK
<1>1. Typed => TypeOK BY DEF Typed
<1> QED BY <1>1, TypeInit, TypeNext, PTL DEF Spec

-----------------------------------------------------------------------------
(* A bundle nobody touched is what Create made of its sources; one that was *)
(* touched does not verify.                                                 *)

After == {"written", "refused", "install", "failed", "installed"}

BundleInv ==
  /\ pc \notin After => clean
  /\ clean => \A n \in Names \ Reserved : lock[n] # None => files[n] = lock[n].digest
  /\ clean /\ pc \in {"key", "save", "sign", "write"} \union After => files[lockName] = lockName
  /\ clean /\ pc \in {"write"} \union After =>
       /\ files[manifestName] = manifestName
       /\ manifest.root = lock
       /\ manifest.signature = [key |-> manifest.key, root |-> manifest.root]
  /\ clean /\ pc \in After => packed = lock
  /\ ~clean => ~Verifies
  /\ pc \in {"install", "installed"} => Verifies

\* Every step keeps a bundle nobody has touched as Export and Sign left it.
LEMMA BundleNext == Typed /\ BundleInv /\ [Next]_vars => BundleInv'
<1> SUFFICES ASSUME Typed, BundleInv, [Next]_vars PROVE BundleInv' OBVIOUS
<1>t. /\ files \in [Names -> Contents \union Reserved \union {None}] /\ lock \in Locks
      /\ sources \in Seq(Names)
      /\ manifest \in [root : Locks \union {None}, key : Keys \union {None},
                       signature : [key : Keys \union {None}, root : Locks] \union {None}]
      /\ lockName \in Names /\ manifestName \in Names
      /\ Reserved = {lockName, manifestName}
  BY AirgapAssumption DEF Typed, TypeOK, Reserved
<1> USE <1>t DEF BundleInv, After, work
<1>v. ASSUME UNCHANGED <<files, lock, manifest, archive>> PROVE Verifies' = Verifies
  BY <1>v DEF Verifies, rootDigest
<1>2. ASSUME NEW args \in Requests, Request(args) PROVE BundleInv' BY <1>2, <1>v DEF Request
<1>3. ASSUME NEW data \in Contents, ReadSource(data) PROVE BundleInv'
  <2>1. sources # <<>> BY <1>3 DEF ReadSource
  <2>2. Head(sources) \in Names BY <2>1, HeadTailProperties
  <2> QED BY <1>3, <2>2 DEF ReadSource, Locks
<1>4. CASE StatSource
  <2>1. sources # <<>> /\ lock[Head(sources)] # None BY <1>4 DEF StatSource, Typed, Statable
  <2>2. Head(sources) \in Names BY <2>1, HeadTailProperties
  <2>3. \A x \in Names : lock'[x] # None => lock[x] # None /\ lock'[x].digest = lock[x].digest
    <3>1. CASE UNCHANGED lock BY <3>1
    <3>2. ASSUME NEW m \in Modes, lock' = [lock EXCEPT ![Head(sources)].mode = m]
          PROVE  \A x \in Names :
                   lock'[x] # None => lock[x] # None /\ lock'[x].digest = lock[x].digest
      BY <2>1, <2>2, <3>2, ModeType
    <3> QED BY <1>4, <3>1, <3>2 DEF StatSource
  <2> QED BY <1>4, <2>3 DEF StatSource
<1>5. CASE AddLock BY <1>5 DEF AddLock
<1>6. CASE LoadKey \/ SaveKey BY <1>6 DEF LoadKey, SaveKey
<1>7. ASSUME NEW k \in Keys, NewKey(k) PROVE BundleInv' BY <1>7 DEF NewKey
<1>8. CASE Sign BY <1>8 DEF Sign, rootDigest
<1>9. CASE WriteArchive BY <1>9 DEF WriteArchive
<1>10. CASE CreateFails BY <1>10 DEF CreateFails, Fresh, Nothing
<1>11. CASE CreateCrash BY <1>11 DEF CreateCrash, Fresh, Nothing
<1>12. ASSUME NEW n \in Names, NEW c \in Contents \union {None}, DamageFile(n, c) PROVE BundleInv'
  <2>1. /\ clean /\ pc \in {"written", "failed"} /\ ~clean' /\ pc' = pc /\ lock' = lock
        /\ files'[n] = c /\ files[n] # c /\ (lock[n] # None \/ n \in Reserved)
    BY <1>12 DEF DamageFile, Carried
  <2>2. CASE n \in Reserved
    <3>1. files[n] = n BY <2>1, <2>2
    <3> QED BY <2>1, <2>2, <3>1 DEF Verifies
  <2>3. CASE n \notin Reserved
    <3>1. files[n] = lock[n].digest /\ lock[n] # None BY <2>1, <2>3
    <3> QED BY <2>1, <3>1 DEF Verifies
  <2> QED BY <2>2, <2>3
<1>13. ASSUME NEW n \in Names, NEW c \in Contents, StrayFile(n, c) PROVE BundleInv'
  BY <1>13 DEF StrayFile, Carried
<1>14. ASSUME NEW n \in Names, NEW a \in Pins \union {None}, DamageLock(n, a) PROVE BundleInv'
  <2>1. /\ clean /\ pc \in {"written", "failed"} /\ ~clean' /\ pc' = pc
        /\ lock'[n] # lock[n] /\ manifest' = manifest
    BY <1>14 DEF DamageLock, Carried, Locks
  <2>2. manifest.root = lock BY <2>1
  <2> QED BY <2>1, <2>2 DEF Verifies, rootDigest
<1>15. ASSUME NEW k \in Keys, DamageManifest(k) PROVE BundleInv'
  <2>1. /\ clean /\ pc \in {"written", "failed"} /\ ~clean' /\ pc' = pc
        /\ manifest'.key = k /\ manifest.key # k /\ manifest'.signature = manifest.signature
    BY <1>15 DEF DamageManifest, Carried
  <2>2. manifest.signature.key = manifest.key BY <2>1
  <2> QED BY <2>1, <2>2 DEF Verifies
<1>16. CASE DamageIdentity BY <1>16, <1>v DEF DamageIdentity
<1>17. CASE Refuse BY <1>17, <1>v DEF Refuse, Startable
<1>18. CASE Begin BY <1>18, <1>v DEF Begin, Startable
<1>19. CASE Finish BY <1>19, <1>v DEF Finish
<1>20. ASSUME NEW n \in Names, Copy(n) PROVE BundleInv' BY <1>20, <1>v DEF Copy
<1>21. ASSUME NEW n \in Names, NEW c \in Contents, CopyFails(n, c) PROVE BundleInv'
  BY <1>21, <1>v DEF CopyFails
<1>22. CASE UNCHANGED vars BY <1>22, <1>v DEF vars
<1> QED BY <1>2, <1>3, <1>4, <1>5, <1>6, <1>7, <1>8, <1>9, <1>10, <1>11, <1>12, <1>13, <1>14,
           <1>15, <1>16, <1>17, <1>18, <1>19, <1>20, <1>21, <1>22 DEF Next

\* There is no bundle yet.
LEMMA BundleInit == Init => BundleInv
BY DEF Init, BundleInv, Nothing, After

\* A bundle that is as Create wrote it verifies, one that is not is never installed.
THEOREM AirgapIntactOnly == Spec => []IntactOnly
<1>1. Typed /\ BundleInv => IntactOnly
  <2> SUFFICES ASSUME Typed, BundleInv PROVE IntactOnly OBVIOUS
  <2>1. ASSUME clean, Startable, archive = "whole", NamesFree PROVE Verifies
    <3>1. pc \in After BY <2>1 DEF Startable, After
    <3>2. \A n \in Reserved : files[n] = n BY <2>1, <3>1 DEF BundleInv, Reserved
    <3>3. \A n \in Names : lock[n] # None => files[n] = lock[n].digest
      BY <2>1, <3>1 DEF BundleInv, NamesFree
    <3> QED BY <2>1, <3>1, <3>2, <3>3 DEF BundleInv, Verifies, rootDigest
  <2>2. ~clean \/ archive # "whole" => ~Verifies BY DEF BundleInv, Verifies
  <2> QED BY <2>1, <2>2 DEF IntactOnly, BundleInv
<1> QED BY <1>1, TypeInit, TypeNext, BundleInit, BundleNext, PTL DEF Spec

-----------------------------------------------------------------------------
(* What has been copied stays as it was copied: no other file of the        *)
(* archive goes to its path.                                                *)

\* The file of a name is as this install wrote it.
Copied(n) ==
  /\ dest[PathOf(n)].data = files[n]
  /\ n \notin unmoded => dest[PathOf(n)].mode = InstalledMode(n)

CopyInv ==
  pc \in {"install", "installed"} =>
    /\ unmoded \intersect toCopy = {}
    /\ \A n \in Names \ Reserved : files[n] # None /\ n \notin toCopy /\ Alone(n) => Copied(n)

\* Every step leaves what has been copied as it was copied.
LEMMA CopyNext == Typed /\ CopyInv /\ [Next]_vars => CopyInv'
<1> SUFFICES ASSUME Typed, CopyInv, [Next]_vars, pc' \in {"install", "installed"} PROVE CopyInv'
  BY DEF CopyInv
<1>1. ASSUME NEW m \in Names, Copy(m) PROVE CopyInv'
  <2>1. /\ m \in toCopy /\ files[m] # None /\ pc = "install" /\ m \notin unmoded
        /\ UNCHANGED <<files, lock>> /\ toCopy' = toCopy \ {m} /\ unmoded' \subseteq unmoded \union {m}
        /\ unmoded \subseteq unmoded'
        /\ PathOf(m) \in DOMAIN dest
    BY <1>1 DEF Copy, Typed, TypeOK, work, CopyInv
  <2>2. PICK mode : /\ Write(m, files[m], mode)
                    /\ m \notin unmoded' => mode = InstalledMode(m)
    BY <1>1 DEF Copy
  <2>3. /\ dest'[PathOf(m)] = [data |-> files[m], mode |-> mode]
        /\ \A p \in DOMAIN dest : p # PathOf(m) => dest'[p] = dest[p]
    BY <2>1, <2>2 DEF Write
  <2>4. \A n \in Names : PathOf(n) \in DOMAIN dest BY DEF Typed, TypeOK
  <2>5. ASSUME NEW n \in Names \ Reserved, files[n] # None, n \notin toCopy', Alone(n)
        PROVE  Copied(n)'
    <3>1. InstalledMode(n)' = InstalledMode(n) BY <2>1 DEF InstalledMode
    <3>2. CASE n = m BY <2>1, <2>2, <2>3, <3>1, <3>2 DEF Copied
    <3>3. CASE n # m
      <4>1. PathOf(m) # PathOf(n) BY <2>1, <2>5, <3>3 DEF Alone
      <4>2. n \notin toCopy BY <2>1, <2>5, <3>3
      <4>3. Copied(n) BY <2>1, <2>5, <4>2 DEF CopyInv
      <4>4. dest'[PathOf(n)] = dest[PathOf(n)] BY <2>3, <2>4, <4>1
      <4>5. n \notin unmoded' => n \notin unmoded BY <2>1
      <4> QED BY <2>1, <3>1, <4>3, <4>4, <4>5 DEF Copied
    <3> QED BY <3>2, <3>3
  <2>6. unmoded' \intersect toCopy' = {} BY <2>1 DEF CopyInv
  <2> QED BY <2>1, <2>5, <2>6 DEF CopyInv, Alone
<1>2. CASE Begin BY <1>2 DEF Begin, CopyInv, work, Startable, Typed, TypeOK
<1>3. CASE Finish BY <1>3 DEF Finish, CopyInv, work, Alone, Copied, InstalledMode
<1>4. CASE UNCHANGED vars BY <1>4 DEF vars, work, CopyInv, Alone, Copied, InstalledMode
<1>6. ASSUME pc' \notin {"install", "installed"} PROVE FALSE BY <1>6
<1>7. (\E m \in Names : Copy(m)) \/ Begin \/ Finish \/ UNCHANGED vars
  BY <1>6 DEF Next, Request, ReadSource, StatSource, AddLock, LoadKey, SaveKey, Sign, WriteArchive,
     CreateFails, CreateCrash, CopyFails, StrayFile, DamageFile, DamageLock, NewKey, DamageManifest,
     DamageIdentity, Refuse, Carried
<1> QED BY <1>1, <1>2, <1>3, <1>4, <1>7

\* What Install reports as installed is what Create packed, with its mode but where
\* os.Chmod failed or the mode is 0.
THEOREM AirgapInstalledIsPacked == Spec => []InstalledIsPacked
<1>1. Init => CopyInv BY DEF Init, CopyInv
<1>2. Typed /\ BundleInv /\ CopyInv => InstalledIsPacked
  <2> SUFFICES ASSUME Typed, BundleInv, CopyInv, pc = "installed",
                      NEW n \in Names, packed[n] # None, Alone(n)
               PROVE  /\ dest[PathOf(n)].data = packed[n].digest
                      /\ n \notin unmoded =>
                           dest[PathOf(n)].mode = IF packed[n].mode = {} THEN Default
                                                  ELSE packed[n].mode
    BY DEF InstalledIsPacked
  <2>1. Verifies /\ clean /\ packed = lock BY DEF BundleInv, After
  <2>2. files[n] = lock[n].digest /\ lock[n] # None BY <2>1 DEF Verifies
  <2>3. lock[n].digest \in Contents BY <2>2 DEF Typed, TypeOK, Locks, Pins
  <2>4. n \notin Reserved BY <2>1, <2>2, <2>3, AirgapAssumption DEF Verifies
  <2>5. files[n] # None BY <2>2, <2>3, AirgapAssumption
  <2>6. Copied(n) BY <2>4, <2>5 DEF CopyInv, Typed, TypeOK
  <2> QED BY <2>1, <2>2, <2>6 DEF Copied, InstalledMode
<1> QED BY <1>1, <1>2, TypeInit, TypeNext, BundleInit, BundleNext, CopyNext, PTL DEF Spec

=============================================================================
