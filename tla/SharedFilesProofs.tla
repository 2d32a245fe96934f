------------------------- MODULE SharedFilesProofs -------------------------
(***************************************************************************)
(* What the two files keep, for every number of devices, jobs and faults.  *)
(***************************************************************************)
EXTENDS SharedFiles, TLAPS

Later == {"apple", "team", "saving", "filling"}   \* the identity is written back

ProcRecords ==
  [at : Places, job : {"none", "renew", "login", "anisette"},
   device : {Absent} \union Devices, saves : {Absent, NoPassword, Complete}]

-----------------------------------------------------------------------------
(* The inductive invariant                                                 *)

\* The device a job carries, and the devices of the jobs that may save an account.
Carries ==
  \A a \in Actors :
    /\ proc[a].at \in Holding \union Later => proc[a].device \in Devices
    /\ proc[a].at \in {"team", "saving", "filling"} => proc[a].device \in trusted

\* Nobody has saved a password without a device that gave a code.
SavedIsTrusted == account \in {NoPassword, Complete} => trusted # {}

\* One actor at most is between reading the identity and having written it; ...
OneHolder ==
  \A a, b \in Actors : proc[a].at \in Holding /\ proc[b].at \in Holding => a = b

\* ... what it carries is what the file has, if it has anything, ...
HolderAgrees ==
  \A a \in Actors :
    /\ proc[a].at = "provisioning" => identity = Absent
    /\ proc[a].at = "storing" => identity \in {Absent, proc[a].device}
    /\ proc[a].at = "writing" => identity = Broken

\* ... the file is broken only while it is being written, ...
BrokenIsHeld == identity = Broken => \E a \in Actors : proc[a].at = "writing"

\* ... and this is the device on disk, or the one that is being written there.
IsCurrent(device) ==
  \/ identity \in Devices /\ device = identity
  \/ \E w \in Actors : proc[w].at = "writing" /\ proc[w].device = device

\* All that has gone to Apple, and all that Apple trusts, is that device.
OneDevice ==
  /\ \A device \in trusted : IsCurrent(device)
  /\ \A a \in Actors : proc[a].at \in Later => IsCurrent(proc[a].device)

\* That much is so unless two used the identity at a time, or a write was cut short.
IdentityInv == "identity" \notin excused => OneHolder /\ HolderAgrees /\ BrokenIsHeld /\ OneDevice

\* The same of the account: one fills it at most, and it is broken only meanwhile.
OneFiller ==
  "account" \notin excused =>
    /\ \A a, b \in Actors : proc[a].at = "filling" /\ proc[b].at = "filling" => a = b
    /\ \A a \in Actors : proc[a].at = "filling" => account = Broken

AccountInv == OneFiller /\ AccountIsWhole /\ SavedIsTrusted

FilesInv == TypeOK /\ Carries /\ IdentityInv /\ AccountInv

-----------------------------------------------------------------------------
(* What one actor's move keeps                                             *)

LEMMA Texts ==
  /\ Absent \notin Devices /\ Broken \notin Devices /\ Absent # Broken
  /\ NoPassword # Broken /\ Complete # Broken /\ NoPassword # Absent /\ Complete # Absent
  BY BoundsAssumption, DevicesAssumption DEF Absent, Broken, Devices, NoPassword, Complete

\* The actor's record changes, the others' do not.
Moves(a, new) ==
  /\ new \in ProcRecords
  /\ new.at = "idle" <=> new = Idle
  /\ proc' = [proc EXCEPT ![a] = new]

LEMMA MovesOne ==
  ASSUME TypeOK, NEW a \in Actors, NEW new, Moves(a, new)
  PROVE  /\ proc \in [Actors -> ProcRecords]
         /\ proc' \in [Actors -> ProcRecords]
         /\ proc'[a] = new
         /\ \A b \in Actors \ {a} : proc'[b] = proc[b]
         /\ \A b \in Actors : proc'[b].at = "idle" <=> proc'[b] = Idle
<1>1. proc \in [Actors -> ProcRecords]
  BY DEF TypeOK, ProcRecords
<1>2. /\ proc' \in [Actors -> ProcRecords] /\ proc'[a] = new
      /\ \A b \in Actors \ {a} : proc'[b] = proc[b]
  BY <1>1 DEF Moves
<1>3. \A b \in Actors : proc[b].at = "idle" <=> proc[b] = Idle
  BY DEF TypeOK
<1>4. QED
  BY <1>1, <1>2, <1>3 DEF Moves

\* A job that begins, gives up, or goes on with the identity it has written
\* leaves all of it as it is.
LEMMA IdentityKept ==
  ASSUME TypeOK, IdentityInv, NEW a \in Actors, NEW new, Moves(a, new),
         identity' = identity, trusted' = trusted, excused \subseteq excused',
         "identity" \notin excused' =>
           /\ proc[a].at # "writing"
           /\ new.at \notin Holding
           /\ new.at \in Later => proc[a].at \in Later /\ new.device = proc[a].device
  PROVE  IdentityInv'
<1> SUFFICES ASSUME "identity" \notin excused'
             PROVE  (OneHolder /\ HolderAgrees /\ BrokenIsHeld /\ OneDevice)'
  BY DEF IdentityInv
<1>1. OneHolder /\ HolderAgrees /\ BrokenIsHeld /\ OneDevice
  BY DEF IdentityInv
<1>2. /\ proc'[a] = new
      /\ \A b \in Actors \ {a} : proc'[b] = proc[b]
  BY MovesOne
<1>3. "provisioning" \in Holding /\ "storing" \in Holding /\ "writing" \in Holding
  BY DEF Holding
<1>4. OneHolder'
  BY <1>1, <1>2 DEF OneHolder
<1>5. HolderAgrees'
  BY <1>1, <1>2, <1>3 DEF HolderAgrees
<1>6. BrokenIsHeld'
  BY <1>1, <1>2, <1>3 DEF BrokenIsHeld
<1>7. \A device : IsCurrent(device) => IsCurrent(device)'
  BY <1>1, <1>2, <1>3 DEF IsCurrent
<1>8. OneDevice'
  BY <1>1, <1>2, <1>7 DEF OneDevice
<1>9. QED
  BY <1>4, <1>5, <1>6, <1>8

\* What does not save an account leaves what is in it.
LEMMA AccountKept ==
  ASSUME TypeOK, AccountInv, NEW a \in Actors, NEW new, Moves(a, new),
         account' = account, trusted \subseteq trusted', excused \subseteq excused',
         new.at # "filling",
         "account" \notin excused' => proc[a].at # "filling"
  PROVE  AccountInv'
<1>1. /\ proc'[a] = new
      /\ \A b \in Actors \ {a} : proc'[b] = proc[b]
  BY MovesOne
<1>2. OneFiller'
  BY <1>1 DEF AccountInv, OneFiller
<1>3. AccountIsWhole'
  BY <1>1 DEF AccountInv, AccountIsWhole
<1>4. SavedIsTrusted'
  BY DEF AccountInv, SavedIsTrusted
<1>5. QED
  BY <1>2, <1>3, <1>4 DEF AccountInv

\* A device is carried, and trusted where an account is saved, from one place
\* of a job to the next.
LEMMA CarriesKept ==
  ASSUME TypeOK, Carries, NEW a \in Actors, NEW new, Moves(a, new), trusted \subseteq trusted',
         new.at \in Holding \union Later => new.device \in Devices,
         new.at \in {"team", "saving", "filling"} => new.device \in trusted'
  PROVE  Carries'
<1>1. /\ proc'[a] = new
      /\ \A b \in Actors \ {a} : proc'[b] = proc[b]
  BY MovesOne
<1>2. QED
  BY <1>1 DEF Carries

\* The types of all the rest.
LEMMA TypeKept ==
  ASSUME TypeOK, NEW a \in Actors, NEW new, Moves(a, new),
         identity' \in {Absent, Broken} \union Devices, account' \in Accounts,
         made' \in 0..MaxDevices, starts' \in 0..MaxStarts, faults' \in 0..MaxFaults,
         trusted' \subseteq Devices, excused' \subseteq {"identity", "account"}
  PROVE  TypeOK'
<1>1. /\ proc' \in [Actors -> ProcRecords]
      /\ \A b \in Actors : proc'[b].at = "idle" <=> proc'[b] = Idle
  BY MovesOne
<1>2. QED
  BY <1>1 DEF TypeOK, ProcRecords

LEMMA GotoMoves ==
  ASSUME TypeOK, NEW a \in Actors, NEW place \in Places \ {"idle"}, Goto(a, place)
  PROVE  Moves(a, [proc[a] EXCEPT !.at = place])
<1>1. proc \in [Actors -> ProcRecords]
  BY DEF TypeOK, ProcRecords
<1> DEFINE new == [proc[a] EXCEPT !.at = place]
<1>2. new \in ProcRecords /\ new.at = place
  BY <1>1 DEF ProcRecords
<1>3. proc' = [proc EXCEPT ![a] = new]
  BY <1>1 DEF Goto
<1>4. new # Idle
  BY <1>2 DEF Idle
<1>5. QED
  BY <1>2, <1>3, <1>4 DEF Moves

LEMMA EndMoves ==
  ASSUME NEW a \in Actors, End(a)
  PROVE  Moves(a, Idle) /\ Idle.at = "idle"
<1>1. Idle \in ProcRecords /\ Idle.at = "idle"
  BY DEF Idle, ProcRecords, Places
<1>2. QED
  BY <1>1 DEF Moves, End

-----------------------------------------------------------------------------
(* The steps                                                               *)

LEMMA InitInv ==
  Init => FilesInv
<1> SUFFICES ASSUME Init PROVE FilesInv
  OBVIOUS
<1> USE DEF Init
<1>1. \A a \in Actors : proc[a] = Idle /\ proc[a].at = "idle"
  BY DEF Idle
<1>2. TypeOK
  <2>1. proc \in [Actors -> ProcRecords]
    BY DEF Idle, ProcRecords, Places
  <2>2. QED
    BY <1>1, <2>1, BoundsAssumption DEF TypeOK, ProcRecords, Accounts
<1>3. Carries
  BY <1>1 DEF Carries, Holding, Later
<1>4. IdentityInv
  BY <1>1, Texts DEF IdentityInv, OneHolder, HolderAgrees, BrokenIsHeld, OneDevice, Holding, Later
<1>5. AccountInv
  BY <1>1, Texts DEF AccountInv, OneFiller, AccountIsWhole, SavedIsTrusted
<1>6. QED
  BY <1>2, <1>3, <1>4, <1>5 DEF FilesInv

\* An actor stops: it gives up, it has done, or a write fails.
LEMMA EndStep ==
  ASSUME FilesInv, NEW a \in Actors, End(a), UNCHANGED <<files, made, starts, trusted>>,
         faults' \in 0..MaxFaults, excused \subseteq excused', excused' \subseteq {"identity", "account"},
         "identity" \notin excused' => proc[a].at # "writing",
         "account" \notin excused' => proc[a].at # "filling"
  PROVE  FilesInv'
<1>1. Moves(a, Idle) /\ Idle.at = "idle"
  BY EndMoves
<1>2. "idle" \notin Holding \union Later
  BY DEF Holding, Later
<1>3. TypeOK /\ Carries /\ IdentityInv /\ AccountInv
  BY DEF FilesInv
<1>4. TypeOK'
  BY <1>1, <1>3, TypeKept DEF TypeOK, files
<1>5. Carries'
  BY <1>1, <1>2, <1>3, CarriesKept DEF files
<1>6. IdentityInv'
  BY <1>1, <1>2, <1>3, IdentityKept DEF files
<1>7. AccountInv'
  BY <1>1, <1>3, AccountKept DEF files
<1>8. QED
  BY <1>4, <1>5, <1>6, <1>7 DEF FilesInv

\* An actor goes on, and neither file is written.
LEMMA GotoStep ==
  ASSUME FilesInv, NEW a \in Actors, NEW place \in {"team", "saving"}, Goto(a, place),
         proc[a].at \in Later \ {"filling"}, proc[a].device \in trusted,
         UNCHANGED <<files, counts, trusted, excused>>
  PROVE  FilesInv'
<1> DEFINE new == [proc[a] EXCEPT !.at = place]
<1>1. TypeOK /\ Carries /\ IdentityInv /\ AccountInv
  BY DEF FilesInv
<1>2. place \in Places \ {"idle"}
  BY DEF Places
<1>3. Moves(a, new)
  BY <1>1, <1>2, GotoMoves
<1>4. new.at = place /\ new.device = proc[a].device
  BY <1>1 DEF TypeOK
<1>5. place \in Later /\ place \notin Holding /\ place # "filling"
  BY DEF Later, Holding
<1>6. proc[a].at # "writing" /\ proc[a].at # "filling" /\ proc[a].at \in Later
  BY DEF Later
<1>7. TypeOK'
  BY <1>1, <1>3, TypeKept DEF TypeOK, files, counts
<1>8. Carries'
  <2>1. proc[a].device \in Devices
    BY <1>1 DEF TypeOK
  <2>2. new.device \in Devices /\ new.device \in trusted' /\ trusted \subseteq trusted'
    BY <1>4, <2>1
  <2> HIDE DEF new
  <2>3. QED
    BY <1>1, <1>3, <2>2, CarriesKept
<1>9. IdentityInv'
  BY <1>1, <1>3, <1>4, <1>5, <1>6, IdentityKept DEF files
<1>10. AccountInv'
  BY <1>1, <1>3, <1>4, <1>5, <1>6, AccountKept DEF files
<1>11. QED
  BY <1>7, <1>8, <1>9, <1>10 DEF FilesInv

LEMMA BeginStep ==
  ASSUME FilesInv, NEW a \in Actors, NEW job \in Jobs(a), NEW saves \in {NoPassword, Complete},
         Begin(a, job, saves)
  PROVE  FilesInv'
<1> DEFINE new == [at |-> "reading", job |-> job, device |-> Absent, saves |-> saves]
<1>1. TypeOK /\ Carries /\ IdentityInv /\ AccountInv
  BY DEF FilesInv
<1>2. new \in ProcRecords
  BY DEF ProcRecords, Places, Jobs, Actors
<1>3. Moves(a, new) /\ new.at = "reading"
  BY <1>2 DEF Begin, Moves, Idle
<1>4. "reading" \notin Holding \union Later
  BY DEF Holding, Later
<1>5. starts' \in 0..MaxStarts
  BY <1>1, BoundsAssumption DEF Begin, TypeOK
<1>6. TypeOK'
  BY <1>1, <1>3, <1>5, TypeKept DEF TypeOK, Begin, files
<1>7. Carries'
  BY <1>1, <1>3, <1>4, CarriesKept DEF Begin
<1>8. IdentityInv'
  BY <1>1, <1>3, <1>4, IdentityKept DEF Begin, files
<1>9. AccountInv'
  BY <1>1, <1>3, AccountKept DEF Begin, files
<1>10. QED
  BY <1>6, <1>7, <1>8, <1>9 DEF FilesInv

\* ReadIdentity: whoever finds the file broken, or somebody holding the identity,
\* excuses it; else what it carries on is what the file has.
LEMMA ReadStep ==
  ASSUME FilesInv, NEW a \in Actors, ReadIdentity(a)
  PROVE  FilesInv'
<1>1. TypeOK /\ Carries /\ IdentityInv /\ AccountInv
  BY DEF FilesInv
<1>2. PICK place \in {"storing", "provisioning"}, device \in Devices :
        /\ proc' = [proc EXCEPT ![a].at = place, ![a].device = device]
        /\ place = "storing" => device = identity
        /\ place = "provisioning" => identity \notin Devices
        /\ made' \in 0..MaxDevices
  <2>1. CASE identity \in Devices
    BY <1>1, <2>1 DEF ReadIdentity, TypeOK
  <2>2. CASE identity \notin Devices
    <3>1. made' \in Devices /\ made' \in 0..MaxDevices
      BY <1>1, <2>2, BoundsAssumption DEF ReadIdentity, TypeOK, Devices
    <3>2. QED
      BY <2>2, <3>1 DEF ReadIdentity
  <2>3. QED
    BY <2>1, <2>2
<1> DEFINE new == [proc[a] EXCEPT !.at = place, !.device = device]
<1>3. new \in ProcRecords /\ new.at = place /\ new.device = device /\ new # Idle
  BY <1>1 DEF TypeOK, ProcRecords, Places, Holding, Idle
<1>4. proc' = [proc EXCEPT ![a] = new]
  BY <1>1, <1>2 DEF TypeOK
<1>5. Moves(a, new)
  BY <1>3, <1>4 DEF Moves, Idle
<1>6. /\ proc'[a] = new
      /\ \A b \in Actors \ {a} : proc'[b] = proc[b]
  BY <1>1, <1>5, MovesOne
<1>7. /\ excused \subseteq excused' /\ excused' \subseteq {"identity", "account"}
      /\ "identity" \notin excused' => ~ Others(a, Holding) /\ "identity" \notin excused
      /\ "account" \notin excused' => "account" \notin excused
  BY <1>1 DEF ReadIdentity, Excuse, TypeOK
<1>8. UNCHANGED <<identity, account, starts, faults, trusted>>
  BY DEF ReadIdentity, files
<1>9. proc[a].at = "reading" /\ place \in Holding /\ place \notin Later /\ place # "writing"
  BY DEF ReadIdentity, Holding, Later
<1> HIDE DEF new
<1>10. TypeOK'
  BY <1>1, <1>2, <1>5, <1>7, <1>8, TypeKept DEF TypeOK
<1>11. Carries'
  BY <1>1, <1>2, <1>3, <1>5, <1>8, CarriesKept
<1>12. ASSUME "identity" \notin excused'
       PROVE  (OneHolder /\ HolderAgrees /\ BrokenIsHeld /\ OneDevice)'
  <2>1. OneHolder /\ HolderAgrees /\ BrokenIsHeld /\ OneDevice
    BY <1>1, <1>7, <1>12 DEF IdentityInv
  <2>2. \A b \in Actors \ {a} : proc[b].at \notin Holding
    BY <1>7, <1>12 DEF Others
  <2>3. OneHolder'
    BY <1>6, <2>2 DEF OneHolder
  <2>4. identity # Broken
    BY <1>9, <2>1, <2>2 DEF BrokenIsHeld, Holding
  <2>5. identity \in {Absent} \union Devices
    BY <1>1, <2>4 DEF TypeOK
  <2>6. HolderAgrees'
    BY <1>2, <1>3, <1>6, <1>8, <2>2, <2>5 DEF HolderAgrees, Holding
  <2>7. BrokenIsHeld'
    BY <1>8, <2>4 DEF BrokenIsHeld
  <2>8. \A d : IsCurrent(d) => IsCurrent(d)'
    BY <1>6, <1>8, <1>9 DEF IsCurrent
  <2>9. OneDevice'
    BY <1>3, <1>6, <1>8, <1>9, <2>1, <2>8 DEF OneDevice
  <2>10. QED
    BY <2>3, <2>6, <2>7, <2>9
<1>13. AccountInv'
  BY <1>1, <1>3, <1>5, <1>7, <1>8, <1>9, AccountKept
<1>14. QED
  BY <1>10, <1>11, <1>12, <1>13 DEF FilesInv, IdentityInv

\* Provision, TruncateIdentity and WriteIdentity: the one who holds the identity
\* goes on to the next place; the file has what it carries, nothing, or is broken.
LEMMA HolderStep ==
  ASSUME FilesInv, NEW a \in Actors, proc[a].at \in Holding,
         NEW new, Moves(a, new), new.at \in {"storing", "writing", "apple", "idle"},
         new.at # "idle" => new.device = proc[a].device,
         UNCHANGED <<account, counts, trusted, excused>>,
         identity' \in {Absent, Broken} \union Devices,
         "identity" \notin excused =>
           /\ new.at = "storing" => identity' \in {Absent, proc[a].device}
           /\ new.at = "writing" <=> identity' = Broken
           /\ identity = proc[a].device \/ proc[a].at = "writing" =>
                identity' = proc[a].device \/ new.at = "writing"
           /\ new.at \in {"apple", "idle"} => identity' = proc[a].device
  PROVE  FilesInv'
<1>1. TypeOK /\ Carries /\ IdentityInv /\ AccountInv
  BY DEF FilesInv
<1>2. /\ proc'[a] = new
      /\ \A b \in Actors \ {a} : proc'[b] = proc[b]
  BY <1>1, MovesOne
<1>3. proc[a].device \in Devices
  BY <1>1 DEF Carries
<1>4. TypeOK'
  BY <1>1, TypeKept DEF TypeOK, counts
<1>5. Carries'
  <2>1. new.at # "idle" => new.device \in Devices
    BY <1>3
  <2>2. QED
    BY <1>1, <2>1, CarriesKept DEF Holding, Later
<1>6. AccountInv'
  BY <1>1, AccountKept DEF Holding
<1>7. ASSUME "identity" \notin excused'
      PROVE  (OneHolder /\ HolderAgrees /\ BrokenIsHeld /\ OneDevice)'
  <2>1. OneHolder /\ HolderAgrees /\ BrokenIsHeld /\ OneDevice
    BY <1>1, <1>7 DEF IdentityInv
  <2>2. \A b \in Actors \ {a} : proc[b].at \notin Holding
    BY <2>1 DEF OneHolder
  <2>3. OneHolder'
    BY <1>2, <2>2 DEF OneHolder
  <2>4. HolderAgrees'
    BY <1>2, <1>7, <2>2 DEF HolderAgrees, Holding
  <2>5. BrokenIsHeld'
    BY <1>2, <1>7 DEF BrokenIsHeld
  <2>6. \A d : IsCurrent(d) => d = proc[a].device /\ (identity = proc[a].device \/ proc[a].at = "writing")
    <3>1. TAKE d
    <3>2. CASE identity \in Devices /\ d = identity
      BY <2>1, <3>2, Texts DEF HolderAgrees, Holding
    <3>3. CASE \E w \in Actors : proc[w].at = "writing" /\ proc[w].device = d
      BY <2>2, <3>3 DEF Holding
    <3>4. QED
      BY <3>2, <3>3 DEF IsCurrent
  <2>7. \A d : d = proc[a].device /\ (identity' = d \/ new.at = "writing") => IsCurrent(d)'
    BY <1>2, <1>3 DEF IsCurrent
  <2>8. \A d : IsCurrent(d) => IsCurrent(d)'
    BY <1>7, <2>6, <2>7
  <2>9. \A b \in Actors : proc'[b].at \in Later => \A d : d = proc'[b].device => IsCurrent(d)'
    <3>1. TAKE b \in Actors
    <3>2. CASE b = a
      BY <1>2, <1>7, <2>7, <3>2 DEF Later
    <3>3. CASE b # a
      BY <1>2, <2>1, <2>8, <3>3 DEF OneDevice
    <3>4. QED
      BY <3>2, <3>3
  <2>10. OneDevice'
    BY <2>1, <2>8, <2>9 DEF OneDevice
  <2>11. QED
    BY <2>3, <2>4, <2>5, <2>10
<1>8. QED
  BY <1>4, <1>5, <1>6, <1>7 DEF FilesInv, IdentityInv

LEMMA ProvisionStep ==
  ASSUME FilesInv, NEW a \in Actors, Provision(a)
  PROVE  FilesInv'
<1> DEFINE new == [proc[a] EXCEPT !.at = "storing"]
<1>1. TypeOK /\ IdentityInv
  BY DEF FilesInv
<1>2. "storing" \in Places \ {"idle"} /\ "provisioning" \in Holding
  BY DEF Places, Holding
<1>3. Moves(a, new)
  BY <1>1, <1>2, GotoMoves DEF Provision
<1>4. new.at = "storing" /\ new.device = proc[a].device
  BY <1>1 DEF TypeOK
<1>5. identity' = identity /\ account' = account /\ proc[a].at = "provisioning"
  BY DEF Provision, files
<1>6. "identity" \notin excused => identity' = Absent
  BY <1>1, <1>5 DEF IdentityInv, HolderAgrees
<1>7. proc[a].device # Absent
  BY <1>2, <1>5, Texts DEF FilesInv, Carries
<1>8. identity' \in {Absent, Broken} \union Devices
  BY <1>1, <1>5 DEF TypeOK
<1> HIDE DEF new
<1>9. QED
  BY <1>2, <1>3, <1>4, <1>5, <1>6, <1>7, <1>8, Texts, HolderStep DEF Provision

LEMMA TruncateIdentityStep ==
  ASSUME FilesInv, NEW a \in Actors, TruncateIdentity(a)
  PROVE  FilesInv'
<1> DEFINE new == [proc[a] EXCEPT !.at = "writing"]
<1>1. TypeOK
  BY DEF FilesInv
<1>2. "writing" \in Places \ {"idle"} /\ "storing" \in Holding
  BY DEF Places, Holding
<1>3. Moves(a, new)
  BY <1>1, <1>2, GotoMoves DEF TruncateIdentity
<1>4. new.at = "writing" /\ new.device = proc[a].device
  BY <1>1 DEF TypeOK
<1> HIDE DEF new
<1>5. QED
  BY <1>2, <1>3, <1>4, HolderStep DEF TruncateIdentity

LEMMA WriteIdentityStep ==
  ASSUME FilesInv, NEW a \in Actors, WriteIdentity(a)
  PROVE  FilesInv'
<1>1. TypeOK /\ IdentityInv /\ Carries
  BY DEF FilesInv
<1>2. proc[a].at \in Holding /\ proc[a].at = "writing"
  BY DEF WriteIdentity, Holding
<1>3. proc[a].device \in Devices
  BY <1>1, <1>2 DEF Carries
<1>4. "identity" \notin excused => identity = Broken
  BY <1>1, <1>2 DEF IdentityInv, HolderAgrees
<1>5. "identity" \notin excused => identity' = proc[a].device
  BY <1>4 DEF WriteIdentity, Over
<1>6. identity' \in {Absent, Broken} \union Devices
  BY <1>3 DEF WriteIdentity, Over
<1>7. PICK new : /\ Moves(a, new) /\ new.at \in {"apple", "idle"}
                 /\ new.at # "idle" => new.device = proc[a].device
  <2>1. CASE End(a)
    BY <2>1, EndMoves
  <2>2. CASE Goto(a, "apple")
    <3> DEFINE new == [proc[a] EXCEPT !.at = "apple"]
    <3>1. "apple" \in Places \ {"idle"}
      BY DEF Places
    <3>2. Moves(a, new)
      BY <1>1, <2>2, <3>1, GotoMoves
    <3>3. new.at = "apple" /\ new.device = proc[a].device
      BY <1>1 DEF TypeOK
    <3> HIDE DEF new
    <3>4. QED
      BY <3>2, <3>3
  <2>3. QED
    BY <2>1, <2>2 DEF WriteIdentity
<1>8. proc[a].device # Broken
  BY <1>3, Texts
<1>9. UNCHANGED <<account, counts, trusted, excused>>
  BY DEF WriteIdentity
<1>10. new.at # "storing" /\ new.at # "writing"
  BY <1>7
<1>11. QED
  BY <1>2, <1>5, <1>6, <1>7, <1>8, <1>9, <1>10, HolderStep

LEMMA CodeIsTypedStep ==
  ASSUME FilesInv, NEW a \in Actors, CodeIsTyped(a)
  PROVE  FilesInv'
<1> DEFINE new == [proc[a] EXCEPT !.at = "team"]
<1>1. TypeOK /\ Carries /\ IdentityInv /\ AccountInv
  BY DEF FilesInv
<1>2. "team" \in Places \ {"idle"} /\ "team" \notin Holding /\ "team" \in Later /\ "apple" \in Later
  BY DEF Places, Holding, Later
<1>3. Moves(a, new)
  BY <1>1, <1>2, GotoMoves DEF CodeIsTyped
<1>4. new.at = "team" /\ new.device = proc[a].device /\ proc[a].at = "apple"
  BY <1>1 DEF TypeOK, CodeIsTyped
<1>5. proc[a].device \in Devices
  BY <1>1, <1>2, <1>4 DEF Carries
<1>6. /\ trusted' = trusted \union {proc[a].device}
      /\ UNCHANGED <<identity, account, made, starts, faults, excused>>
  BY DEF CodeIsTyped, files, counts
<1> HIDE DEF new
<1>7. TypeOK'
  BY <1>1, <1>3, <1>5, <1>6, TypeKept DEF TypeOK
<1>8. Carries'
  BY <1>1, <1>3, <1>4, <1>5, <1>6, CarriesKept
<1>9. AccountInv'
  BY <1>1, <1>3, <1>4, <1>6, AccountKept
<1>10. ASSUME "identity" \notin excused'
       PROVE  (OneHolder /\ HolderAgrees /\ BrokenIsHeld /\ OneDevice)'
  <2>1. OneHolder /\ HolderAgrees /\ BrokenIsHeld /\ OneDevice
    BY <1>1, <1>6, <1>10 DEF IdentityInv
  <2>2. /\ proc'[a] = new
        /\ \A b \in Actors \ {a} : proc'[b] = proc[b]
    BY <1>1, <1>3, MovesOne
  <2>3. OneHolder'
    BY <1>2, <1>4, <2>1, <2>2 DEF OneHolder
  <2>4. HolderAgrees'
    BY <1>4, <1>6, <2>1, <2>2 DEF HolderAgrees
  <2>5. BrokenIsHeld'
    BY <1>4, <1>6, <2>1, <2>2 DEF BrokenIsHeld
  <2>6. \A d : IsCurrent(d) => IsCurrent(d)'
    BY <1>4, <1>6, <2>2 DEF IsCurrent
  <2>7. OneDevice'
    BY <1>2, <1>4, <1>6, <2>1, <2>2, <2>6 DEF OneDevice
  <2>8. QED
    BY <2>3, <2>4, <2>5, <2>7
<1>11. QED
  BY <1>7, <1>8, <1>9, <1>10 DEF FilesInv, IdentityInv

LEMMA TruncateAccountStep ==
  ASSUME FilesInv, NEW a \in Actors, TruncateAccount(a)
  PROVE  FilesInv'
<1> DEFINE new == [proc[a] EXCEPT !.at = "filling"]
<1>1. TypeOK /\ Carries /\ IdentityInv /\ AccountInv
  BY DEF FilesInv
<1>2. "filling" \in Places \ {"idle"} /\ "filling" \notin Holding /\ "filling" \in Later /\ "saving" \in Later
  BY DEF Places, Holding, Later
<1>3. Moves(a, new)
  BY <1>1, <1>2, GotoMoves DEF TruncateAccount
<1>4. new.at = "filling" /\ new.device = proc[a].device /\ proc[a].at = "saving"
  BY <1>1 DEF TypeOK, TruncateAccount
<1>5. proc[a].device \in Devices /\ proc[a].device \in trusted
  BY <1>1, <1>2, <1>4 DEF Carries
<1>6. account' = Broken /\ UNCHANGED <<identity, made, starts, faults, trusted>>
  BY DEF TruncateAccount, counts
<1>7. /\ excused \subseteq excused' /\ excused' \subseteq {"identity", "account"}
      /\ "account" \notin excused' => ~ Others(a, {"filling"}) /\ "account" \notin excused
      /\ "identity" \notin excused' => "identity" \notin excused
  BY <1>1 DEF TruncateAccount, Excuse, TypeOK
<1> HIDE DEF new
<1>8. TypeOK'
  <2>1. account' \in Accounts
    BY <1>6 DEF Accounts
  <2>2. QED
    BY <1>1, <1>3, <1>6, <1>7, <2>1, TypeKept DEF TypeOK
<1>9. Carries'
  BY <1>1, <1>3, <1>4, <1>5, <1>6, CarriesKept
<1>10. IdentityInv'
  BY <1>1, <1>2, <1>3, <1>4, <1>6, <1>7, IdentityKept
<1>11. AccountInv'
  <2>1. /\ proc'[a] = new
        /\ \A b \in Actors \ {a} : proc'[b] = proc[b]
    BY <1>1, <1>3, MovesOne
  <2>2. OneFiller'
    BY <1>6, <1>7, <2>1 DEF OneFiller, Others
  <2>3. AccountIsWhole'
    BY <1>4, <2>1 DEF AccountIsWhole
  <2>4. SavedIsTrusted'
    BY <1>6, Texts DEF SavedIsTrusted
  <2>5. QED
    BY <2>2, <2>3, <2>4 DEF AccountInv
<1>12. QED
  BY <1>8, <1>9, <1>10, <1>11 DEF FilesInv

LEMMA FillAccountStep ==
  ASSUME FilesInv, NEW a \in Actors, FillAccount(a)
  PROVE  FilesInv'
<1>1. TypeOK /\ Carries /\ IdentityInv /\ AccountInv
  BY DEF FilesInv
<1>2. Moves(a, Idle) /\ Idle.at = "idle"
  BY EndMoves DEF FillAccount
<1>3. "idle" \notin Holding \union Later
  BY DEF Holding, Later
<1>4. proc[a].at = "filling"
  BY DEF FillAccount
<1>5. UNCHANGED <<identity, made, starts, faults, trusted, excused>>
  BY DEF FillAccount, counts
<1>6. account' \in Over(account, proc[a].saves) /\ proc[a].saves \in {Absent, NoPassword, Complete}
  BY <1>1 DEF FillAccount, TypeOK
<1>7. TypeOK'
  <2>1. account' \in Accounts
    BY <1>6 DEF Over, Accounts, NoPassword, Complete
  <2>2. QED
    BY <1>1, <1>2, <1>5, <2>1, TypeKept DEF TypeOK
<1>8. Carries'
  BY <1>1, <1>2, <1>3, <1>5, CarriesKept
<1>9. IdentityInv'
  BY <1>1, <1>2, <1>3, <1>4, <1>5, IdentityKept
<1>10. AccountInv'
  <2>1. /\ proc'[a] = Idle
        /\ \A b \in Actors \ {a} : proc'[b] = proc[b]
    BY <1>1, <1>2, MovesOne
  <2>2. OneFiller'
    BY <1>1, <1>2, <1>4, <1>5, <2>1 DEF OneFiller, AccountInv
  <2>3. AccountIsWhole'
    <3>1. "account" \notin excused => account = Broken
      BY <1>1, <1>4 DEF AccountInv, OneFiller
    <3>2. "account" \notin excused => account' # Broken
      BY <1>6, <3>1, Texts DEF Over
    <3>3. QED
      BY <1>5, <3>2 DEF AccountIsWhole
  <2>4. SavedIsTrusted'
    BY <1>1, <1>4, <1>5 DEF Carries, SavedIsTrusted
  <2>5. QED
    BY <2>2, <2>3, <2>4 DEF AccountInv
<1>11. QED
  BY <1>7, <1>8, <1>9, <1>10 DEF FilesInv

LEMMA WriteFailsStep ==
  ASSUME FilesInv, NEW a \in Actors, WriteFails(a)
  PROVE  FilesInv'
<1>1. TypeOK
  BY DEF FilesInv
<1>2. faults' \in 0..MaxFaults
  BY <1>1, BoundsAssumption DEF WriteFails, TypeOK
<1>3. /\ excused' = excused \union CutShort({a})
      /\ CutShort({a}) \subseteq {"identity", "account"}
      /\ proc[a].at = "writing" => "identity" \in CutShort({a})
      /\ proc[a].at = "filling" => "account" \in CutShort({a})
  BY DEF WriteFails, CutShort
<1>4. excused' \subseteq {"identity", "account"}
  BY <1>1, <1>3 DEF TypeOK
<1>5. QED
  BY <1>2, <1>3, <1>4, EndStep DEF WriteFails

\* A program that stops leaves the files as they are, and none of its threads
\* with a device; a write that it cuts short excuses the file.
LEMMA CrashStep ==
  ASSUME FilesInv, NEW program, Crash(program)
  PROVE  FilesInv'
<1> DEFINE actors == {a \in Actors : Program(a) = program}
<1>1. TypeOK /\ Carries /\ IdentityInv /\ AccountInv
  BY DEF FilesInv
<1>2. /\ \A b \in actors : proc'[b] = Idle /\ proc'[b].at = "idle"
      /\ \A b \in Actors \ actors : proc'[b] = proc[b]
      /\ \A b \in Actors : proc'[b].at = "idle" <=> proc'[b] = Idle
  <2>1. Idle.at = "idle"
    BY DEF Idle
  <2>2. QED
    BY <1>1, <2>1 DEF Crash, TypeOK
<1>3. /\ excused' = excused \union CutShort(actors)
      /\ CutShort(actors) \subseteq {"identity", "account"}
      /\ \A b \in actors : proc[b].at = "writing" => "identity" \in CutShort(actors)
      /\ \A b \in actors : proc[b].at = "filling" => "account" \in CutShort(actors)
  BY DEF Crash, CutShort
<1>4. UNCHANGED <<identity, account, made, starts, trusted>>
  BY DEF Crash, files
<1>5. "idle" \notin Holding \union Later
  BY DEF Holding, Later
<1>6. TypeOK'
  <2>1. proc' \in [Actors -> ProcRecords]
    <3>1. Idle \in ProcRecords
      BY DEF Idle, ProcRecords, Places
    <3>2. \A b \in Actors : proc[b] \in ProcRecords
      BY <1>1 DEF TypeOK, ProcRecords
    <3>3. QED
      BY <3>1, <3>2 DEF Crash
  <2>2. faults' \in 0..MaxFaults
    BY <1>1, BoundsAssumption DEF Crash, TypeOK
  <2>3. QED
    BY <1>1, <1>2, <1>3, <1>4, <2>1, <2>2 DEF TypeOK, ProcRecords
<1> HIDE DEF actors
<1>7. Carries'
  BY <1>1, <1>2, <1>4, <1>5 DEF Carries
<1>8. ASSUME "identity" \notin excused'
      PROVE  (OneHolder /\ HolderAgrees /\ BrokenIsHeld /\ OneDevice)'
  <2>1. OneHolder /\ HolderAgrees /\ BrokenIsHeld /\ OneDevice
    BY <1>1, <1>3, <1>8 DEF IdentityInv
  <2>2. \A b \in Actors : proc[b].at = "writing" => b \notin actors
    BY <1>3, <1>8
  <2>3. OneHolder'
    BY <1>2, <1>5, <2>1 DEF OneHolder
  <2>4. HolderAgrees'
    BY <1>2, <1>4, <2>1 DEF HolderAgrees
  <2>5. BrokenIsHeld'
    BY <1>2, <1>4, <2>1, <2>2 DEF BrokenIsHeld
  <2>6. \A d : IsCurrent(d) => IsCurrent(d)'
    BY <1>2, <1>4, <2>2 DEF IsCurrent
  <2>7. OneDevice'
    BY <1>2, <1>4, <1>5, <2>1, <2>6 DEF OneDevice
  <2>8. QED
    BY <2>3, <2>4, <2>5, <2>7
<1>9. OneFiller'
  BY <1>1, <1>2, <1>3, <1>4 DEF OneFiller, AccountInv
<1>10. AccountIsWhole'
  <2>1. \A b \in Actors : proc[b].at = "filling" /\ "account" \notin excused' => b \notin actors
    BY <1>3
  <2>2. QED
    BY <1>1, <1>2, <1>3, <1>4, <2>1 DEF AccountIsWhole, AccountInv
<1>11. SavedIsTrusted'
  BY <1>1, <1>4 DEF SavedIsTrusted, AccountInv
<1>12. QED
  BY <1>6, <1>7, <1>8, <1>9, <1>10, <1>11 DEF FilesInv, IdentityInv, AccountInv

\* A job that gives up, or a renewal that is signed in, is not in a write.
LEMMA QuietEnd ==
  ASSUME FilesInv, NEW a \in Actors, End(a), UNCHANGED <<files, counts, trusted, excused>>,
         proc[a].at \notin {"writing", "filling"}
  PROVE  FilesInv'
<1>1. faults' \in 0..MaxFaults /\ excused' = excused /\ excused \subseteq {"identity", "account"}
  BY DEF FilesInv, TypeOK, counts
<1>2. UNCHANGED <<files, made, starts, trusted>>
  BY DEF counts
<1>3. QED
  BY <1>1, <1>2, EndStep

LEMMA StepInv ==
  FilesInv /\ [Next]_vars => FilesInv'
<1> SUFFICES ASSUME FilesInv, [Next]_vars
             PROVE  FilesInv'
  OBVIOUS
<1>1. ASSUME NEW a \in Actors, NEW job \in Jobs(a), NEW saves \in {NoPassword, Complete},
             Begin(a, job, saves)
      PROVE  FilesInv'
  BY <1>1, BeginStep
<1>2. ASSUME NEW a \in Actors, ReadIdentity(a) PROVE FilesInv'
  BY <1>2, ReadStep
<1>3. ASSUME NEW a \in Actors, Provision(a) PROVE FilesInv'
  BY <1>3, ProvisionStep
<1>4. ASSUME NEW a \in Actors, ProvisionFails(a) PROVE FilesInv'
  BY <1>4, QuietEnd DEF ProvisionFails
<1>5. ASSUME NEW a \in Actors, TruncateIdentity(a) PROVE FilesInv'
  BY <1>5, TruncateIdentityStep
<1>6. ASSUME NEW a \in Actors, WriteIdentity(a) PROVE FilesInv'
  BY <1>6, WriteIdentityStep
<1>7. ASSUME NEW a \in Actors, SignedIn(a) PROVE FilesInv'
  <2>1. CASE End(a)
    BY <1>7, <2>1, QuietEnd DEF SignedIn
  <2>2. CASE Goto(a, "team")
    <3>1. proc[a].at \in Later \ {"filling"}
      BY <1>7 DEF SignedIn, Later
    <3>2. QED
      BY <1>7, <2>2, <3>1, GotoStep DEF SignedIn
  <2>3. QED
    BY <1>7, <2>1, <2>2 DEF SignedIn
<1>8. ASSUME NEW a \in Actors, CodeIsTyped(a) PROVE FilesInv'
  BY <1>8, CodeIsTypedStep
<1>9. ASSUME NEW a \in Actors, SignInFails(a) PROVE FilesInv'
  BY <1>9, QuietEnd DEF SignInFails
<1>10. ASSUME NEW a \in Actors, PickTeam(a) PROVE FilesInv'
  <2>1. proc[a].at = "team" /\ proc[a].at \in Later \ {"filling"}
    BY <1>10 DEF PickTeam, Later
  <2>2. proc[a].device \in trusted
    BY <2>1 DEF FilesInv, Carries
  <2>3. QED
    BY <1>10, <2>1, <2>2, GotoStep DEF PickTeam
<1>11. ASSUME NEW a \in Actors, PickTeamFails(a) PROVE FilesInv'
  BY <1>11, QuietEnd DEF PickTeamFails
<1>12. ASSUME NEW a \in Actors, TruncateAccount(a) PROVE FilesInv'
  BY <1>12, TruncateAccountStep
<1>13. ASSUME NEW a \in Actors, FillAccount(a) PROVE FilesInv'
  BY <1>13, FillAccountStep
<1>14. ASSUME NEW a \in Actors, WriteFails(a) PROVE FilesInv'
  BY <1>14, WriteFailsStep
<1>15. ASSUME NEW a \in Actors, Crash(Program(a)) PROVE FilesInv'
  BY <1>15, CrashStep
<1>16. CASE UNCHANGED vars
  <2>1. UNCHANGED <<identity, account, proc, made, starts, faults, trusted, excused>>
    BY <1>16 DEF vars, files, counts
  <2>2. TypeOK'
    BY <2>1 DEF FilesInv, TypeOK
  <2>3. Carries'
    BY <2>1 DEF FilesInv, Carries
  <2>4. IdentityInv'
    BY <2>1 DEF FilesInv, IdentityInv, OneHolder, HolderAgrees, BrokenIsHeld, OneDevice, IsCurrent
  <2>5. AccountInv'
    BY <2>1 DEF FilesInv, AccountInv, OneFiller, AccountIsWhole, SavedIsTrusted
  <2>6. QED
    BY <2>2, <2>3, <2>4, <2>5 DEF FilesInv
<1>17. QED
  BY <1>1, <1>2, <1>3, <1>4, <1>5, <1>6, <1>7, <1>8, <1>9, <1>10, <1>11, <1>12, <1>13, <1>14,
     <1>15, <1>16
  DEF Next

-----------------------------------------------------------------------------
(* The theorems                                                            *)

\* Every reachable state satisfies the inductive invariant.
THEOREM FilesInvHolds == Spec => []FilesInv
<1>1. QED
  BY InitInv, StepInv, PTL DEF Spec

\* The files and the jobs keep their types.
THEOREM TypeCorrect == Spec => []TypeOK
<1>1. FilesInv => TypeOK
  BY DEF FilesInv
<1>2. QED
  BY <1>1, FilesInvHolds, PTL

\* Apple is asked for one trusted device only ("after the first two-factor code
\* Apple usually asks no other", apple.rs:116-117): whoever goes to Apple has
\* the device that gave a code, unless two jobs used the identity at a time or
\* a write of it was cut short.
THEOREM CodeOnceHolds == Spec => []CodeOnce
<1>1. FilesInv => CodeOnce
  <2> SUFFICES ASSUME FilesInv, "identity" \notin excused,
                      NEW a \in Actors, proc[a].at = "apple", NEW d \in trusted
               PROVE  d = proc[a].device
    BY DEF CodeOnce
  <2>1. OneHolder /\ HolderAgrees /\ OneDevice
    BY DEF FilesInv, IdentityInv
  <2>2. IsCurrent(d) /\ IsCurrent(proc[a].device)
    BY <2>1 DEF OneDevice, Later
  <2>3. \A w \in Actors : proc[w].at = "writing" => identity \notin Devices
    BY <2>1, Texts DEF HolderAgrees
  <2>4. QED
    BY <2>1, <2>2, <2>3 DEF IsCurrent, OneHolder, Holding
<1>2. QED
  BY <1>1, FilesInvHolds, PTL

\* An account with its password goes with a device that Apple trusts
\* (README.md:146, apple.rs:72): on disk, or in the hands of the job that is
\* writing it back, unless the identity was excused as above.
THEOREM RenewsAloneHolds == Spec => []RenewsAlone
<1>1. FilesInv => RenewsAlone
  <2> SUFFICES ASSUME FilesInv, account = Complete, "identity" \notin excused
               PROVE  \/ identity \in trusted
                      \/ \E a \in Actors : proc[a].at = "writing" /\ proc[a].device \in trusted
    BY DEF RenewsAlone
  <2>1. PICK d \in trusted : IsCurrent(d)
    BY DEF FilesInv, AccountInv, SavedIsTrusted, IdentityInv, OneDevice
  <2>2. QED
    BY <2>1 DEF IsCurrent
<1>2. QED
  BY <1>1, FilesInvHolds, PTL

\* account.json does not parse only while somebody fills it (apple.rs:62-69),
\* unless two filled it at a time or a write of it was cut short.
THEOREM AccountIsWholeHolds == Spec => []AccountIsWhole
<1>1. FilesInv => AccountIsWhole
  BY DEF FilesInv, AccountInv
<1>2. QED
  BY <1>1, FilesInvHolds, PTL

-----------------------------------------------------------------------------
(* A renewal is asked no code                                              *)

\* A renewal was begun on an account that a sign-in saved, so some device is
\* trusted; Apple forgets none.
RenewalsTrust == \A a \in Actors : proc[a].job = "renew" => trusted # {}

\* Nothing is running at first.
LEMMA RenewalsTrustInit == Init => RenewalsTrust
  BY DEF Init, RenewalsTrust, Idle

\* A job is made a renewal by Begin only, and a device once trusted stays so.
LEMMA RenewalsTrustStep == FilesInv /\ RenewalsTrust /\ [Next]_vars => RenewalsTrust'
<1> SUFFICES ASSUME FilesInv, RenewalsTrust, [Next]_vars, NEW a \in Actors, proc'[a].job = "renew"
             PROVE  trusted' # {}
  BY DEF RenewalsTrust
<1> DEFINE Begins == \E b \in Actors : \E job \in Jobs(b), saves \in {NoPassword, Complete} :
                       Begin(b, job, saves) /\ job = "renew"
<1>1. proc \in [Actors -> ProcRecords]
  BY DEF FilesInv, TypeOK, ProcRecords
<1>2. CASE Begins
  BY <1>2 DEF Begin, FilesInv, AccountInv, SavedIsTrusted
<1>3. CASE ~Begins
  <2>1. proc[a].job = "renew" /\ trusted \subseteq trusted'
    <3>1. ASSUME NEW b \in Actors, NEW job \in Jobs(b), NEW saves \in {NoPassword, Complete}, Begin(b, job, saves)
          PROVE  proc[a].job = "renew" /\ trusted \subseteq trusted'
      BY <1>1, <1>3, <3>1 DEF Begin, ProcRecords
    <3>2. ASSUME NEW b \in Actors, ReadIdentity(b)
          PROVE  proc[a].job = "renew" /\ trusted \subseteq trusted'
      BY <1>1, <3>2 DEF ReadIdentity, ProcRecords
    <3>3. ASSUME NEW b \in Actors,
                 Provision(b) \/ TruncateIdentity(b) \/ WriteIdentity(b) \/ SignedIn(b) \/ CodeIsTyped(b)
                   \/ PickTeam(b) \/ TruncateAccount(b)
          PROVE  proc[a].job = "renew" /\ trusted \subseteq trusted'
      BY <1>1, <3>3
      DEF Provision, TruncateIdentity, WriteIdentity, SignedIn, CodeIsTyped, PickTeam, TruncateAccount,
          Goto, End, Idle, ProcRecords
    <3>4. ASSUME NEW b \in Actors,
                 ProvisionFails(b) \/ SignInFails(b) \/ PickTeamFails(b) \/ FillAccount(b) \/ WriteFails(b)
          PROVE  proc[a].job = "renew" /\ trusted \subseteq trusted'
      BY <1>1, <3>4
      DEF ProvisionFails, SignInFails, PickTeamFails, FillAccount, WriteFails, End, Idle, ProcRecords
    <3>5. ASSUME NEW b \in Actors, Crash(Program(b))
          PROVE  proc[a].job = "renew" /\ trusted \subseteq trusted'
      BY <1>1, <3>5 DEF Crash, Idle, ProcRecords
    <3>6. CASE UNCHANGED vars
      BY <3>6 DEF vars
    <3>7. QED
      BY <3>1, <3>2, <3>3, <3>4, <3>5, <3>6 DEF Next
  <2>2. QED
    BY <2>1 DEF RenewalsTrust
<1>4. QED
  BY <1>2, <1>3

\* A renewal is asked no code after a sign-in saved the password (README.md:146),
\* whatever fails or crashes, unless two jobs had the identity at a time or a
\* write of it was cut short: the overlap that the run files_apart shows is, of
\* all orders of the jobs, the only way to break the promise.
THEOREM OnlyOverlapsAskHolds == Spec => []OnlyOverlapsAsk
<1>1. FilesInv /\ CodeOnce /\ RenewalsTrust => OnlyOverlapsAsk
  BY DEF CodeOnce, RenewalsTrust, OnlyOverlapsAsk
<1>2. Spec => []RenewalsTrust
  BY RenewalsTrustInit, RenewalsTrustStep, FilesInvHolds, PTL DEF Spec
<1>3. QED
  BY <1>1, <1>2, FilesInvHolds, CodeOnceHolds, PTL

=============================================================================
