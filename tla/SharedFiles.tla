----------------------------- MODULE SharedFiles -----------------------------
(***************************************************************************)
(* The two files that every sign-in needs, state/anisette_state and        *)
(* account.json, and those who share them without a lock: cron's renewals, *)
(* the page's renewals and sign-ins, the command line's sign-ins and the   *)
(* anisette data for AltStore (src/src/apple.rs, with run_login of web.rs, *)
(* cmd_login and cmd_renew of main.rs and the vendored remote_v3).         *)
(*                                                                         *)
(* The identity is read, provisioned if there is none, and written back    *)
(* each time; a write truncates the file first.  Apple asks a code of a    *)
(* device it does not trust yet, which only a sign-in can answer.          *)
(***************************************************************************)
EXTENDS Naturals, FiniteSets

CONSTANTS
  MaxDevices,   \* random identities made in a behaviour
  MaxStarts,    \* jobs begun
  MaxFaults     \* crashes and failed writes

ASSUME BoundsAssumption == MaxDevices \in Nat /\ MaxStarts \in Nat /\ MaxFaults \in Nat

\* What is in a file that is not there, or that does not parse.
Absent == 0
Broken == 100
Devices == 1..MaxDevices
Accounts == {Absent, Broken, 1, 2}
NoPassword == 1
Complete == 2

ASSUME DevicesAssumption == MaxDevices < Broken

\* cron stands for every command that signs in by itself, `apps` included.
Actors == {"cron", "page", "cli", "altstore"}
Program(a) == IF a = "altstore" THEN "page" ELSE a    \* serve --altserver

Jobs(a) ==
  CASE a = "cron" -> {"renew"}
    [] a = "page" -> {"renew", "login"}
    [] a = "cli" -> {"login"}
    [] a = "altstore" -> {"anisette"}

\* The places of a job that has read the identity and not written it back.
Holding == {"provisioning", "storing", "writing"}
Places == {"idle", "reading", "apple", "team", "saving", "filling"} \union Holding

VARIABLES
  identity, account,   \* the two files
  proc,                \* each actor: place, job, device, and what it will save
  made, starts, faults,
  trusted,             \* the devices that Apple asks no code of
  \* history, read by the properties only
  excused              \* the files that two used at once, or whose write was cut short

files == <<identity, account>>
counts == <<made, starts, faults>>
vars == <<files, proc, counts, trusted, excused>>

Idle == [at |-> "idle", job |-> "none", device |-> Absent, saves |-> Absent]

Init ==
  /\ identity = Absent
  /\ account = Absent
  /\ proc = [a \in Actors |-> Idle]
  /\ made = 0 /\ starts = 0 /\ faults = 0
  /\ trusted = {}
  /\ excused = {}

Goto(a, place) == proc' = [proc EXCEPT ![a].at = place]

\* Mutation: what a job knew is still there for the next.
EndKeeping(a) == proc' = [proc EXCEPT ![a].at = "idle"]

End(a) == proc' = [proc EXCEPT ![a] = Idle]

Others(a, places) == \E b \in Actors \ {a} : proc[b].at \in places

Excuse(file, condition) == excused' = IF condition THEN excused \union {file} ELSE excused

\* write_all over what is in the file: another text, of another length, leaves a mixture.
Over(file, text) == IF file \in {Absent, Broken, text} THEN {text} ELSE {text, Broken}

\* load_account: no renewal without a file that parses and has a password.
Begin(a, job, saves) ==
  /\ proc[a].at = "idle"
  /\ starts < MaxStarts
  /\ starts' = starts + 1
  /\ job \in Jobs(a)
  /\ job = "renew" => account = Complete
  /\ proc' = [proc EXCEPT ![a] = [at |-> "reading", job |-> job, device |-> Absent, saves |-> saves]]
  /\ UNCHANGED <<files, made, faults, trusted, excused>>

-----------------------------------------------------------------------------
(* The identity: anisette_provider, get_state                              *)

\* Mutation: an identity that another job may be about to replace is not used.
ReadIdentityFresh(a) ==
  /\ proc[a].at = "reading"
  /\ made < MaxDevices
  /\ made' = made + 1
  /\ proc' = [proc EXCEPT ![a].at = "provisioning", ![a].device = made']
  /\ Excuse("identity", Others(a, Holding))
  /\ UNCHANGED <<files, starts, faults, trusted>>

\* "Failed to parse existing anisette state, starting fresh", as with none.
ReadIdentity(a) ==
  /\ proc[a].at = "reading"
  /\ \/ /\ identity \in Devices
        /\ proc' = [proc EXCEPT ![a].at = "storing", ![a].device = identity]
        /\ UNCHANGED made
     \/ /\ identity \notin Devices
        /\ made < MaxDevices
        /\ made' = made + 1
        /\ proc' = [proc EXCEPT ![a].at = "provisioning", ![a].device = made']
  /\ Excuse("identity", Others(a, Holding))
  /\ UNCHANGED <<files, starts, faults, trusted>>

\* Mutation: the identity that has been provisioned is not stored.
ProvisionOnly(a) ==
  /\ proc[a].at = "provisioning"
  /\ proc' = [proc EXCEPT ![a].at = IF proc[a].job = "anisette" THEN "storing" ELSE "apple"]
  /\ UNCHANGED <<files, counts, trusted, excused>>

Provision(a) ==
  /\ proc[a].at = "provisioning"
  /\ Goto(a, "storing")
  /\ UNCHANGED <<files, counts, trusted, excused>>

ProvisionFails(a) ==
  /\ proc[a].at = "provisioning"
  /\ End(a)
  /\ UNCHANGED <<files, counts, trusted, excused>>

\* store_data: the file is truncated, then written; AltStore's data end here.
TruncateIdentity(a) ==
  /\ proc[a].at = "storing"
  /\ identity' = Broken
  /\ Goto(a, "writing")
  /\ UNCHANGED <<account, counts, trusted, excused>>

WriteIdentity(a) ==
  /\ proc[a].at = "writing"
  /\ identity' \in Over(identity, proc[a].device)
  /\ IF proc[a].job = "anisette" THEN End(a) ELSE Goto(a, "apple")
  /\ UNCHANGED <<account, counts, trusted, excused>>

-----------------------------------------------------------------------------
(* The sign-in: open_session, pick_team, save_account                      *)

\* A renewal that is signed in writes neither file any more.
SignedIn(a) ==
  /\ proc[a].at = "apple"
  /\ proc[a].device \in trusted
  /\ IF proc[a].job = "renew" THEN End(a) ELSE Goto(a, "team")
  /\ UNCHANGED <<files, counts, trusted, excused>>

CodeIsTyped(a) ==
  /\ proc[a].at = "apple"
  /\ proc[a].device \notin trusted
  /\ proc[a].job = "login"
  /\ trusted' = trusted \union {proc[a].device}
  /\ Goto(a, "team")
  /\ UNCHANGED <<files, counts, excused>>

\* A wrong password, no code, Apple out of reach; a renewal that is asked a
\* code has nobody to type it (INTERACTIVE).
SignInFails(a) ==
  /\ proc[a].at = "apple"
  /\ End(a)
  /\ UNCHANGED <<files, counts, trusted, excused>>

PickTeam(a) ==
  /\ proc[a].at = "team"
  /\ Goto(a, "saving")
  /\ UNCHANGED <<files, counts, trusted, excused>>

\* Mutation: account.json is opened before the team is known.
PickTeamFailsAfterOpening(a) ==
  /\ proc[a].at = "team"
  /\ End(a)
  /\ account' = Broken
  /\ UNCHANGED <<identity, counts, trusted, excused>>

PickTeamFails(a) ==
  /\ proc[a].at = "team"
  /\ End(a)
  /\ UNCHANGED <<files, counts, trusted, excused>>

TruncateAccount(a) ==
  /\ proc[a].at = "saving"
  /\ account' = Broken
  /\ Goto(a, "filling")
  /\ Excuse("account", Others(a, {"filling"}))
  /\ UNCHANGED <<identity, counts, trusted>>

FillAccount(a) ==
  /\ proc[a].at = "filling"
  /\ account' \in Over(account, proc[a].saves)
  /\ End(a)
  /\ UNCHANGED <<identity, counts, trusted, excused>>

-----------------------------------------------------------------------------
(* Faults                                                                  *)

\* The files whose write is cut short when these actors stop.
CutShort(actors) ==
  {"identity" : a \in {b \in actors : proc[b].at = "writing"}}
    \union {"account" : a \in {b \in actors : proc[b].at = "filling"}}

\* write_all fails: the disk is full.
WriteFails(a) ==
  /\ faults < MaxFaults
  /\ faults' = faults + 1
  /\ proc[a].at \in {"writing", "filling"}
  /\ End(a)
  /\ excused' = excused \union CutShort({a})
  /\ UNCHANGED <<files, made, starts, trusted>>

\* A program stops, with all that its threads were doing.
Crash(program) ==
  LET actors == {a \in Actors : Program(a) = program} IN
  /\ faults < MaxFaults
  /\ faults' = faults + 1
  /\ \E a \in actors : proc[a].at # "idle"
  /\ proc' = [a \in Actors |-> IF a \in actors THEN Idle ELSE proc[a]]
  /\ excused' = excused \union CutShort(actors)
  /\ UNCHANGED <<files, made, starts, trusted>>

Next ==
  \/ \E a \in Actors :
       \/ \E job \in Jobs(a), saves \in {NoPassword, Complete} : Begin(a, job, saves)
       \/ ReadIdentity(a) \/ Provision(a) \/ ProvisionFails(a)
       \/ TruncateIdentity(a) \/ WriteIdentity(a)
       \/ SignedIn(a) \/ CodeIsTyped(a) \/ SignInFails(a)
       \/ PickTeam(a) \/ PickTeamFails(a) \/ TruncateAccount(a) \/ FillAccount(a)
       \/ WriteFails(a)
  \/ \E a \in Actors : Crash(Program(a))

Spec == Init /\ [][Next]_vars

-----------------------------------------------------------------------------
(* Properties                                                              *)

TypeOK ==
  /\ identity \in {Absent, Broken} \union Devices
  /\ account \in Accounts
  /\ proc \in [Actors -> [at : Places, job : {"none", "renew", "login", "anisette"},
                          device : {Absent} \union Devices, saves : {Absent, NoPassword, Complete}]]
  /\ \A a \in Actors : proc[a].at = "idle" <=> proc[a] = Idle
  /\ made \in 0..MaxDevices
  /\ starts \in 0..MaxStarts
  /\ faults \in 0..MaxFaults
  /\ trusted \subseteq Devices
  /\ excused \subseteq {"identity", "account"}

\* "The anisette identity stays on disk: after the first two-factor code Apple
\* usually asks no other" (apple.rs:116-117): as long as no two jobs had it at
\* a time and no write was cut short, whatever else fails or crashes, nobody
\* goes to Apple with another device than the one that gave a code.
CodeOnce ==
  "identity" \notin excused =>
    \A a \in Actors : proc[a].at = "apple" => trusted \subseteq {proc[a].device}

\* The two files fit together: an account that lets cron renew means that the
\* device on disk, or the one being written back, is trusted.
RenewsAlone ==
  account = Complete /\ "identity" \notin excused =>
    \/ identity \in trusted
    \/ \E a \in Actors : proc[a].at = "writing" /\ proc[a].device \in trusted

\* save_account truncates and then writes (apple.rs:62-69): all the same the
\* file does not parse only while somebody fills it, unless two filled it at a
\* time or a write was cut short; a sign-in that fails leaves it alone.
AccountIsWhole ==
  account = Broken /\ "account" \notin excused => \E a \in Actors : proc[a].at = "filling"

\* Saving the password "is what lets the renewal run without you"
\* (README.md:146): no renewal is asked a code after a sign-in saved it, when
\* nothing crashed and no write failed.  The code does not keep this: a
\* renewal that reads the identity while AltStore's data or another job has
\* just truncated it goes on with a new device, which it stores.
RenewsWithoutYou ==
  faults = 0 =>
    \A a \in Actors : proc[a].at = "apple" /\ proc[a].job = "renew" => proc[a].device \in trusted

\* But for that, and for a write cut short, it does: whatever fails or crashes
\* besides, and in any order of cron, the page and the command line, a renewal
\* goes to Apple with a device that is trusted.
OnlyOverlapsAsk ==
  "identity" \notin excused =>
    \A a \in Actors : proc[a].at = "apple" /\ proc[a].job = "renew" => proc[a].device \in trusted

=============================================================================
