----------------------------- MODULE SIWCProofs -----------------------------
(***************************************************************************)
(* Proofs about the credential store and the state domain: for any number  *)
(* of commands, people, directories, deaths and failing file operations, a *)
(* refresh token is sent once, an inference request has the session on     *)
(* disk to itself, an open domain is whole, and a setup commits on the     *)
(* session that read the catalog.                                          *)
(***************************************************************************)
EXTENDS SIWC, TLAPS

\* Places inside a critical section of the custody lock.
Setting == {"database", "manifest", "publish", "link"}
Holding == Setting \cup
           {"store", "unmark", "intent", "mark", "send", "rotate", "clear",
            "stage", "unlink", "undo", "revoke", "signout", "request"}

\* Places inside a critical section of a domain lock: a setup or a run.
Running == {"revalidate", "open", "request"}
Locking == Setting \cup Running \cup {"unlink", "undo"}

CustodyInv == \A p \in Procs : proc[p].pc \in Holding <=> custody = p

\* Which of a process's local variables are set, and what the record is, at
\* each place.
PlaceInv ==
    \A p \in Procs :
      /\ proc[p].pc \in {"save", "store", "renew", "intent", "mark", "send", "rotate",
                         "clear", "catalog", "select", "commit", "stage", "request"}
                          \cup Setting
           => proc[p].reg \in Registration
      /\ proc[p].pc \in {"intent", "mark", "send", "stage", "revoke", "signout",
                         "request"} \cup Setting
           => record \in Registration
      /\ proc[p].pc \in Locking \cup {"lock"} <=> proc[p].dir # NoDir

\* Tokens that no record names yet: of a sign-in, or of a rotation.
Fresh == {p \in Procs : proc[p].pc \in {"save", "store", "rotate"}}

\* A token that may still be sent has not been sent: the one on disk while no
\* rotation of it is recorded as pending, and those in hand.
TokenInv ==
    /\ \A t \in Tokens : sent[t] <= 1 /\ (t > issued => sent[t] = 0)
    /\ record # NoReg =>
         /\ record.token <= issued
         /\ record.token # 0 /\ ~record.pending => sent[record.token] = 0
    /\ \A p \in Fresh :
         /\ proc[p].reg.token \in 1..issued
         /\ sent[proc[p].reg.token] = 0
         /\ record # NoReg => record.token # proc[p].reg.token
         /\ \A q \in Fresh \ {p} : proc[q].reg.token # proc[p].reg.token
    /\ \A p \in Procs :
         /\ proc[p].pc \in {"intent", "mark", "send"} =>
              record.token = proc[p].reg.token /\ record.token # 0
         /\ proc[p].pc = "intent" => ~record.pending
         /\ proc[p].pc \in {"mark", "send"} =>
              record.pending /\ sent[record.token] = 0

\* The record is the registration r of a session that is not in doubt.
OnSession(r) ==
    record.subject = r.subject /\ record.token = r.token
      /\ record.model = r.model /\ ~record.pending

SessionInv ==
    \A p \in Procs :
      /\ proc[p].pc \in {"select", "commit", "stage"} \cup Setting =>
           proc[p].seen = proc[p].reg.token
      /\ proc[p].pc \in {"commit", "stage"} \cup Setting => proc[p].reg.model
      /\ proc[p].pc \in {"stage", "request"} \cup Setting => OnSession(proc[p].reg)
      /\ proc[p].pc \in {"request"} \cup Setting =>
           bound[proc[p].dir] = proc[p].reg.subject
      /\ proc[p].pc = "request" =>
           record.token # 0 /\ record.model /\ ~proc[p].reg.pending

\* The domain lock has one holder, who works on that domain; a setup is the
\* only one that moves the locator, and a run has a whole domain.
DomainInv ==
    /\ \A p \in Procs : proc[p].pc \in Locking => flock[proc[p].dir] = p
    /\ \A d \in Dirs : flock[d] # NoProc =>
         proc[flock[d]].pc \in Locking /\ proc[flock[d]].dir = d
    /\ \A p \in Procs :
         /\ proc[p].pc \in Setting => locator = NoDir
         /\ proc[p].pc = "unlink" => locator = proc[p].dir
         /\ proc[p].pc = "undo" => locator \in {NoDir, proc[p].dir}
         /\ proc[p].pc \in Running => "dir" \in files[proc[p].dir]
         /\ proc[p].pc \in {"open", "request"} => Resolves(proc[p].dir)

IndInv ==
    TypeOK /\ CustodyInv /\ PlaceInv /\ TokenInv /\ SessionInv /\ DomainInv
-----------------------------------------------------------------------------
(* Typing facts, and what the abbreviations of the actions stand for.       *)

USE BoundsAreNaturals, AbsentValues, NoRegistration
    DEF Goto, Stop, At, Take, Free, Release, Fault, Replace, FindRecord,
        RefreshPending, Certain, Loadable, HasActiveTokens, Active, SameSnapshot,
        VerifyBindings, disk, domain, issuer, bounds,
        Setting, Holding, Running, Locking

LEMMA IdleType == Idle \in Process /\ Idle.pc = "idle" /\ Idle.dir = NoDir
  BY DEF Idle, Process, Places

\* A process moves to a place, perhaps with another registration.
LEMMA PlaceType ==
  ASSUME TypeOK, NEW p \in Procs, NEW place \in Places,
         NEW r \in Registration \cup {NoReg}
  PROVE  /\ [proc EXCEPT ![p].pc = place] \in [Procs -> Process]
         /\ [proc EXCEPT ![p].pc = place, ![p].reg = r] \in [Procs -> Process]
  BY ZenonT(40) DEF TypeOK, Process

\* The replacements of a record are records.
LEMMA RecordType ==
  ASSUME NEW r \in Registration, NEW b \in BOOLEAN
  PROVE  /\ [r EXCEPT !.pending = b] \in Registration
         /\ [r EXCEPT !.model = b] \in Registration
         /\ [r EXCEPT !.token = 0, !.pending = b] \in Registration
<1>1. [r EXCEPT !.pending = b] \in Registration
  BY DEF Registration
<1>2. [r EXCEPT !.model = b] \in Registration
  BY DEF Registration
<1>3. [r EXCEPT !.token = 0, !.pending = b] \in Registration
  <2> DEFINE s == [r EXCEPT !.token = 0]
  <2>1. s \in Registration
    BY DEF Registration
  <2>2. [r EXCEPT !.token = 0, !.pending = b] = [s EXCEPT !.pending = b]
    OBVIOUS
  <2>3. [s EXCEPT !.pending = b] \in Registration
    BY <2>1 DEF Registration
  <2>4. QED
    BY <2>2, <2>3
<1>4. QED
  BY <1>1, <1>2, <1>3

-----------------------------------------------------------------------------
(* Steps that end a command.                                                *)

\* What p held is released; r is on disk, and the domains and the issuer are as
\* they were.
EndsWith(p, r) ==
    /\ proc' = [proc EXCEPT ![p] = Idle]
    /\ custody' = IF custody = p THEN NoProc ELSE custody
    /\ flock' = [d \in Dirs |-> IF flock[d] = p THEN NoProc ELSE flock[d]]
    /\ record' = r
    /\ marker' \in {"none", "own"} /\ stray' \in BOOLEAN
    /\ deaths' \in 0..MaxDeaths /\ faults' \in 0..MaxFaults
    /\ UNCHANGED <<domain, issuer>>

Ends(p) == EndsWith(p, record)

\* A record that p may put on disk: nobody else is inside the custody lock, and
\* its token, unless pending, is unsent and in no other hand.
Sound(p, r) ==
    /\ custody \in {p, NoProc}
    /\ r \in Registration /\ r.token <= issued
    /\ r.token # 0 /\ ~r.pending => sent[r.token] = 0
    /\ \A q \in Fresh \ {p} : proc[q].reg.token # r.token

LEMMA EndsKeeps ==
  ASSUME NEW p \in Procs, NEW r, IndInv, EndsWith(p, r), r = record \/ Sound(p, r)
  PROVE  IndInv'
<1>0. /\ \A q \in Procs : q # p => proc'[q] = proc[q]
      /\ proc'[p] = Idle
      /\ r # record => \A q \in Procs : q # p => proc[q].pc \notin Holding
  BY IdleType DEF EndsWith, IndInv, TypeOK, CustodyInv, Sound
<1>1. TypeOK'
  BY IdleType DEF EndsWith, IndInv, TypeOK, Sound
<1>2. CustodyInv'
  BY IdleType DEF EndsWith, IndInv, TypeOK, CustodyInv
<1>3. PlaceInv'
  BY <1>0, IdleType DEF EndsWith, IndInv, TypeOK, PlaceInv, Sound
<1>4. TokenInv'
  BY <1>0, IdleType DEF EndsWith, IndInv, TypeOK, TokenInv, Fresh, Sound
<1>5. SessionInv'
  BY <1>0, IdleType DEF EndsWith, IndInv, TypeOK, SessionInv, OnSession
<1>6. DomainInv'
  BY IdleType DEF EndsWith, IndInv, TypeOK, DomainInv, PlaceInv, Resolves, Process
<1>7. QED
  BY <1>1, <1>2, <1>3, <1>4, <1>5, <1>6 DEF IndInv

\* What stopping releases, for a process inside or outside a domain lock.
LEMMA Releases ==
  ASSUME NEW p \in Procs, IndInv
  PROVE  /\ proc[p].pc \in Holding <=> custody = p
         /\ proc[p].pc \notin Locking =>
              flock = [d \in Dirs |-> IF flock[d] = p THEN NoProc ELSE flock[d]]
         /\ proc[p].pc \in Locking =>
              [flock EXCEPT ![proc[p].dir] = NoProc]
                = [d \in Dirs |-> IF flock[d] = p THEN NoProc ELSE flock[d]]
<1>1. /\ proc[p].pc \in Holding <=> custody = p
      /\ proc[p].pc \notin Locking => \A d \in Dirs : flock[d] # p
      /\ proc[p].pc \in Locking => \A d \in Dirs : flock[d] = p <=> d = proc[p].dir
  BY DEF IndInv, CustodyInv, DomainInv, PlaceInv, TypeOK, Process
<1>2. QED
  BY <1>1 DEF IndInv, TypeOK

\* Commands that are refused, or that finish: none of them leaves a lock behind.
LEMMA RefusalsEnd ==
  ASSUME NEW p \in Procs, IndInv
  PROVE  /\ LoginRefused(p) \/ SaveRefused(p) \/ LoadRefused(p) \/ RenewRefused(p) => Ends(p)
         /\ CatalogEnds(p) \/ SetModelRefused(p) \/ SnapshotRefused(p) => Ends(p)
         /\ SaveUnmarks(p) \/ RenewLost(p) \/ RevokeFails(p) => Ends(p)
         /\ \A d \in Dirs : InitializeRefused(p, d) => Ends(p)
         /\ LockBusy(p) \/ RevalidateRefused(p) \/ Finish(p) => Ends(p)
         /\ UndoEnds(p) \/ Die(p) => Ends(p)
<1> USE Releases DEF Ends, EndsWith, IndInv, TypeOK
<1>1. LoginRefused(p) \/ SaveRefused(p) \/ LoadRefused(p) \/ RenewRefused(p) => Ends(p)
  BY DEF LoginRefused, SaveRefused, LoadRefused, RenewRefused
<1>2. CatalogEnds(p) \/ SetModelRefused(p) \/ SnapshotRefused(p) => Ends(p)
  BY DEF CatalogEnds, SetModelRefused, SnapshotRefused
<1>3. SaveUnmarks(p) \/ RenewLost(p) \/ RevokeFails(p) => Ends(p)
  BY DEF SaveUnmarks, RenewLost, RevokeFails
<1>4. \A d \in Dirs : InitializeRefused(p, d) => Ends(p)
  BY DEF InitializeRefused
<1>5. LockBusy(p) \/ RevalidateRefused(p) \/ Finish(p) => Ends(p)
  BY DEF LockBusy, RevalidateRefused, Finish
<1>6. UndoEnds(p) => Ends(p)
  BY DEF UndoEnds
<1>7. Die(p) => Ends(p)
  <2> SUFFICES ASSUME Die(p) PROVE Ends(p)
    OBVIOUS
  <2>1. stray' \in BOOLEAN
    BY DEF Die
  <2>2. deaths' \in 0..MaxDeaths
    BY DEF Die
  <2>3. QED
    BY <2>1, <2>2 DEF Die
<1>8. QED
  BY <1>1, <1>2, <1>3, <1>4, <1>5, <1>6, <1>7

LEMMA FreshToken ==
  ASSUME IndInv, NEW p \in Fresh
  PROVE  /\ proc[p].reg.token <= issued /\ proc[p].reg.token # 0
         /\ sent[proc[p].reg.token] = 0
         /\ \A q \in Fresh \ {p} : proc[q].reg.token # proc[p].reg.token
  BY DEF IndInv, TypeOK, TokenInv

\* Writes of the record that end the command, with or without success.
LEMMA WritesEnd ==
  ASSUME NEW p \in Procs, IndInv,
         \/ SaveWrites(p) /\ marker = "none"
         \/ SaveFails(p) \/ RenewFails(p) \/ SetModelFails(p)
         \/ SignOut(p) \/ SignOutFails(p)
  PROVE  \E r : EndsWith(p, r) /\ (r = record \/ Sound(p, r))
<1> USE Releases DEF EndsWith, IndInv, TypeOK
<1>a. faults' \in 0..MaxFaults /\ deaths' \in 0..MaxDeaths
  BY DEF SaveWrites, SaveFails, RenewFails, SetModelFails, SignOut, SignOutFails
<1>b. marker' \in {"none", "own"} /\ stray' \in BOOLEAN
  BY DEF SaveWrites, SaveFails, RenewFails, SetModelFails, SignOut, SignOutFails
<1>1. EndsWith(p, record')
  <2>1. CASE SaveWrites(p) /\ marker = "none"
    BY <1>a, <1>b, <2>1 DEF SaveWrites
  <2>2. CASE SaveFails(p)
    BY <1>a, <1>b, <2>2 DEF SaveFails
  <2>3. CASE RenewFails(p)
    BY <1>a, <1>b, <2>3 DEF RenewFails
  <2>4. CASE SetModelFails(p)
    BY <1>a, <1>b, <2>4 DEF SetModelFails
  <2>5. CASE SignOut(p) \/ SignOutFails(p)
    BY <1>a, <1>b, <2>5 DEF SignOut, SignOutFails
  <2>6. QED
    BY <2>1, <2>2, <2>3, <2>4, <2>5
<1>2. CASE record' = record
  BY <1>1, <1>2
<1>3. ASSUME record' # record, SaveWrites(p) \/ SaveFails(p)
      PROVE  Sound(p, record')
  <2>1. At(p, "store") /\ record' = proc[p].reg
    BY <1>3 DEF SaveWrites, SaveFails
  <2>2. p \in Fresh /\ custody = p /\ proc[p].reg \in Registration
    BY <2>1 DEF PlaceInv, Fresh
  <2>3. QED
    BY <2>1, <2>2, FreshToken DEF Sound
<1>4. ASSUME record' # record, RenewFails(p) PROVE Sound(p, record')
  <2>1. CASE At(p, "intent") /\ record' = [record EXCEPT !.pending = TRUE]
    <3>1. record \in Registration
      BY <2>1 DEF PlaceInv
    <3>2. record' \in Registration /\ record'.token = record.token /\ record'.pending
      BY <2>1, <3>1, RecordType DEF Registration
    <3>3. QED
      BY <2>1, <3>1, <3>2 DEF Sound, TokenInv, Fresh
  <2>2. CASE At(p, "rotate") /\ record' = [proc[p].reg EXCEPT !.pending = FALSE]
    <3>1. proc[p].reg \in Registration
      BY <2>2 DEF PlaceInv
    <3>2. record' \in Registration /\ record'.token = proc[p].reg.token
      BY <2>2, <3>1, RecordType DEF Registration
    <3>3. p \in Fresh /\ custody = p
      BY <2>2 DEF Fresh
    <3>4. QED
      BY <3>2, <3>3, FreshToken DEF Sound
  <2>3. QED
    BY <1>4, <2>1, <2>2 DEF RenewFails
<1>5. ASSUME record' # record, SetModelFails(p) PROVE Sound(p, record')
  <2>1. record \in Registration /\ record' = [record EXCEPT !.model = TRUE]
    BY <1>5 DEF SetModelFails
  <2>2. record' \in Registration /\ record'.token = record.token
        /\ record'.pending = record.pending
    BY <2>1, RecordType DEF Registration
  <2>3. QED
    BY <1>5, <2>1, <2>2 DEF SetModelFails, Sound, TokenInv, Fresh
<1>6. ASSUME record' # record, SignOut(p) \/ SignOutFails(p)
      PROVE  Sound(p, record')
  <2>1. /\ At(p, "signout") /\ record \in Registration
        /\ record' = [record EXCEPT !.token = 0, !.pending = FALSE]
    BY <1>6 DEF SignOut, SignOutFails, PlaceInv
  <2>2. record' \in Registration
    BY <2>1, RecordType
  <2>3. record'.token = 0 /\ 0 <= issued
    BY <2>1 DEF Registration
  <2>4. custody = p
    BY <2>1
  <2>5. QED
    BY <2>2, <2>3, <2>4, FreshToken DEF Sound
<1>7. QED
  BY <1>1, <1>2, <1>3, <1>4, <1>5, <1>6

LEMMA LoginKeeps ==
  ASSUME NEW p \in Procs, IndInv, Login(p)
  PROVE  IndInv'
<1>1. TypeOK'
  <2>1. proc' \in [Procs -> Process]
    BY PlaceType DEF Login, IndInv, Places
  <2>2. QED
    BY <2>1 DEF Login, IndInv, TypeOK
<1>2. CustodyInv'
  BY DEF Login, IndInv, TypeOK, CustodyInv, PlaceInv, Process
<1>3. PlaceInv'
  BY DEF Login, IndInv, TypeOK, CustodyInv, PlaceInv, Process
<1>4. TokenInv'
  BY
  DEF Login, IndInv, TypeOK, CustodyInv, PlaceInv, Process, Registration, TokenInv,
      Fresh, Tokens
<1>5. SessionInv'
  BY DEF Login, IndInv, TypeOK, CustodyInv, PlaceInv, Process, SessionInv, OnSession
<1>6. DomainInv'
  BY
  DEF Login, IndInv, TypeOK, CustodyInv, PlaceInv, Process, Artifacts, DomainInv,
      Resolves
<1>7. QED
  BY <1>1, <1>2, <1>3, <1>4, <1>5, <1>6 DEF IndInv

LEMMA SaveChecksKeeps ==
  ASSUME NEW p \in Procs, IndInv, SaveChecks(p)
  PROVE  IndInv'
<1>1. TypeOK'
  <2>1. proc' \in [Procs -> Process]
    BY PlaceType DEF SaveChecks, IndInv, Places
  <2>2. QED
    BY <2>1 DEF SaveChecks, IndInv, TypeOK
<1>2. CustodyInv'
  BY DEF SaveChecks, IndInv, TypeOK, CustodyInv, PlaceInv, Process
<1>3. PlaceInv'
  BY DEF SaveChecks, IndInv, TypeOK, CustodyInv, PlaceInv, Process
<1>4. TokenInv'
  BY
  DEF SaveChecks, IndInv, TypeOK, CustodyInv, PlaceInv, Process, Registration,
      TokenInv, Fresh, Tokens
<1>5. SessionInv'
  BY
  DEF SaveChecks, IndInv, TypeOK, CustodyInv, PlaceInv, Process, SessionInv,
      OnSession
<1>6. DomainInv'
  BY
  DEF SaveChecks, IndInv, TypeOK, CustodyInv, PlaceInv, Process, Artifacts,
      DomainInv, Resolves
<1>7. QED
  BY <1>1, <1>2, <1>3, <1>4, <1>5, <1>6 DEF IndInv

LEMMA CatalogKeeps ==
  ASSUME NEW p \in Procs, IndInv, Catalog(p)
  PROVE  IndInv'
<1>1. TypeOK'
  <2>1. proc' \in [Procs -> Process]
    BY PlaceType DEF Catalog, IndInv, Places
  <2>2. QED
    BY <2>1 DEF Catalog, IndInv, TypeOK
<1>2. CustodyInv'
  BY DEF Catalog, IndInv, TypeOK, CustodyInv, PlaceInv, Process
<1>3. PlaceInv'
  BY DEF Catalog, IndInv, TypeOK, CustodyInv, PlaceInv, Process
<1>4. TokenInv'
  BY
  DEF Catalog, IndInv, TypeOK, CustodyInv, PlaceInv, Process, Registration,
      TokenInv, Fresh, Tokens
<1>5. SessionInv'
  BY
  DEF Catalog, IndInv, TypeOK, CustodyInv, PlaceInv, Process, SessionInv, OnSession
<1>6. DomainInv'
  BY
  DEF Catalog, IndInv, TypeOK, CustodyInv, PlaceInv, Process, Artifacts, DomainInv,
      Resolves
<1>7. QED
  BY <1>1, <1>2, <1>3, <1>4, <1>5, <1>6 DEF IndInv

LEMMA RenewMarksKeeps ==
  ASSUME NEW p \in Procs, IndInv, RenewMarks(p)
  PROVE  IndInv'
<1>1. TypeOK'
  <2>1. proc' \in [Procs -> Process]
    BY PlaceType DEF RenewMarks, IndInv, Places
  <2>2. QED
    BY <2>1 DEF RenewMarks, IndInv, TypeOK
<1>2. CustodyInv'
  BY DEF RenewMarks, IndInv, TypeOK, CustodyInv, PlaceInv, Process
<1>3. PlaceInv'
  BY DEF RenewMarks, IndInv, TypeOK, CustodyInv, PlaceInv, Process
<1>4. TokenInv'
  BY
  DEF RenewMarks, IndInv, TypeOK, CustodyInv, PlaceInv, Process, Registration,
      TokenInv, Fresh, Tokens
<1>5. SessionInv'
  BY
  DEF RenewMarks, IndInv, TypeOK, CustodyInv, PlaceInv, Process, SessionInv,
      OnSession
<1>6. DomainInv'
  BY
  DEF RenewMarks, IndInv, TypeOK, CustodyInv, PlaceInv, Process, Artifacts,
      DomainInv, Resolves
<1>7. QED
  BY <1>1, <1>2, <1>3, <1>4, <1>5, <1>6 DEF IndInv

LEMMA RenewClearsKeeps ==
  ASSUME NEW p \in Procs, IndInv, RenewClears(p)
  PROVE  IndInv'
<1>1. TypeOK'
  <2>1. proc' \in [Procs -> Process]
    BY PlaceType DEF RenewClears, IndInv, Places
  <2>2. QED
    BY <2>1 DEF RenewClears, IndInv, TypeOK
<1>2. CustodyInv'
  BY DEF RenewClears, IndInv, TypeOK, CustodyInv, PlaceInv, Process
<1>3. PlaceInv'
  BY DEF RenewClears, IndInv, TypeOK, CustodyInv, PlaceInv, Process
<1>4. TokenInv'
  BY
  DEF RenewClears, IndInv, TypeOK, CustodyInv, PlaceInv, Process, Registration,
      TokenInv, Fresh, Tokens
<1>5. SessionInv'
  BY
  DEF RenewClears, IndInv, TypeOK, CustodyInv, PlaceInv, Process, SessionInv,
      OnSession
<1>6. DomainInv'
  BY
  DEF RenewClears, IndInv, TypeOK, CustodyInv, PlaceInv, Process, Artifacts,
      DomainInv, Resolves
<1>7. QED
  BY <1>1, <1>2, <1>3, <1>4, <1>5, <1>6 DEF IndInv

LEMMA ActiveRegistrationKeeps ==
  ASSUME NEW p \in Procs, IndInv, ActiveRegistration(p)
  PROVE  IndInv'
<1>1. TypeOK'
  <2>1. proc' \in [Procs -> Process]
    BY PlaceType DEF ActiveRegistration, IndInv, Places
  <2>2. QED
    BY <2>1 DEF ActiveRegistration, IndInv, TypeOK
<1>2. CustodyInv'
  BY DEF ActiveRegistration, IndInv, TypeOK, CustodyInv, PlaceInv, Process
<1>3. PlaceInv'
  BY DEF ActiveRegistration, IndInv, TypeOK, CustodyInv, PlaceInv, Process
<1>4. TokenInv'
  BY
  DEF ActiveRegistration, IndInv, TypeOK, CustodyInv, PlaceInv, Process,
      Registration, TokenInv, Fresh, Tokens
<1>5. SessionInv'
  BY
  DEF ActiveRegistration, IndInv, TypeOK, CustodyInv, PlaceInv, Process, SessionInv,
      OnSession
<1>6. DomainInv'
  BY
  DEF ActiveRegistration, IndInv, TypeOK, CustodyInv, PlaceInv, Process, Artifacts,
      DomainInv, Resolves
<1>7. QED
  BY <1>1, <1>2, <1>3, <1>4, <1>5, <1>6 DEF IndInv

LEMMA LogoutKeeps ==
  ASSUME NEW p \in Procs, IndInv, Logout(p)
  PROVE  IndInv'
<1>1. TypeOK'
  <2>1. proc' \in [Procs -> Process]
    BY PlaceType DEF Logout, IndInv, Places
  <2>2. QED
    BY <2>1 DEF Logout, IndInv, TypeOK
<1>2. CustodyInv'
  BY DEF Logout, IndInv, TypeOK, CustodyInv, PlaceInv, Process
<1>3. PlaceInv'
  BY DEF Logout, IndInv, TypeOK, CustodyInv, PlaceInv, Process
<1>4. TokenInv'
  BY
  DEF Logout, IndInv, TypeOK, CustodyInv, PlaceInv, Process, Registration, TokenInv,
      Fresh, Tokens
<1>5. SessionInv'
  BY
  DEF Logout, IndInv, TypeOK, CustodyInv, PlaceInv, Process, SessionInv, OnSession
<1>6. DomainInv'
  BY
  DEF Logout, IndInv, TypeOK, CustodyInv, PlaceInv, Process, Artifacts, DomainInv,
      Resolves
<1>7. QED
  BY <1>1, <1>2, <1>3, <1>4, <1>5, <1>6 DEF IndInv

LEMMA RevokeKeeps ==
  ASSUME NEW p \in Procs, IndInv, Revoke(p)
  PROVE  IndInv'
<1>1. TypeOK'
  <2>1. proc' \in [Procs -> Process]
    BY PlaceType DEF Revoke, IndInv, Places
  <2>2. QED
    BY <2>1 DEF Revoke, IndInv, TypeOK
<1>2. CustodyInv'
  BY DEF Revoke, IndInv, TypeOK, CustodyInv, PlaceInv, Process
<1>3. PlaceInv'
  BY DEF Revoke, IndInv, TypeOK, CustodyInv, PlaceInv, Process
<1>4. TokenInv'
  BY
  DEF Revoke, IndInv, TypeOK, CustodyInv, PlaceInv, Process, Registration, TokenInv,
      Fresh, Tokens
<1>5. SessionInv'
  BY
  DEF Revoke, IndInv, TypeOK, CustodyInv, PlaceInv, Process, SessionInv, OnSession
<1>6. DomainInv'
  BY
  DEF Revoke, IndInv, TypeOK, CustodyInv, PlaceInv, Process, Artifacts, DomainInv,
      Resolves
<1>7. QED
  BY <1>1, <1>2, <1>3, <1>4, <1>5, <1>6 DEF IndInv

LEMMA AcquireLockKeeps ==
  ASSUME NEW p \in Procs, IndInv, AcquireLock(p)
  PROVE  IndInv'
<1>1. TypeOK'
  <2>1. proc' \in [Procs -> Process]
    BY PlaceType DEF AcquireLock, IndInv, Places
  <2>2. QED
    BY <2>1 DEF AcquireLock, IndInv, TypeOK
<1>2. CustodyInv'
  BY DEF AcquireLock, IndInv, TypeOK, CustodyInv, PlaceInv, Process
<1>3. PlaceInv'
  BY DEF AcquireLock, IndInv, TypeOK, CustodyInv, PlaceInv, Process
<1>4. TokenInv'
  BY
  DEF AcquireLock, IndInv, TypeOK, CustodyInv, PlaceInv, Process, Registration,
      TokenInv, Fresh, Tokens
<1>5. SessionInv'
  BY
  DEF AcquireLock, IndInv, TypeOK, CustodyInv, PlaceInv, Process, SessionInv,
      OnSession
<1>6. DomainInv'
  BY
  DEF AcquireLock, IndInv, TypeOK, CustodyInv, PlaceInv, Process, Artifacts,
      DomainInv, Resolves
<1>7. QED
  BY <1>1, <1>2, <1>3, <1>4, <1>5, <1>6 DEF IndInv

LEMMA RevalidateKeeps ==
  ASSUME NEW p \in Procs, IndInv, Revalidate(p)
  PROVE  IndInv'
<1>1. TypeOK'
  <2>1. proc' \in [Procs -> Process]
    BY PlaceType DEF Revalidate, IndInv, Places
  <2>2. QED
    BY <2>1 DEF Revalidate, IndInv, TypeOK
<1>2. CustodyInv'
  BY DEF Revalidate, IndInv, TypeOK, CustodyInv, PlaceInv, Process
<1>3. PlaceInv'
  BY DEF Revalidate, IndInv, TypeOK, CustodyInv, PlaceInv, Process
<1>4. TokenInv'
  BY
  DEF Revalidate, IndInv, TypeOK, CustodyInv, PlaceInv, Process, Registration,
      TokenInv, Fresh, Tokens
<1>5. SessionInv'
  BY
  DEF Revalidate, IndInv, TypeOK, CustodyInv, PlaceInv, Process, SessionInv,
      OnSession
<1>6. DomainInv'
  BY
  DEF Revalidate, IndInv, TypeOK, CustodyInv, PlaceInv, Process, Artifacts,
      DomainInv, Resolves
<1>7. QED
  BY <1>1, <1>2, <1>3, <1>4, <1>5, <1>6 DEF IndInv

LEMMA LinkLocatorKeeps ==
  ASSUME NEW p \in Procs, IndInv, LinkLocator(p)
  PROVE  IndInv'
<1>0. proc[p].dir \in Dirs \cup {NoDir}
  BY DEF LinkLocator, IndInv, TypeOK, Process
<1>1. TypeOK'
  <2>1. proc' \in [Procs -> Process]
    BY PlaceType DEF LinkLocator, IndInv, Places
  <2>2. QED
    BY <2>1, <1>0 DEF LinkLocator, IndInv, TypeOK
<1>2. CustodyInv'
  BY DEF LinkLocator, IndInv, TypeOK, CustodyInv, PlaceInv, Process
<1>3. PlaceInv'
  BY DEF LinkLocator, IndInv, TypeOK, CustodyInv, PlaceInv, Process
<1>4. TokenInv'
  BY
  DEF LinkLocator, IndInv, TypeOK, CustodyInv, PlaceInv, Process, Registration,
      TokenInv, Fresh, Tokens
<1>5. SessionInv'
  BY
  DEF LinkLocator, IndInv, TypeOK, CustodyInv, PlaceInv, Process, SessionInv,
      OnSession
<1>6. DomainInv'
  BY
  DEF LinkLocator, IndInv, TypeOK, CustodyInv, PlaceInv, Process, Artifacts,
      DomainInv, Resolves
<1>7. QED
  BY <1>1, <1>2, <1>3, <1>4, <1>5, <1>6 DEF IndInv

LEMMA LoadKeeps ==
  ASSUME NEW p \in Procs, IndInv, Load(p)
  PROVE  IndInv'
<1>1. TypeOK'
  <2>1. proc' \in [Procs -> Process]
    BY PlaceType, ZenonT(40) DEF Load, IndInv, TypeOK, Places
  <2>2. QED
    BY <2>1 DEF Load, IndInv, TypeOK
<1>2. CustodyInv'
  BY DEF Load, IndInv, TypeOK, CustodyInv, PlaceInv, Process
<1>3. PlaceInv'
  BY DEF Load, IndInv, TypeOK, CustodyInv, PlaceInv, Process
<1>4. TokenInv'
  BY
  DEF Load, IndInv, TypeOK, CustodyInv, PlaceInv, Process, Registration, TokenInv,
      Fresh, Tokens
<1>5. SessionInv'
  BY DEF Load, IndInv, TypeOK, CustodyInv, PlaceInv, Process, SessionInv, OnSession
<1>6. DomainInv'
  BY
  DEF Load, IndInv, TypeOK, CustodyInv, PlaceInv, Process, Artifacts, DomainInv,
      Resolves
<1>7. QED
  BY <1>1, <1>2, <1>3, <1>4, <1>5, <1>6 DEF IndInv

LEMMA ExchangeKeeps ==
  ASSUME NEW p \in Procs, IndInv, Exchange(p)
  PROVE  IndInv'
<1>0. PICK r \in Registration :
        /\ proc' = [proc EXCEPT ![p].pc = "save", ![p].reg = r]
        /\ proc[p].pc = "browser" /\ r.token = issued + 1 /\ issued' = issued + 1
        /\ issued' \in 0..MaxTokens /\ UNCHANGED <<disk, custody, domain, sent>>
  <2>1. issued + 1 \in 0..MaxTokens
    BY DEF Exchange, IndInv, TypeOK
  <2>2. ASSUME NEW s \in Subjects
        PROVE  [subject |-> s, token |-> issued + 1, life |-> "fresh",
                pending |-> FALSE, model |-> FALSE] \in Registration
    BY <2>1 DEF Registration
  <2>3. QED
    BY <2>1, <2>2 DEF Exchange
<1>1. TypeOK'
  <2>1. proc' \in [Procs -> Process]
    BY <1>0, PlaceType DEF IndInv, Places
  <2>2. QED
    BY <2>1 DEF Exchange, IndInv, TypeOK
<1>2. CustodyInv'
  BY DEF Exchange, IndInv, TypeOK, CustodyInv, PlaceInv, Process
<1>3. PlaceInv'
  BY <1>0 DEF IndInv, TypeOK, PlaceInv, Process
<1>4. TokenInv'
  <2>1. r.token \in Tokens /\ sent[r.token] = 0
    BY <1>0 DEF IndInv, TypeOK, TokenInv, Tokens
  <2>2. Fresh' = Fresh \cup {p} /\ proc'[p].reg = r
    BY <1>0 DEF IndInv, TypeOK, Fresh, Process
  <2>3. \A q \in Procs : q # p => proc'[q] = proc[q]
    BY <1>0 DEF IndInv, TypeOK
  <2>4. p \notin Fresh /\ Fresh \subseteq Procs
    BY <1>0 DEF Fresh
  <2>5. \A q \in Fresh : proc[q].reg.token # r.token
    BY <1>0, FreshToken DEF IndInv, TypeOK
  <2>6. record # NoReg => record.token <= issued
    BY DEF IndInv, TokenInv
  <2>7. ASSUME NEW q \in Fresh'
        PROVE  /\ proc'[q].reg.token \in 1..issued' /\ sent[proc'[q].reg.token] = 0
               /\ record # NoReg => record.token # proc'[q].reg.token
               /\ \A w \in Fresh' \ {q} : proc'[w].reg.token # proc'[q].reg.token
    <3>1. CASE q = p
      BY <1>0, <2>1, <2>2, <2>3, <2>4, <2>5, <2>6, <3>1
      DEF IndInv, TypeOK, TokenInv, Tokens, Registration
    <3>2. CASE q # p
      BY <1>0, <2>1, <2>2, <2>3, <2>4, <2>5, <2>6, <2>7, <3>2
      DEF IndInv, TypeOK, TokenInv
    <3>3. QED
      BY <3>1, <3>2
  <2>8. /\ \A t \in Tokens : sent[t] <= 1 /\ (t > issued' => sent[t] = 0)
        /\ record # NoReg => record.token <= issued'
    BY <1>0 DEF IndInv, TypeOK, TokenInv, Tokens, Registration
  <2>9. \A q \in Procs : proc'[q].pc \in {"intent", "mark", "send"} =>
          q # p
    BY <1>0 DEF IndInv, TypeOK, Process
  <2>10. QED
    BY <1>0, <2>3, <2>7, <2>8, <2>9, ZenonT(40) DEF IndInv, TokenInv
<1>5. SessionInv'
  BY
  DEF Exchange, IndInv, TypeOK, CustodyInv, PlaceInv, Process, SessionInv, OnSession
<1>6. DomainInv'
  BY
  DEF Exchange, IndInv, TypeOK, CustodyInv, PlaceInv, Process, Artifacts, DomainInv,
      Resolves
<1>7. QED
  BY <1>1, <1>2, <1>3, <1>4, <1>5, <1>6 DEF IndInv

LEMMA RenewIntendsKeeps ==
  ASSUME NEW p \in Procs, IndInv, RenewIntends(p)
  PROVE  IndInv'
<1>0. record \in Registration /\ record' \in Registration
  BY RecordType DEF RenewIntends, IndInv, PlaceInv
<1>1. TypeOK'
  <2>1. proc' \in [Procs -> Process]
    BY PlaceType DEF RenewIntends, IndInv, Places
  <2>2. QED
    BY <2>1, <1>0 DEF RenewIntends, IndInv, TypeOK
<1>2. CustodyInv'
  BY DEF RenewIntends, IndInv, TypeOK, CustodyInv, PlaceInv, Process
<1>3. PlaceInv'
  BY <1>0 DEF RenewIntends, IndInv, TypeOK, CustodyInv, PlaceInv, Process
<1>4. TokenInv'
  BY
  DEF RenewIntends, IndInv, TypeOK, CustodyInv, PlaceInv, Process, Registration,
      TokenInv, Fresh, Tokens
<1>5. SessionInv'
  BY
  DEF RenewIntends, IndInv, TypeOK, CustodyInv, PlaceInv, Process, SessionInv,
      OnSession
<1>6. DomainInv'
  BY
  DEF RenewIntends, IndInv, TypeOK, CustodyInv, PlaceInv, Process, Artifacts,
      DomainInv, Resolves
<1>7. QED
  BY <1>1, <1>2, <1>3, <1>4, <1>5, <1>6 DEF IndInv

LEMMA RenewCommitsKeeps ==
  ASSUME NEW p \in Procs, IndInv, RenewCommits(p)
  PROVE  IndInv'
<1>0. record' \in Registration
  BY RecordType DEF RenewCommits, IndInv, PlaceInv
<1>1. TypeOK'
  <2>1. proc' \in [Procs -> Process]
    BY PlaceType DEF RenewCommits, IndInv, Places
  <2>2. QED
    BY <2>1, <1>0 DEF RenewCommits, IndInv, TypeOK
<1>2. CustodyInv'
  BY DEF RenewCommits, IndInv, TypeOK, CustodyInv, PlaceInv, Process
<1>3. PlaceInv'
  BY DEF RenewCommits, IndInv, TypeOK, CustodyInv, PlaceInv, Process
<1>4. TokenInv'
  BY
  DEF RenewCommits, IndInv, TypeOK, CustodyInv, PlaceInv, Process, Registration,
      TokenInv, Fresh, Tokens
<1>5. SessionInv'
  BY
  DEF RenewCommits, IndInv, TypeOK, CustodyInv, PlaceInv, Process, SessionInv,
      OnSession
<1>6. DomainInv'
  BY
  DEF RenewCommits, IndInv, TypeOK, CustodyInv, PlaceInv, Process, Artifacts,
      DomainInv, Resolves
<1>7. QED
  BY <1>1, <1>2, <1>3, <1>4, <1>5, <1>6 DEF IndInv

LEMMA ListedKeeps ==
  ASSUME NEW p \in Procs, IndInv, Listed(p)
  PROVE  IndInv'
<1>1. TypeOK'
  <2>1. proc' \in [Procs -> Process]
    <3>1. proc[p].reg.token \in 0..MaxTokens
      BY DEF Listed, IndInv, PlaceInv, Registration
    <3>2. "select" \in Places
      BY DEF Places
    <3>3. QED
      BY <3>1, <3>2, ZenonT(40) DEF Listed, IndInv, TypeOK, Process
  <2>2. QED
    BY <2>1 DEF Listed, IndInv, TypeOK
<1>2. CustodyInv'
  BY DEF Listed, IndInv, TypeOK, CustodyInv, PlaceInv, Process
<1>3. PlaceInv'
  BY DEF Listed, IndInv, TypeOK, CustodyInv, PlaceInv, Process
<1>4. TokenInv'
  BY
  DEF Listed, IndInv, TypeOK, CustodyInv, PlaceInv, Process, Registration, TokenInv,
      Fresh, Tokens
<1>5. SessionInv'
  BY
  DEF Listed, IndInv, TypeOK, CustodyInv, PlaceInv, Process, SessionInv, OnSession
<1>6. DomainInv'
  BY
  DEF Listed, IndInv, TypeOK, CustodyInv, PlaceInv, Process, Artifacts, DomainInv,
      Resolves
<1>7. QED
  BY <1>1, <1>2, <1>3, <1>4, <1>5, <1>6 DEF IndInv

LEMMA SetModelKeeps ==
  ASSUME NEW p \in Procs, IndInv, SetModel(p)
  PROVE  IndInv'
<1>0. /\ record \in Registration /\ record' \in Registration
      /\ proc[p].reg \in Registration /\ proc'[p].reg \in Registration
  <2>1. record \in Registration /\ proc[p].reg \in Registration
    BY DEF SetModel, IndInv, PlaceInv, TypeOK
  <2>2. proc'[p].reg = [proc[p].reg EXCEPT !.model = TRUE]
    BY DEF SetModel, IndInv, TypeOK, Process
  <2>3. QED
    BY <2>1, <2>2, RecordType DEF SetModel
<1>b. /\ proc'[p].reg.model /\ proc'[p].reg.token = proc[p].reg.token
      /\ proc'[p].seen = proc[p].seen /\ proc'[p].pc = "commit"
      /\ \A q \in Procs : q # p => proc'[q] = proc[q]
  BY <1>0 DEF SetModel, IndInv, TypeOK, Process, Registration
<1>a. \A q \in Procs : proc[q].pc \notin Holding
  BY DEF SetModel, IndInv, CustodyInv, TypeOK
<1>1. TypeOK'
  <2>1. proc' \in [Procs -> Process]
    <3>1. "commit" \in Places
      BY DEF Places
    <3>2. QED
      BY <1>0, <3>1, RecordType, ZenonT(40) DEF SetModel, IndInv, TypeOK, Process
  <2>2. QED
    BY <2>1, <1>0 DEF SetModel, IndInv, TypeOK
<1>2. CustodyInv'
  BY DEF SetModel, IndInv, TypeOK, CustodyInv, PlaceInv, Process
<1>3. PlaceInv'
  BY <1>0 DEF SetModel, IndInv, TypeOK, PlaceInv, Process
<1>4. TokenInv'
  BY SMTT(30)
  DEF SetModel, IndInv, TypeOK, CustodyInv, PlaceInv, Process, Registration,
      TokenInv, Fresh, Tokens
<1>5. SessionInv'
  BY <1>a, <1>b, ZenonT(40) DEF SetModel, IndInv, SessionInv
<1>6. DomainInv'
  BY
  DEF SetModel, IndInv, TypeOK, CustodyInv, PlaceInv, Process, Artifacts, DomainInv,
      Resolves
<1>7. QED
  BY <1>1, <1>2, <1>3, <1>4, <1>5, <1>6 DEF IndInv

LEMMA InitializeKeeps ==
  ASSUME NEW p \in Procs, NEW d \in Dirs, IndInv, Initialize(p, d)
  PROVE  IndInv'
<1>0. proc[p].reg.subject \in Subjects
  BY DEF Initialize, IndInv, PlaceInv, Registration
<1>1. TypeOK'
  <2>1. proc' \in [Procs -> Process]
    <3>1. "database" \in Places
      BY DEF Places
    <3>2. QED
      BY <3>1, ZenonT(40) DEF Initialize, IndInv, TypeOK, Process
  <2>2. QED
    BY <2>1, <1>0 DEF Initialize, IndInv, TypeOK, Artifacts
<1>2. CustodyInv'
  BY DEF Initialize, IndInv, TypeOK, CustodyInv, PlaceInv, Process
<1>3. PlaceInv'
  BY DEF Initialize, IndInv, TypeOK, CustodyInv, PlaceInv, Process
<1>4. TokenInv'
  BY
  DEF Initialize, IndInv, TypeOK, CustodyInv, PlaceInv, Process, Registration,
      TokenInv, Fresh, Tokens
<1>5. SessionInv'
  BY
  DEF Initialize, IndInv, TypeOK, CustodyInv, PlaceInv, Process, SessionInv,
      OnSession
<1>6. DomainInv'
  BY
  DEF Initialize, IndInv, TypeOK, CustodyInv, PlaceInv, Process, Artifacts,
      DomainInv, Resolves
<1>7. QED
  BY <1>1, <1>2, <1>3, <1>4, <1>5, <1>6 DEF IndInv

LEMMA UnlinkStagingKeeps ==
  ASSUME NEW p \in Procs, IndInv, UnlinkStaging(p)
  PROVE  IndInv'
<1>1. TypeOK'
  <2>1. proc' \in [Procs -> Process]
    BY IdleType DEF UnlinkStaging, IndInv, TypeOK
  <2>2. QED
    BY <2>1 DEF UnlinkStaging, IndInv, TypeOK
<1>2. CustodyInv'
  BY IdleType DEF UnlinkStaging, IndInv, TypeOK, CustodyInv, PlaceInv, Process
<1>3. PlaceInv'
  BY IdleType DEF UnlinkStaging, IndInv, TypeOK, CustodyInv, PlaceInv, Process
<1>4. TokenInv'
  BY IdleType
  DEF UnlinkStaging, IndInv, TypeOK, CustodyInv, PlaceInv, Process, Registration,
      TokenInv, Fresh, Tokens
<1>5. SessionInv'
  BY IdleType
  DEF UnlinkStaging, IndInv, TypeOK, CustodyInv, PlaceInv, Process, SessionInv,
      OnSession
<1>6. DomainInv'
  BY IdleType
  DEF UnlinkStaging, IndInv, TypeOK, CustodyInv, PlaceInv, Process, Artifacts,
      DomainInv, Resolves
<1>7. QED
  BY <1>1, <1>2, <1>3, <1>4, <1>5, <1>6 DEF IndInv

LEMMA InitializeFailsKeeps ==
  ASSUME NEW p \in Procs, IndInv, InitializeFails(p)
  PROVE  IndInv'
<1>0. /\ faults' \in 0..MaxFaults /\ deaths' = deaths
      /\ locator' \in {locator, NoDir} /\ linked' \in BOOLEAN
  <2>1. faults' \in 0..MaxFaults
    BY DEF InitializeFails, IndInv, TypeOK
  <2>2. deaths' = deaths
    BY DEF InitializeFails
  <2>3. locator' \in {locator, NoDir}
    BY DEF InitializeFails
  <2>4. linked' \in BOOLEAN
    BY DEF InitializeFails, IndInv, TypeOK
  <2>5. QED
    BY <2>1, <2>2, <2>3, <2>4
<1>1. TypeOK'
  <2>1. proc' \in [Procs -> Process]
    <3>1. "undo" \in Places /\ files[proc[p].dir] \in SUBSET Artifacts
      BY DEF Places, InitializeFails, IndInv, TypeOK, PlaceInv, Process
    <3>2. QED
      BY <3>1, ZenonT(40) DEF InitializeFails, IndInv, TypeOK, Process
  <2>2. QED
    BY <1>0, <2>1 DEF InitializeFails, IndInv, TypeOK
<1>2. CustodyInv'
  BY DEF InitializeFails, IndInv, TypeOK, CustodyInv, PlaceInv, Process
<1>3. PlaceInv'
  BY DEF InitializeFails, IndInv, TypeOK, CustodyInv, PlaceInv, Process
<1>4. TokenInv'
  BY SMTT(30)
  DEF InitializeFails, IndInv, TypeOK, CustodyInv, PlaceInv, Process, Registration,
      TokenInv, Fresh, Tokens
<1>5. SessionInv'
  BY
  DEF InitializeFails, IndInv, TypeOK, CustodyInv, PlaceInv, Process, SessionInv,
      OnSession
<1>6. DomainInv'
  BY
  DEF InitializeFails, IndInv, TypeOK, CustodyInv, PlaceInv, Process, Artifacts,
      DomainInv, Resolves
<1>7. QED
  BY <1>1, <1>2, <1>3, <1>4, <1>5, <1>6 DEF IndInv

LEMMA UndoKeeps ==
  ASSUME NEW p \in Procs, IndInv, Undo(p)
  PROVE  IndInv'
<1>1. TypeOK'
  <2>1. proc' \in [Procs -> Process]
    BY DEF Undo, IndInv, TypeOK, Process
  <2>2. QED
    BY <2>1 DEF Undo, IndInv, TypeOK
<1>2. CustodyInv'
  BY DEF Undo, IndInv, TypeOK, CustodyInv, PlaceInv, Process
<1>3. PlaceInv'
  BY DEF Undo, IndInv, TypeOK, CustodyInv, PlaceInv, Process
<1>4. TokenInv'
  BY
  DEF Undo, IndInv, TypeOK, CustodyInv, PlaceInv, Process, Registration, TokenInv,
      Fresh, Tokens
<1>5. SessionInv'
  BY DEF Undo, IndInv, TypeOK, CustodyInv, PlaceInv, Process, SessionInv, OnSession
<1>6. DomainInv'
  BY
  DEF Undo, IndInv, TypeOK, CustodyInv, PlaceInv, Process, Artifacts, DomainInv,
      Resolves
<1>7. QED
  BY <1>1, <1>2, <1>3, <1>4, <1>5, <1>6 DEF IndInv

LEMMA UndoFailsKeeps ==
  ASSUME NEW p \in Procs, IndInv, UndoFails(p)
  PROVE  IndInv'
<1>1. TypeOK'
  <2>1. proc' \in [Procs -> Process]
    BY DEF UndoFails, IndInv, TypeOK, Process
  <2>2. QED
    BY <2>1 DEF UndoFails, IndInv, TypeOK
<1>2. CustodyInv'
  BY DEF UndoFails, IndInv, TypeOK, CustodyInv, PlaceInv, Process
<1>3. PlaceInv'
  BY DEF UndoFails, IndInv, TypeOK, CustodyInv, PlaceInv, Process
<1>4. TokenInv'
  BY
  DEF UndoFails, IndInv, TypeOK, CustodyInv, PlaceInv, Process, Registration,
      TokenInv, Fresh, Tokens
<1>5. SessionInv'
  BY
  DEF UndoFails, IndInv, TypeOK, CustodyInv, PlaceInv, Process, SessionInv,
      OnSession
<1>6. DomainInv'
  BY
  DEF UndoFails, IndInv, TypeOK, CustodyInv, PlaceInv, Process, Artifacts,
      DomainInv, Resolves
<1>7. QED
  BY <1>1, <1>2, <1>3, <1>4, <1>5, <1>6 DEF IndInv

LEMMA ResolveKeeps ==
  ASSUME NEW p \in Procs, NEW d \in Dirs, IndInv, Resolve(p, d)
  PROVE  IndInv'
<1>1. TypeOK'
  <2>1. proc' \in [Procs -> Process]
    <3>1. "lock" \in Places
      BY DEF Places
    <3>2. QED
      BY <3>1, ZenonT(40) DEF Resolve, IndInv, TypeOK, Process
  <2>2. QED
    BY <2>1 DEF Resolve, IndInv, TypeOK
<1>2. CustodyInv'
  BY DEF Resolve, IndInv, TypeOK, CustodyInv, PlaceInv, Process
<1>3. PlaceInv'
  BY DEF Resolve, IndInv, TypeOK, CustodyInv, PlaceInv, Process
<1>4. TokenInv'
  BY
  DEF Resolve, IndInv, TypeOK, CustodyInv, PlaceInv, Process, Registration,
      TokenInv, Fresh, Tokens
<1>5. SessionInv'
  BY
  DEF Resolve, IndInv, TypeOK, CustodyInv, PlaceInv, Process, SessionInv, OnSession
<1>6. DomainInv'
  BY
  DEF Resolve, IndInv, TypeOK, CustodyInv, PlaceInv, Process, Artifacts, DomainInv,
      Resolves
<1>7. QED
  BY <1>1, <1>2, <1>3, <1>4, <1>5, <1>6 DEF IndInv

LEMMA InferKeeps ==
  ASSUME NEW p \in Procs, IndInv, Infer(p)
  PROVE  IndInv'
<1>0. record \in Registration /\ proc'[p].reg = record
  BY DEF Infer, IndInv, TypeOK
<1>b. proc'[p].pc = "request" /\ proc'[p].dir = proc[p].dir
  BY DEF Infer, IndInv, TypeOK, Process
<1>a. \A q \in Procs : q # p => proc[q].pc \notin Holding /\ proc'[q] = proc[q]
  BY DEF Infer, IndInv, CustodyInv, TypeOK
<1>1. TypeOK'
  <2>1. proc' \in [Procs -> Process]
    BY <1>0, PlaceType DEF Infer, IndInv, TypeOK, Places
  <2>2. QED
    BY <2>1 DEF Infer, IndInv, TypeOK
<1>2. CustodyInv'
  BY DEF Infer, IndInv, TypeOK, CustodyInv, PlaceInv, Process
<1>3. PlaceInv'
  BY DEF Infer, IndInv, TypeOK, CustodyInv, PlaceInv, Process
<1>4. TokenInv'
  BY
  DEF Infer, IndInv, TypeOK, CustodyInv, PlaceInv, Process, Registration, TokenInv,
      Fresh, Tokens
<1>5. SessionInv'
  <2>1. /\ record.token # 0 /\ record.model /\ ~record.pending
        /\ bound[proc[p].dir] = record.subject
        /\ record' = record /\ bound' = bound
    BY DEF Infer
  <2>2. ASSUME NEW q \in Procs, q # p
        PROVE  proc'[q] = proc[q] /\ proc[q].pc \notin Holding
    BY <1>a, <2>2
  <2>3. QED
    BY <1>0, <1>b, <2>1, <2>2, ZenonT(40) DEF IndInv, SessionInv, OnSession
<1>6. DomainInv'
  BY
  DEF Infer, IndInv, TypeOK, CustodyInv, PlaceInv, Process, Artifacts, DomainInv,
      Resolves
<1>7. QED
  BY <1>1, <1>2, <1>3, <1>4, <1>5, <1>6 DEF IndInv

LEMMA AnsweredKeeps ==
  ASSUME NEW p \in Procs, IndInv, Answered(p)
  PROVE  IndInv'
<1>1. TypeOK'
  <2>1. proc' \in [Procs -> Process]
    BY PlaceType DEF Answered, IndInv, TypeOK, Places
  <2>2. QED
    BY <2>1 DEF Answered, IndInv, TypeOK
<1>2. CustodyInv'
  BY DEF Answered, IndInv, TypeOK, CustodyInv, PlaceInv, Process
<1>3. PlaceInv'
  BY DEF Answered, IndInv, TypeOK, CustodyInv, PlaceInv, Process
<1>4. TokenInv'
  BY SMTT(30)
  DEF Answered, IndInv, TypeOK, CustodyInv, PlaceInv, Process, Registration,
      TokenInv, Fresh, Tokens
<1>5. SessionInv'
  BY
  DEF Answered, IndInv, TypeOK, CustodyInv, PlaceInv, Process, SessionInv, OnSession
<1>6. DomainInv'
  BY
  DEF Answered, IndInv, TypeOK, CustodyInv, PlaceInv, Process, Artifacts, DomainInv,
      Resolves
<1>7. QED
  BY <1>1, <1>2, <1>3, <1>4, <1>5, <1>6 DEF IndInv

\* A login that finds a marker goes on to remove it.
LEMMA SaveWritesKeeps ==
  ASSUME NEW p \in Procs, IndInv, SaveWrites(p), marker # "none"
  PROVE  IndInv'
<1>0. /\ proc' = [proc EXCEPT ![p].pc = "unmark"] /\ proc[p].pc = "store"
      /\ record' = proc[p].reg /\ proc[p].reg \in Registration
      /\ UNCHANGED <<marker, stray, custody, flock, domain, issuer, bounds>>
  BY DEF SaveWrites, IndInv, PlaceInv
<1>a. /\ custody = p /\ p \in Fresh
      /\ \A q \in Procs : q # p => proc[q].pc \notin Holding /\ proc'[q] = proc[q]
  BY <1>0 DEF IndInv, CustodyInv, TypeOK, Fresh
<1>1. TypeOK'
  <2>1. proc' \in [Procs -> Process]
    BY <1>0, PlaceType DEF IndInv, Places
  <2>2. QED
    BY <1>0, <2>1 DEF IndInv, TypeOK
<1>2. CustodyInv'
  BY <1>0 DEF IndInv, TypeOK, CustodyInv, Process
<1>3. PlaceInv'
  BY <1>0 DEF IndInv, TypeOK, PlaceInv, Process
<1>4. TokenInv'
  <2>1. Fresh' = Fresh \ {p}
    BY <1>0 DEF IndInv, TypeOK, Fresh, Process
  <2>2. QED
    BY <1>0, <1>a, <2>1, FreshToken DEF IndInv, TypeOK, TokenInv, Fresh, Process
<1>5. SessionInv'
  BY <1>0, <1>a DEF IndInv, TypeOK, SessionInv, OnSession, Process
<1>6. DomainInv'
  BY <1>0 DEF IndInv, TypeOK, DomainInv, Resolves, Process
<1>7. QED
  BY <1>1, <1>2, <1>3, <1>4, <1>5, <1>6 DEF IndInv

\* A renewal uses what is on disk, or holds the lock for a rotation of it.
LEMMA RenewChecksKeeps ==
  ASSUME NEW p \in Procs, IndInv, RenewChecks(p)
  PROVE  IndInv'
<1>0. PICK place \in {"catalog", "intent"} :
        /\ proc' = [proc EXCEPT ![p].pc = place, ![p].reg = record]
        /\ proc[p].pc = "renew" /\ record \in Registration
        /\ record.token # 0 /\ ~record.pending
        /\ custody = NoProc /\ custody' = IF place = "intent" THEN p ELSE NoProc
        /\ UNCHANGED <<disk, flock, domain, issuer, bounds>>
  BY DEF RenewChecks, IndInv, TypeOK
<1>a. /\ \A q \in Procs : proc[q].pc \notin Holding
      /\ \A q \in Procs : q # p => proc'[q] = proc[q]
      /\ proc'[p].pc = place /\ proc'[p].reg = record /\ proc'[p].dir = proc[p].dir
  BY <1>0 DEF IndInv, CustodyInv, TypeOK, Process
<1>1. TypeOK'
  <2>1. proc' \in [Procs -> Process]
    BY <1>0, PlaceType DEF IndInv, Places
  <2>2. QED
    BY <1>0, <2>1 DEF IndInv, TypeOK
<1>2. CustodyInv'
  BY <1>0, <1>a DEF IndInv, TypeOK, CustodyInv
<1>3. PlaceInv'
  BY <1>0, <1>a DEF IndInv, PlaceInv
<1>4. TokenInv'
  <2>1. Fresh' = Fresh /\ p \notin Fresh
    BY <1>0, <1>a DEF Fresh
  <2>2. \A q \in Fresh' : proc'[q] = proc[q]
    BY <1>a, <2>1 DEF Fresh
  <2>3. sent[record.token] = 0
    BY <1>0 DEF IndInv, TokenInv
  <2>4. \A q \in Procs :
          /\ proc'[q].pc \in {"intent", "mark", "send"} => q = p /\ place = "intent"
          /\ proc'[q].pc \notin {"mark", "send"}
    BY <1>0, <1>a
  <2>5. ASSUME NEW q \in Fresh'
        PROVE  /\ proc'[q].reg.token \in 1..issued' /\ sent'[proc'[q].reg.token] = 0
               /\ record' # NoReg => record'.token # proc'[q].reg.token
               /\ \A w \in Fresh' \ {q} : proc'[w].reg.token # proc'[q].reg.token
    BY <1>0, <2>1, <2>2, <2>5, ZenonT(40) DEF IndInv, TokenInv
  <2>6. \A q \in Procs :
          /\ proc'[q].pc \in {"intent", "mark", "send"} =>
               record'.token = proc'[q].reg.token /\ record'.token # 0
          /\ proc'[q].pc = "intent" => ~record'.pending
    BY <1>0, <1>a, <2>4
  <2>7. /\ \A v \in Tokens : sent'[v] <= 1 /\ (v > issued' => sent'[v] = 0)
        /\ record' # NoReg =>
             /\ record'.token <= issued'
             /\ record'.token # 0 /\ ~record'.pending => sent'[record'.token] = 0
    BY <1>0 DEF IndInv, TokenInv
  <2>8. QED
    BY <2>4, <2>5, <2>6, <2>7 DEF TokenInv
<1>5. SessionInv'
  BY <1>0, <1>a, ZenonT(40) DEF IndInv, SessionInv, OnSession
<1>6. DomainInv'
  BY <1>0, <1>a DEF IndInv, TypeOK, DomainInv, Resolves
<1>7. QED
  BY <1>1, <1>2, <1>3, <1>4, <1>5, <1>6 DEF IndInv

\* The one step that sends a refresh token: it was unsent, and the record on
\* disk has been marked as pending before.
LEMMA RenewSendsKeeps ==
  ASSUME NEW p \in Procs, IndInv, RenewSends(p)
  PROVE  IndInv'
<1> DEFINE t == proc[p].reg.token
<1>0. /\ proc[p].pc = "send" /\ custody = p /\ t \in Tokens
      /\ record \in Registration /\ record.token = t /\ record.pending /\ sent[t] = 0
      /\ proc[p].reg \in Registration /\ proc[p].dir = NoDir
      /\ t <= issued /\ issued \in 0..MaxTokens
  <2>1. /\ proc[p].pc = "send" /\ custody = p /\ proc[p].reg \in Registration
        /\ record \in Registration /\ proc[p].dir = NoDir
    BY DEF RenewSends, IndInv, CustodyInv, PlaceInv
  <2>2. record.token = t /\ record.pending /\ sent[t] = 0 /\ t # 0 /\ t <= issued
    BY <2>1 DEF IndInv, TokenInv
  <2>3. t \in Tokens /\ issued \in 0..MaxTokens
    BY <2>1, <2>2 DEF IndInv, TypeOK, Registration, Tokens
  <2>4. QED
    BY <2>1, <2>2, <2>3
<1>a. /\ UNCHANGED <<disk, flock, domain, bounds>>
      /\ sent' = [sent EXCEPT ![t] = 1]
  BY <1>0 DEF RenewSends, IndInv, TypeOK
<1>b. \A q \in Procs : q # p => proc[q].pc \notin Holding
  BY <1>0 DEF IndInv, CustodyInv
<1>c. sent' \in [Tokens -> Nat] /\ \A u \in Tokens : sent'[u] <= 1 /\ (u # t => sent'[u] = sent[u])
  BY <1>0, <1>a DEF IndInv, TypeOK, TokenInv
<1>d. p \notin Fresh /\ \A q \in Fresh : q # p /\ proc[q].reg.token # t
  BY <1>0 DEF IndInv, TokenInv, Fresh
<1>1. CASE Release /\ Stop(p) /\ UNCHANGED issued
  <2>0. /\ \A q \in Procs : q # p => proc'[q] = proc[q]
        /\ proc'[p] = Idle
    BY <1>1 DEF IndInv, TypeOK
  <2>1. TypeOK'
    BY <1>1, <1>a, <1>c, IdleType DEF IndInv, TypeOK
  <2>2. CustodyInv'
    BY <1>1, <1>b, <2>0, IdleType DEF IndInv, CustodyInv
  <2>3. PlaceInv'
    BY <1>a, <2>0, IdleType DEF IndInv, PlaceInv
  <2>4. TokenInv'
    <3>1. Fresh' = Fresh
      BY <1>d, <2>0, IdleType DEF Fresh
    <3>2. QED
      BY <1>0, <1>1, <1>a, <1>b, <1>c, <1>d, <2>0, <3>1, IdleType
      DEF IndInv, TypeOK, TokenInv, Fresh, Tokens
  <2>5. SessionInv'
    BY <1>a, <2>0, IdleType DEF IndInv, SessionInv, OnSession
  <2>6. DomainInv'
    BY <1>0, <1>a, <2>0, IdleType DEF IndInv, TypeOK, DomainInv, PlaceInv, Resolves
  <2>7. QED
    BY <2>1, <2>2, <2>3, <2>4, <2>5, <2>6 DEF IndInv
<1>2. CASE issued < MaxTokens /\ issued' = issued + 1 /\ UNCHANGED custody
  <2> DEFINE u == issued + 1
  <2>0. /\ \A q \in Procs : q # p => proc'[q] = proc[q]
        /\ proc'[p].pc = "rotate" /\ proc'[p].reg.token = u /\ proc'[p].dir = NoDir
        /\ proc'[p].reg \in Registration /\ proc' \in [Procs -> Process]
    <3>0. PICK life \in {"fresh", "stale"} :
            proc' = [proc EXCEPT ![p].pc = "rotate", ![p].reg.token = u,
                                 ![p].reg.life = life]
      BY <1>0, <1>2 DEF RenewSends
    <3>1. u \in 0..MaxTokens /\ "rotate" \in Places
      BY <1>0, <1>2 DEF Places
    <3>2. proc'[p].reg = [[proc[p].reg EXCEPT !.token = u] EXCEPT !.life = life]
      BY <3>0 DEF IndInv, TypeOK, Process
    <3>3. [proc[p].reg EXCEPT !.token = u] \in Registration
      BY <1>0, <3>1 DEF Registration
    <3>4. proc'[p].reg \in Registration /\ proc'[p].reg.token = u
      BY <3>2, <3>3 DEF Registration
    <3>5. /\ \A q \in Procs : q # p => proc'[q] = proc[q]
          /\ proc'[p].pc = "rotate" /\ proc'[p].dir = proc[p].dir
          /\ proc'[p].seen = proc[p].seen /\ proc'[p].undo = proc[p].undo
      BY <3>0 DEF IndInv, TypeOK, Process
    <3>6. proc' \in [Procs -> Process]
      <4> DEFINE f == [proc EXCEPT ![p].pc = "rotate"]
                 g == [f EXCEPT ![p].reg.token = u]
      <4>1. proc' = [g EXCEPT ![p].reg.life = life]
        BY <3>0
      <4>2. f \in [Procs -> Process] /\ f[p].reg = proc[p].reg
        <5>1. f \in [Procs -> Process]
          BY <3>1, PlaceType DEF IndInv, TypeOK
        <5>2. f[p].reg = proc[p].reg
          BY DEF IndInv, TypeOK, Process
        <5>3. QED
          BY <5>1, <5>2
      <4>3. g \in [Procs -> Process] /\ g[p].reg \in Registration
        <5> HIDE DEF f
        <5>1. QED
          BY <1>0, <3>3, <4>2 DEF Process
      <4>4. QED
        <5> HIDE DEF g
        <5>1. [g[p].reg EXCEPT !.life = life] \in Registration
          BY <4>3 DEF Registration
        <5>2. QED
          BY <4>1, <4>3, <5>1 DEF Process
    <3>7. QED
      BY <1>0, <3>4, <3>5, <3>6
  <2>1. TypeOK'
    BY <1>0, <1>2, <1>a, <1>c, <2>0 DEF IndInv, TypeOK
  <2>2. CustodyInv'
    BY <1>0, <1>2, <2>0 DEF IndInv, CustodyInv
  <2>3. PlaceInv'
    BY <1>a, <2>0 DEF IndInv, PlaceInv
  <2>4. TokenInv'
    <3>1. Fresh' = Fresh \cup {p}
      BY <2>0 DEF Fresh
    <3>2. u \in Tokens /\ u # t /\ sent'[u] = 0
      BY <1>0, <1>2, <1>c, SMTT(30) DEF IndInv, TypeOK, TokenInv, Tokens
    <3>3. \A q \in Fresh : proc'[q].reg.token = proc[q].reg.token
                            /\ proc[q].reg.token \in 1..issued
      BY <1>d, <2>0 DEF IndInv, TokenInv, Fresh
    <3>4. ASSUME NEW q \in Fresh'
          PROVE  /\ proc'[q].reg.token \in 1..issued' /\ sent'[proc'[q].reg.token] = 0
                 /\ record.token # proc'[q].reg.token
                 /\ \A w \in Fresh' \ {q} : proc'[w].reg.token # proc'[q].reg.token
      <4>1. CASE q = p
        BY <1>0, <1>2, <1>d, <2>0, <3>1, <3>2, <3>3, <4>1
      <4>2. CASE q \in Fresh
        <5>1. /\ proc[q].reg.token \in 1..issued /\ sent[proc[q].reg.token] = 0
              /\ proc[q].reg.token # t
              /\ \A w \in Fresh \ {q} : proc[w].reg.token # proc[q].reg.token
          BY <1>d, <4>2 DEF IndInv, TokenInv
        <5>2. QED
          BY <1>0, <1>2, <1>c, <1>d, <2>0, <3>1, <3>2, <3>3, <4>2, <5>1, SMTT(30) DEF Tokens
      <4>3. QED
        BY <3>1, <3>4, <4>1, <4>2
    <3>5. QED
      BY <1>0, <1>2, <1>a, <1>b, <1>c, <2>0, <3>4, SMTT(30)
      DEF IndInv, TypeOK, TokenInv, Tokens
  <2>5. SessionInv'
    BY <1>a, <1>b, <2>0 DEF IndInv, SessionInv, OnSession
  <2>6. DomainInv'
    BY <1>0, <1>a, <2>0 DEF IndInv, TypeOK, DomainInv, PlaceInv, Resolves
  <2>7. QED
    BY <2>1, <2>2, <2>3, <2>4, <2>5, <2>6 DEF IndInv
<1>3. QED
  BY <1>1, <1>2 DEF RenewSends

\* The database, the manifest and the provider file of a new domain.
LEMMA CreateKeeps ==
  ASSUME NEW p \in Procs, IndInv,
         NEW from \in Setting, NEW to \in Setting, NEW artifact \in Artifacts,
         Create(p, from, artifact, to)
  PROVE  IndInv'
<1>0. /\ proc' = [proc EXCEPT ![p].pc = to] /\ proc[p].pc \in Setting
      /\ proc'[p].pc \in Setting /\ files' \in [Dirs -> SUBSET Artifacts]
      /\ \A d \in Dirs : files[d] \subseteq files'[d]
      /\ UNCHANGED <<disk, custody, flock, bound, locator, linked, issuer, bounds>>
  BY ZenonT(40) DEF Create, IndInv, TypeOK, Process
<1>a. /\ \A q \in Procs : q # p => proc'[q] = proc[q]
      /\ proc'[p].reg = proc[p].reg /\ proc'[p].dir = proc[p].dir
      /\ proc'[p].seen = proc[p].seen
  BY <1>0 DEF IndInv, TypeOK, Process
<1>1. TypeOK'
  <2>1. proc' \in [Procs -> Process]
    BY <1>0, PlaceType DEF IndInv, Places
  <2>2. QED
    BY <1>0, <2>1 DEF IndInv, TypeOK
<1>2. CustodyInv'
  BY <1>0, <1>a DEF IndInv, CustodyInv
<1>3. PlaceInv'
  BY <1>0, <1>a DEF IndInv, PlaceInv
<1>4. TokenInv'
  BY <1>0, <1>a DEF IndInv, TokenInv, Fresh
<1>5. SessionInv'
  BY <1>0, <1>a DEF IndInv, SessionInv, OnSession
<1>6. DomainInv'
  BY <1>0, <1>a DEF IndInv, TypeOK, DomainInv, PlaceInv, Resolves, Process
<1>7. QED
  BY <1>1, <1>2, <1>3, <1>4, <1>5, <1>6 DEF IndInv

LEMMA AgeKeeps ==
  ASSUME IndInv, Age
  PROVE  IndInv'
<1>0. /\ record \in Registration /\ record' \in Registration
      /\ record'.subject = record.subject /\ record'.token = record.token
      /\ record'.pending = record.pending /\ record'.model = record.model
      /\ UNCHANGED <<marker, stray, custody, flock, domain, proc, issuer, bounds>>
  BY DEF Age, IndInv, TypeOK, Registration
<1>1. TypeOK'
  BY <1>0 DEF IndInv, TypeOK
<1>2. CustodyInv' /\ PlaceInv'
  BY <1>0 DEF IndInv, CustodyInv, PlaceInv
<1>3. TokenInv'
  BY <1>0 DEF IndInv, TokenInv, Fresh
<1>4. SessionInv' /\ DomainInv'
  BY <1>0 DEF IndInv, SessionInv, OnSession, DomainInv, Resolves
<1>5. QED
  BY <1>1, <1>2, <1>3, <1>4 DEF IndInv

-----------------------------------------------------------------------------
(* The theorems.                                                            *)

LEMMA InitHolds ==
  ASSUME Init
  PROVE  IndInv
<1>1. TypeOK
  <2>1. proc \in [Procs -> Process] /\ sent \in [Tokens -> Nat]
    BY IdleType DEF Init
  <2>2. issued \in 0..MaxTokens /\ deaths \in 0..MaxDeaths /\ faults \in 0..MaxFaults
    BY DEF Init
  <2>3. QED
    BY <2>1, <2>2 DEF Init, TypeOK
<1>2. CustodyInv /\ PlaceInv
  BY IdleType DEF Init, CustodyInv, PlaceInv
<1>3. TokenInv
  BY IdleType DEF Init, TokenInv, Fresh, Tokens
<1>4. SessionInv /\ DomainInv
  BY IdleType DEF Init, SessionInv, DomainInv
<1>5. QED
  BY <1>1, <1>2, <1>3, <1>4 DEF IndInv

\* Every step of every command, and every death, keeps the invariant.
LEMMA NextKeeps ==
  ASSUME IndInv, [Next]_vars
  PROVE  IndInv'
<1>1. CASE UNCHANGED vars
  BY <1>1 DEF vars, IndInv, TypeOK, CustodyInv, PlaceInv, TokenInv, Fresh,
              SessionInv, OnSession, DomainInv, Resolves
<1>2. ASSUME NEW p \in Procs, Ends(p) PROVE IndInv'
  BY <1>2, EndsKeeps DEF Ends
<1>3. ASSUME NEW p \in Procs, Begin(p) PROVE IndInv'
  BY <1>3, LoginKeeps, CatalogKeeps, LogoutKeeps, ResolveKeeps DEF Begin
<1>4. ASSUME NEW p \in Procs, LoginStep(p) PROVE IndInv'
  <2>1. CASE SaveWrites(p)
    BY <2>1, SaveWritesKeeps, WritesEnd, EndsKeeps
  <2>2. QED
    BY <1>2, <1>4, <2>1, RefusalsEnd, WritesEnd, EndsKeeps, ExchangeKeeps,
       SaveChecksKeeps DEF LoginStep
<1>5. ASSUME NEW p \in Procs, CatalogStep(p) PROVE IndInv'
  BY <1>2, <1>5, RefusalsEnd, WritesEnd, EndsKeeps, LoadKeeps, RenewChecksKeeps,
     RenewIntendsKeeps, RenewMarksKeeps, RenewSendsKeeps, RenewCommitsKeeps,
     RenewClearsKeeps, ListedKeeps
  DEF CatalogStep
<1>6. ASSUME NEW p \in Procs, SetupStep(p) PROVE IndInv'
  <2>1. CASE MakeDatabase(p) \/ WriteManifest(p) \/ PublishProvider(p)
    BY <2>1, CreateKeeps DEF MakeDatabase, WriteManifest, PublishProvider, Artifacts
  <2>2. QED
    BY <1>2, <1>6, <2>1, RefusalsEnd, WritesEnd, EndsKeeps, SetModelKeeps,
       ActiveRegistrationKeeps, InitializeKeeps, LinkLocatorKeeps,
       UnlinkStagingKeeps, InitializeFailsKeeps, UndoKeeps, UndoFailsKeeps
    DEF SetupStep
<1>7. ASSUME NEW p \in Procs, LogoutStep(p) PROVE IndInv'
  BY <1>2, <1>7, RefusalsEnd, WritesEnd, EndsKeeps, RevokeKeeps DEF LogoutStep
<1>8. ASSUME NEW p \in Procs, RunStep(p) PROVE IndInv'
  BY <1>2, <1>8, RefusalsEnd, AcquireLockKeeps, RevalidateKeeps, InferKeeps,
     AnsweredKeeps DEF RunStep
<1>9. ASSUME NEW p \in Procs, Die(p) PROVE IndInv'
  BY <1>2, <1>9, RefusalsEnd
<1>10. QED
  BY <1>1, <1>3, <1>4, <1>5, <1>6, <1>7, <1>8, <1>9, AgeKeeps DEF Next, Step

LEMMA IndInvHolds == Spec => []IndInv
  BY InitHolds, NextKeeps, PTL DEF Spec

\* Type correctness of files, locks and processes.
THEOREM SIWCTypes == Spec => []TypeOK
<1>1. IndInv => TypeOK
  BY DEF IndInv
<1>2. QED
  BY <1>1, IndInvHolds, PTL

\* No refresh token is sent to be rotated twice, however many commands, deaths
\* and failing writes there are.
THEOREM RefreshSentOnceHolds == Spec => []RefreshSentOnce
<1>1. IndInv => RefreshSentOnce
  BY DEF IndInv, TokenInv, RefreshSentOnce
<1>2. QED
  BY <1>1, IndInvHolds, PTL

\* An inference request has the session on disk to itself.
THEOREM RequestUsesSessionHolds == Spec => []RequestUsesSession
<1>1. ASSUME IndInv PROVE RequestUsesSession
  <2> SUFFICES ASSUME NEW p \in Procs, proc[p].pc = "request"
               PROVE  /\ record = [proc[p].reg EXCEPT !.life = record.life]
                      /\ ~record.pending /\ record.token # 0 /\ record.model
                      /\ record.subject = bound[proc[p].dir]
                      /\ \A q \in Procs :
                           ~(proc[q].pc \in {"intent", "mark", "send", "rotate",
                                             "store", "revoke", "signout"})
    BY DEF RequestUsesSession
  <2>1. record \in Registration /\ proc[p].reg \in Registration
    BY <1>1 DEF IndInv, PlaceInv
  <2>2. /\ ~record.pending /\ record.token # 0 /\ record.model
        /\ record.subject = bound[proc[p].dir]
        /\ OnSession(proc[p].reg) /\ ~proc[p].reg.pending
    BY <1>1 DEF IndInv, SessionInv, OnSession
  <2>3. record = [proc[p].reg EXCEPT !.life = record.life]
    BY <2>1, <2>2 DEF OnSession, Registration
  <2>4. \A q \in Procs : proc[q].pc \in Holding => q = p
    BY <1>1 DEF IndInv, CustodyInv
  <2>5. QED
    BY <2>2, <2>3, <2>4
<1>2. QED
  BY <1>1, IndInvHolds, PTL

\* Whoever has a domain open has it alone, and has all of it.
THEOREM OpenDomainIntactHolds == Spec => []OpenDomainIntact
<1>1. IndInv => OpenDomainIntact
  BY DEF IndInv, TypeOK, Process, PlaceInv, DomainInv, OpenDomainIntact
<1>2. QED
  BY <1>1, IndInvHolds, PTL

\* A domain becomes discoverable only on the session that read the catalog.
THEOREM CommittedOnCatalogSessionHolds == Spec => CommittedOnCatalogSession
<1> DEFINE Commits ==
      locator' # locator /\ locator' # NoDir =>
         \E p \in Procs :
            /\ At(p, "link") /\ proc[p].dir = locator'
            /\ record.token = proc[p].seen /\ ~record.pending
            /\ record.subject = bound[locator'] /\ record.model
<1>1. ASSUME IndInv, [Next]_vars PROVE Commits
  <2>1. ASSUME NEW p \in Procs, LinkLocator(p) PROVE Commits
    BY <1>1, <2>1 DEF LinkLocator, IndInv, SessionInv, OnSession
  <2>2. CASE locator' \in {locator, NoDir}
    BY <2>2
  <2>3. CASE \A p \in Procs : ~LinkLocator(p)
    <3>1. ASSUME NEW p \in Procs, Begin(p) \/ LoginStep(p) \/ LogoutStep(p) \/ Die(p)
          PROVE  locator' = locator
      BY <3>1 DEF Begin, Login, Catalog, Logout, Resolve, LoginStep, Exchange,
         LoginRefused, SaveChecks, SaveRefused, SaveWrites, SaveUnmarks, SaveFails,
         LogoutStep, Revoke, RevokeFails, SignOut, SignOutFails, Die
    <3>2. ASSUME NEW p \in Procs, CatalogStep(p) \/ RunStep(p)
          PROVE  locator' = locator
      BY <3>2 DEF CatalogStep, Load, LoadRefused, RenewChecks, RenewRefused,
         RenewIntends, RenewMarks, RenewSends, RenewLost, RenewCommits, RenewClears,
         RenewFails, Listed, CatalogEnds, RunStep, AcquireLock, LockBusy, Revalidate,
         RevalidateRefused, Infer, Answered, Finish
    <3>3. ASSUME NEW p \in Procs, SetupStep(p) PROVE locator' \in {locator, NoDir}
      BY <2>3, <3>3 DEF SetupStep, SetModel, SetModelRefused, SetModelFails,
         ActiveRegistration, SnapshotRefused, Initialize, InitializeRefused,
         MakeDatabase, WriteManifest, PublishProvider, Create, UnlinkStaging,
         InitializeFails, Undo, UndoFails, UndoEnds
    <3>4. QED
      BY <1>1, <2>2, <3>1, <3>2, <3>3 DEF Next, Step, Age, vars
  <2>4. QED
    BY <2>1, <2>3
<1>2. IndInv /\ [Next]_vars => [Commits]_vars
  BY <1>1
<1>3. QED
  BY <1>2, IndInvHolds, PTL DEF Spec, CommittedOnCatalogSession

=============================================================================
