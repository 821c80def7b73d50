-------------------------------- MODULE SIWC --------------------------------
(***************************************************************************)
(* Sign in with ChatGPT: the protected credential store (siwcauth), the     *)
(* state domain that a setup creates (siwcstate), and the commands that use *)
(* them (login, models, setup, logout, run).  Every command is a process;   *)
(* processes share the disk and two kinds of flock, the custody lock of the *)
(* credential store and the lock of a domain.  A flock is released when its *)
(* holder dies.                                                             *)
(*                                                                          *)
(* A step is one critical section of the custody lock that only reads, or   *)
(* one atomic replacement of a file, or one request to the issuer.          *)
(* One issued client is modelled.  The host id and the binding key are      *)
(* written before the first record and never change, so the opaque bindings *)
(* of a registration are a function of its subject.                         *)
(***************************************************************************)
EXTENDS Naturals, FiniteSets

CONSTANTS
    Procs,        \* concurrent commands
    Subjects,     \* people who may sign in at the browser
    Dirs,         \* state directories an operator may name
    NoProc,       \* nobody holds a lock
    NoDir,        \* no locator
    NoReg,        \* no registration
    MaxTokens,    \* bound: refresh tokens the issuer hands out
    MaxDeaths,    \* bound: processes that die
    MaxFaults     \* bound: file operations that fail

ASSUME BoundsAreNaturals ==
    MaxTokens \in Nat /\ MaxDeaths \in Nat /\ MaxFaults \in Nat

ASSUME AbsentValues ==
    NoProc \notin Procs /\ NoDir \notin Dirs

VARIABLES
    record,     \* registrations/<id>.json, or NoReg
    marker,     \* rotation-<id>.pending: "none", or "own" with the id in it
    stray,      \* a temporary file that a death left in registrations/
    custody,    \* holder of .custody-lock-v1
    flock,      \* holder of each directory's domain lock
    files,      \* what exists of each domain: dir, db, manifest, provider
    bound,      \* the subject whose bindings the files of a domain carry
    locator,    \* the directory that siwc-locator.json names
    linked,     \* the locator still has its staging file as a second link
    proc,       \* what each process is doing
    sent,       \* how often each refresh token was sent to be rotated
    issued,     \* tokens handed out
    deaths,
    faults

disk == <<record, marker, stray>>
domain == <<files, bound, locator, linked>>
issuer == <<sent, issued>>
bounds == <<deaths, faults>>
vars == <<record, marker, stray, custody, flock, files, bound, locator,
          linked, proc, sent, issued, deaths, faults>>

Tokens == 1..MaxTokens

\* Token 0 is a signed-out registration.  life abstracts ExpiresAt: more than
\* five minutes away, nearer than that, or over.
Registration == [subject : Subjects, token : 0..MaxTokens,
                 life : {"fresh", "stale", "expired"},
                 pending : BOOLEAN, model : BOOLEAN]

ASSUME NoRegistration == NoReg \notin Registration

Artifacts == {"dir", "db", "manifest", "provider"}

Places == {"idle",
           "browser", "save", "store", "unmark",
           "load", "renew", "intent", "mark", "send", "rotate", "clear",
           "catalog", "select", "commit", "stage", "database",
           "manifest", "publish", "link", "unlink", "undo",
           "revoke", "signout",
           "resolve", "lock", "revalidate", "open", "request"}

Idle == [pc |-> "idle", reg |-> NoReg, seen |-> 0,
         dir |-> NoDir, undo |-> {}]

Process == [pc : Places, reg : Registration \cup {NoReg}, seen : 0..MaxTokens,
            dir : Dirs \cup {NoDir}, undo : SUBSET Artifacts]

\* Every file, lock and process record holds only values the code can write there.
TypeOK ==
    /\ record \in Registration \cup {NoReg}
    /\ marker \in {"none", "own"}
    /\ stray \in BOOLEAN
    /\ custody \in Procs \cup {NoProc}
    /\ flock \in [Dirs -> Procs \cup {NoProc}]
    /\ files \in [Dirs -> SUBSET Artifacts]
    /\ bound \in [Dirs -> Subjects \cup {NoReg}]
    /\ locator \in Dirs \cup {NoDir}
    /\ linked \in BOOLEAN
    /\ proc \in [Procs -> Process]
    /\ sent \in [Tokens -> Nat]
    /\ issued \in 0..MaxTokens
    /\ deaths \in 0..MaxDeaths
    /\ faults \in 0..MaxFaults

Init ==
    /\ record = NoReg
    /\ marker = "none"
    /\ stray = FALSE
    /\ custody = NoProc
    /\ flock = [d \in Dirs |-> NoProc]
    /\ files = [d \in Dirs |-> {}]
    /\ bound = [d \in Dirs |-> NoReg]
    /\ locator = NoDir
    /\ linked = FALSE
    /\ proc = [p \in Procs |-> Idle]
    /\ sent = [t \in Tokens |-> 0]
    /\ issued = 0
    /\ deaths = 0
    /\ faults = 0

-----------------------------------------------------------------------------
(* Helpers *)

Goto(p, place) == proc' = [proc EXCEPT ![p].pc = place]
Stop(p) == proc' = [proc EXCEPT ![p] = Idle]

At(p, place) == proc[p].pc = place

\* lockWithContext without a deadline: flock waits until the lock is free.
Free == custody = NoProc
Take(p) == Free /\ custody' = p
Release == custody' = NoProc

\* findRecord: every entry of registrations/ must be a record; an entry that
\* is not, such as a temporary file, is an error for every client.
FindRecord == ~stray /\ record # NoReg

\* refreshPending: a marker that cannot be read or names another registration.
\* The marker that refresh writes names this one, so it does not count.
RefreshPending == marker \notin {"none", "own"}

Certain == FindRecord /\ ~record.pending /\ ~RefreshPending

Loadable == Certain /\ record.token # 0

\* hasActiveTokens
HasActiveTokens(r) == r.token # 0 /\ r.life # "expired"

Active == Certain /\ HasActiveTokens(record)

\* sameRegistrationSnapshot: a token has one expiry, so life is not compared.
SameSnapshot(a, b) ==
    a.subject = b.subject /\ a.token = b.token /\ a.model = b.model

Fault == faults < MaxFaults /\ faults' = faults + 1 /\ UNCHANGED deaths

\* A file operation that fails ends the command; a replacement may fail before
\* the rename or after it, when the directory cannot be synced.
Replace(new) == record' \in {record, new}

-----------------------------------------------------------------------------
(* login *)

\* siwcLogin, Login: the host id is read or created under the lock.
Login(p) ==
    /\ At(p, "idle")
    /\ Free
    /\ Goto(p, "browser")
    /\ UNCHANGED <<disk, custody, flock, domain, issuer, bounds>>

\* The callback is accepted and the code is exchanged for a first token set.
\* Exchange returns no model, so a registration starts without one.
Exchange(p) ==
    /\ At(p, "browser")
    /\ issued < MaxTokens
    /\ \E s \in Subjects :
         proc' = [proc EXCEPT ![p].pc = "save",
                    ![p].reg = [subject |-> s, token |-> issued + 1, life |-> "fresh",
                                pending |-> FALSE, model |-> FALSE]]
    /\ issued' = issued + 1
    /\ UNCHANGED <<disk, custody, flock, domain, sent, bounds>>

\* Access denied, an invalid callback, a refused exchange, a cancelled wait.
LoginRefused(p) ==
    /\ At(p, "browser")
    /\ Stop(p)
    /\ UNCHANGED <<disk, custody, flock, domain, issuer, bounds>>

\* Save up to its write: the identity of an existing record cannot change.
SaveChecks(p) ==
    /\ At(p, "save")
    /\ Take(p)
    /\ ~stray
    /\ record # NoReg => record.subject = proc[p].reg.subject
    /\ Goto(p, "store")
    /\ UNCHANGED <<disk, flock, domain, issuer, bounds>>

SaveRefused(p) ==
    /\ At(p, "save")
    /\ Free
    /\ ~(~stray /\ (record # NoReg => record.subject = proc[p].reg.subject))
    /\ Stop(p)
    /\ UNCHANGED <<disk, custody, flock, domain, issuer, bounds>>

SaveWrites(p) ==
    /\ At(p, "store")
    /\ record' = proc[p].reg
    /\ IF marker = "none" THEN Stop(p) /\ Release
                          ELSE Goto(p, "unmark") /\ UNCHANGED custody
    /\ UNCHANGED <<marker, stray, flock, domain, issuer, bounds>>

SaveUnmarks(p) ==
    /\ At(p, "unmark")
    /\ marker' = "none"
    /\ Release
    /\ Stop(p)
    /\ UNCHANGED <<record, stray, flock, domain, issuer, bounds>>

\* The write fails, or the removal of the marker does: it is then written again.
SaveFails(p) ==
    /\ \/ At(p, "store") /\ Replace(proc[p].reg)
       \/ At(p, "unmark") /\ UNCHANGED record
    /\ Fault
    /\ Release
    /\ Stop(p)
    /\ UNCHANGED <<marker, stray, flock, domain, issuer>>

-----------------------------------------------------------------------------
(* models and setup: the catalog, with a renewal when the token is old *)

\* siwcModels, siwcSetup
Catalog(p) ==
    /\ At(p, "idle")
    /\ Goto(p, "load")
    /\ UNCHANGED <<disk, custody, flock, domain, issuer, bounds>>

\* CatalogSnapshot: Load under the lock; RefreshOAuth takes it again.
Load(p) ==
    /\ At(p, "load")
    /\ Free
    /\ Loadable
    /\ proc' = [proc EXCEPT ![p].pc = IF record.life = "fresh" THEN "catalog" ELSE "renew",
                            ![p].reg = record]
    /\ UNCHANGED <<disk, custody, flock, domain, issuer, bounds>>

LoadRefused(p) ==
    /\ At(p, "load")
    /\ Free
    /\ ~Loadable
    /\ Stop(p)
    /\ UNCHANGED <<disk, custody, flock, domain, issuer, bounds>>

\* refresh: what it reads under the lock may be newer than what Load read.
RenewChecks(p) ==
    /\ At(p, "renew")
    /\ Loadable
    /\ \/ /\ record.life = "fresh"
          /\ Free /\ UNCHANGED custody
          /\ proc' = [proc EXCEPT ![p].pc = "catalog", ![p].reg = record]
       \/ /\ record.life # "fresh"
          /\ Take(p)
          /\ proc' = [proc EXCEPT ![p].pc = "intent", ![p].reg = record]
    /\ UNCHANGED <<disk, flock, domain, issuer, bounds>>

RenewRefused(p) ==
    /\ At(p, "renew")
    /\ Free
    /\ ~Loadable
    /\ Stop(p)
    /\ UNCHANGED <<disk, custody, flock, domain, issuer, bounds>>

\* Mutant: only the marker file records the intent.
RenewIntendsUnrecorded(p) ==
    /\ At(p, "intent")
    /\ Goto(p, "mark")
    /\ UNCHANGED <<disk, custody, flock, domain, issuer, bounds>>

RenewIntends(p) ==
    /\ At(p, "intent")
    /\ record' = [record EXCEPT !.pending = TRUE]
    /\ Goto(p, "mark")
    /\ UNCHANGED <<marker, stray, custody, flock, domain, issuer, bounds>>

RenewMarks(p) ==
    /\ At(p, "mark")
    /\ marker' = "own"
    /\ Goto(p, "send")
    /\ UNCHANGED <<record, stray, custody, flock, domain, issuer, bounds>>

\* The request reaches the issuer, which rotates the token or refuses it.
RenewSends(p) ==
    /\ At(p, "send")
    /\ sent' = [sent EXCEPT ![proc[p].reg.token] = @ + 1]
    /\ \/ /\ issued < MaxTokens
          /\ issued' = issued + 1
          /\ \E life \in {"fresh", "stale"} :
               proc' = [proc EXCEPT ![p].pc = "rotate", ![p].reg.token = issued + 1,
                                    ![p].reg.life = life]
          /\ UNCHANGED custody
       \/ /\ Release
          /\ Stop(p)
          /\ UNCHANGED issued
    /\ UNCHANGED <<disk, flock, domain, bounds>>

\* The request does not go out, the answer is lost, or it is not acceptable.
RenewLost(p) ==
    /\ proc[p].pc \in {"send", "rotate"}
    /\ Release
    /\ Stop(p)
    /\ UNCHANGED <<disk, flock, domain, issuer, bounds>>

RenewCommits(p) ==
    /\ At(p, "rotate")
    /\ record' = [proc[p].reg EXCEPT !.pending = FALSE]
    /\ Goto(p, "clear")
    /\ UNCHANGED <<marker, stray, custody, flock, domain, issuer, bounds>>

RenewClears(p) ==
    /\ At(p, "clear")
    /\ marker' = "none"
    /\ Release
    /\ Goto(p, "catalog")
    /\ UNCHANGED <<record, stray, flock, domain, issuer, bounds>>

RenewFails(p) ==
    /\ \/ At(p, "intent") /\ Replace([record EXCEPT !.pending = TRUE]) /\ UNCHANGED marker
       \/ At(p, "mark") /\ marker' \in {marker, "own"} /\ UNCHANGED record
       \/ At(p, "rotate") /\ Replace([proc[p].reg EXCEPT !.pending = FALSE])
          /\ UNCHANGED marker
       \/ At(p, "clear") /\ UNCHANGED <<record, marker>>
    /\ Fault
    /\ Release
    /\ Stop(p)
    /\ UNCHANGED <<stray, flock, domain, issuer>>

\* The catalog is read without the lock.  A setup goes on with it; a models
\* command, or a request that is refused, ends there.
Listed(p) ==
    /\ At(p, "catalog")
    /\ proc' = [proc EXCEPT ![p].pc = "select", ![p].seen = proc[p].reg.token]
    /\ UNCHANGED <<disk, custody, flock, domain, issuer, bounds>>

CatalogEnds(p) ==
    /\ At(p, "catalog")
    /\ Stop(p)
    /\ UNCHANGED <<disk, custody, flock, domain, issuer, bounds>>

-----------------------------------------------------------------------------
(* setup: the rest of siwcSetupWithLifecycleHooks *)

\* Mutant: the setup goes on with the registration it finds, not the catalog's.
SetModelReloaded(p) ==
    /\ At(p, "select")
    /\ Free
    /\ Active
    /\ record' = [record EXCEPT !.model = TRUE]
    /\ proc' = [proc EXCEPT ![p].pc = "commit", ![p].reg = record']
    /\ UNCHANGED <<marker, stray, custody, flock, domain, issuer, bounds>>

\* SetModel writes the model into the record as it is now; reg.Model = model
\* into the registration whose token read the catalog.
SetModel(p) ==
    /\ At(p, "select")
    /\ Free
    /\ Active
    /\ record' = [record EXCEPT !.model = TRUE]
    /\ proc' = [proc EXCEPT ![p].pc = "commit", ![p].reg.model = TRUE]
    /\ UNCHANGED <<marker, stray, custody, flock, domain, issuer, bounds>>

SetModelRefused(p) ==
    /\ At(p, "select")
    /\ Free
    /\ ~Active
    /\ Stop(p)
    /\ UNCHANGED <<disk, custody, flock, domain, issuer, bounds>>

\* The write of the record fails, before or after its rename.
SetModelFails(p) ==
    /\ At(p, "select")
    /\ Free
    /\ Active
    /\ Replace([record EXCEPT !.model = TRUE])
    /\ Fault
    /\ Stop(p)
    /\ UNCHANGED <<marker, stray, custody, flock, domain, issuer>>

\* Store.Bindings, and WithActiveRegistration: the lock is kept until the
\* callback returns, and the session must still be the catalog's.
ActiveRegistration(p) ==
    /\ At(p, "commit")
    /\ Active /\ SameSnapshot(proc[p].reg, record)
    /\ Take(p)
    /\ Goto(p, "stage")
    /\ UNCHANGED <<disk, flock, domain, issuer, bounds>>

SnapshotRefused(p) ==
    /\ At(p, "commit")
    /\ Free
    /\ ~(Active /\ SameSnapshot(proc[p].reg, record))
    /\ Stop(p)
    /\ UNCHANGED <<disk, custody, flock, domain, issuer, bounds>>

\* stageSIWCProviderFile, and InitializeWithPublisher up to the lock of the new
\* directory: the operator's paths must be new, and there must be no locator.
Initialize(p, d) ==
    /\ At(p, "stage")
    /\ files[d] = {}
    /\ locator = NoDir
    /\ files' = [files EXCEPT ![d] = {"dir"}]
    /\ bound' = [bound EXCEPT ![d] = proc[p].reg.subject]
    /\ flock' = [flock EXCEPT ![d] = p]
    /\ proc' = [proc EXCEPT ![p].pc = "database", ![p].dir = d]
    /\ UNCHANGED <<disk, custody, locator, linked, issuer, bounds>>

InitializeRefused(p, d) ==
    /\ At(p, "stage")
    /\ ~(files[d] = {} /\ locator = NoDir)
    /\ Release
    /\ Stop(p)
    /\ UNCHANGED <<disk, flock, domain, issuer, bounds>>

Create(p, from, artifact, to) ==
    /\ At(p, from)
    /\ files' = [files EXCEPT ![proc[p].dir] = @ \cup {artifact}]
    /\ Goto(p, to)
    /\ UNCHANGED <<disk, custody, flock, bound, locator, linked, issuer, bounds>>

\* The database with its domain marker, the manifest, the provider file.
MakeDatabase(p) == Create(p, "database", "db", "manifest")
WriteManifest(p) == Create(p, "manifest", "manifest", "publish")
PublishProvider(p) == Create(p, "publish", "provider", "link")

\* writeNewPrivateJSON of the locator: link the staged file, then remove the
\* staging name.  Initialization is committed after that.
LinkLocator(p) ==
    /\ At(p, "link")
    /\ locator' = proc[p].dir
    /\ linked' = TRUE
    /\ Goto(p, "unlink")
    /\ UNCHANGED <<disk, custody, flock, files, bound, issuer, bounds>>

UnlinkStaging(p) ==
    /\ At(p, "unlink")
    /\ linked' = FALSE
    /\ flock' = [flock EXCEPT ![proc[p].dir] = NoProc]
    /\ Release
    /\ Stop(p)
    /\ UNCHANGED <<disk, files, bound, locator, issuer, bounds>>

\* A step of the initialization fails.  A locator that could not be committed
\* is removed again, unless the removal fails as well; then everything this
\* setup created is undone.
InitializeFails(p) ==
    LET d == proc[p].dir IN
    /\ proc[p].pc \in {"database", "manifest", "publish", "link", "unlink"}
    /\ \/ /\ Fault
          /\ IF At(p, "unlink") THEN locator' = NoDir /\ linked' = FALSE
                                ELSE UNCHANGED <<locator, linked>>
       \/ /\ At(p, "unlink")
          /\ faults + 2 <= MaxFaults /\ faults' = faults + 2 /\ UNCHANGED deaths
          /\ linked' = FALSE
          /\ UNCHANGED locator
    /\ proc' = [proc EXCEPT ![p].pc = "undo", ![p].undo = files[d]]
    /\ UNCHANGED <<disk, custody, flock, files, bound, issuer>>

\* domainInitializationCleanup.rollback, after the provider file's Rollback:
\* the newest artifact first, the directory with its lock last.
Newest(undo) ==
    CHOOSE a \in undo : \A b \in undo :
        LET rank(x) == CASE x = "dir" -> 0 [] x = "db" -> 1
                         [] x = "manifest" -> 2 [] x = "provider" -> 3
        IN rank(b) <= rank(a)

Undo(p) ==
    LET d == proc[p].dir
        a == Newest(proc[p].undo)
    IN
    /\ At(p, "undo")
    /\ proc[p].undo # {}
    /\ a = "dir" => files[d] \cap {"db", "manifest"} = {}
    /\ files' = [files EXCEPT ![d] = @ \ {a}]
    /\ bound' = IF files'[d] = {} THEN [bound EXCEPT ![d] = NoReg] ELSE bound
    /\ proc' = [proc EXCEPT ![p].undo = @ \ {a}]
    /\ UNCHANGED <<disk, custody, flock, locator, linked, issuer, bounds>>

\* An artifact that cannot be removed is preserved, and so is the directory.
UndoFails(p) ==
    /\ At(p, "undo")
    /\ proc[p].undo # {}
    /\ \/ Fault
       \/ /\ Newest(proc[p].undo) = "dir"
          /\ files[proc[p].dir] \cap {"db", "manifest"} # {}
          /\ UNCHANGED bounds
    /\ proc' = [proc EXCEPT ![p].undo = @ \ {Newest(@)}]
    /\ UNCHANGED <<disk, custody, flock, domain, issuer>>

UndoEnds(p) ==
    /\ At(p, "undo")
    /\ proc[p].undo = {}
    /\ flock' = [flock EXCEPT ![proc[p].dir] = NoProc]
    /\ Release
    /\ Stop(p)
    /\ UNCHANGED <<disk, domain, issuer, bounds>>

-----------------------------------------------------------------------------
(* logout: RevokeAndClear, which holds the lock over its two requests *)

Logout(p) ==
    /\ At(p, "idle")
    /\ Take(p)
    /\ FindRecord /\ ~record.pending /\ record.token # 0
    /\ Goto(p, "revoke")
    /\ UNCHANGED <<disk, flock, domain, issuer, bounds>>

Revoke(p) ==
    /\ At(p, "revoke")
    /\ Goto(p, "signout")
    /\ UNCHANGED <<disk, custody, flock, domain, issuer, bounds>>

\* Revocation is not confirmed, whether or not it happened: tokens are kept.
RevokeFails(p) ==
    /\ At(p, "revoke")
    /\ Release
    /\ Stop(p)
    /\ UNCHANGED <<disk, flock, domain, issuer, bounds>>

SignOut(p) ==
    /\ At(p, "signout")
    /\ record' = [record EXCEPT !.token = 0, !.pending = FALSE]
    /\ Release
    /\ Stop(p)
    /\ UNCHANGED <<marker, stray, flock, domain, issuer, bounds>>

SignOutFails(p) ==
    /\ At(p, "signout")
    /\ Replace([record EXCEPT !.token = 0, !.pending = FALSE])
    /\ Fault
    /\ Release
    /\ Stop(p)
    /\ UNCHANGED <<marker, stray, flock, domain, issuer>>

-----------------------------------------------------------------------------
(* run --state-domain siwc *)

\* Resolve: a locator with one link, and a manifest and a database that carry
\* the identity of the configured provider.
Resolves(d) ==
    /\ locator = d
    /\ ~linked
    /\ {"dir", "db", "manifest"} \subseteq files[d]

\* VerifyBindings, a critical section of the custody lock.
VerifyBindings(d) ==
    /\ FindRecord
    /\ record.subject = bound[d]
    /\ Active

\* resolveCommandStateDomain
Resolve(p, d) ==
    /\ At(p, "idle")
    /\ Free
    /\ Resolves(d) /\ VerifyBindings(d)
    /\ proc' = [proc EXCEPT ![p].pc = "lock", ![p].dir = d]
    /\ UNCHANGED <<disk, custody, flock, domain, issuer, bounds>>

\* Mutant: the lock is not exclusive.
AcquireLockShared(p) ==
    LET d == proc[p].dir IN
    /\ At(p, "lock")
    /\ "dir" \in files[d]
    /\ flock' = [flock EXCEPT ![d] = p]
    /\ Goto(p, "revalidate")
    /\ UNCHANGED <<disk, custody, domain, issuer, bounds>>

\* AcquireLock
AcquireLock(p) ==
    LET d == proc[p].dir IN
    /\ At(p, "lock")
    /\ "dir" \in files[d]
    /\ flock[d] = NoProc
    /\ flock' = [flock EXCEPT ![d] = p]
    /\ Goto(p, "revalidate")
    /\ UNCHANGED <<disk, custody, domain, issuer, bounds>>

\* Another holder for longer than the wait, or no such directory.
LockBusy(p) ==
    LET d == proc[p].dir IN
    /\ At(p, "lock")
    /\ flock[d] # NoProc \/ "dir" \notin files[d]
    /\ Stop(p)
    /\ UNCHANGED <<disk, custody, flock, domain, issuer, bounds>>

\* acquireSIWCDomainLock resolves and verifies again under the lock; then the
\* store is opened.
Revalidate(p) ==
    /\ At(p, "revalidate")
    /\ Free
    /\ Resolves(proc[p].dir) /\ VerifyBindings(proc[p].dir)
    /\ Goto(p, "open")
    /\ UNCHANGED <<disk, custody, flock, domain, issuer, bounds>>

RevalidateRefused(p) ==
    LET d == proc[p].dir IN
    /\ At(p, "revalidate")
    /\ Free
    /\ ~Resolves(d) \/ ~VerifyBindings(d)
    /\ flock' = [flock EXCEPT ![d] = NoProc]
    /\ Stop(p)
    /\ UNCHANGED <<disk, custody, domain, issuer, bounds>>

\* Mutant: the lock is released between the checks and the request.
InferUnlocked(p) ==
    /\ At(p, "open")
    /\ Active
    /\ record.model
    /\ record.subject = bound[proc[p].dir]
    /\ Free
    /\ proc' = [proc EXCEPT ![p].pc = "request", ![p].reg = record]
    /\ UNCHANGED <<disk, custody, flock, domain, issuer, bounds>>

\* WithAccessToken: the lock is kept over the inference request.  A busy lock
\* or a failed check ends the attempt before anything is sent.
Infer(p) ==
    /\ At(p, "open")
    /\ Active
    /\ record.model
    /\ record.subject = bound[proc[p].dir]
    /\ Take(p)
    /\ proc' = [proc EXCEPT ![p].pc = "request", ![p].reg = record]
    /\ UNCHANGED <<disk, flock, domain, issuer, bounds>>

Answered(p) ==
    /\ At(p, "request")
    /\ Release
    /\ proc' = [proc EXCEPT ![p].pc = "open", ![p].reg = NoReg]
    /\ UNCHANGED <<disk, flock, domain, issuer, bounds>>

Finish(p) ==
    /\ At(p, "open")
    /\ flock' = [flock EXCEPT ![proc[p].dir] = NoProc]
    /\ Stop(p)
    /\ UNCHANGED <<disk, custody, domain, issuer, bounds>>

-----------------------------------------------------------------------------
(* The environment *)

\* Time passes for the token on disk.
Age ==
    /\ record # NoReg
    /\ record.token # 0
    /\ record.life # "expired"
    /\ record' = [record EXCEPT !.life = IF @ = "fresh" THEN "stale" ELSE "expired"]
    /\ UNCHANGED <<marker, stray, custody, flock, domain, proc, issuer, bounds>>

\* A process is killed.  In atomicWrite it may leave its temporary file, which
\* only matters next to the records.
Writing(p) ==
    \/ proc[p].pc \in {"store", "intent", "rotate", "signout"}
    \/ At(p, "select") /\ Free

Die(p) ==
    /\ deaths < MaxDeaths
    /\ ~At(p, "idle")
    /\ deaths' = deaths + 1
    /\ stray' \in {stray, stray \/ Writing(p)}
    /\ custody' = IF custody = p THEN NoProc ELSE custody
    /\ flock' = [d \in Dirs |-> IF flock[d] = p THEN NoProc ELSE flock[d]]
    /\ Stop(p)
    /\ UNCHANGED <<record, marker, domain, issuer, faults>>

LoginStep(p) ==
    \/ Exchange(p) \/ LoginRefused(p) \/ SaveChecks(p) \/ SaveRefused(p)
    \/ SaveWrites(p) \/ SaveUnmarks(p) \/ SaveFails(p)

CatalogStep(p) ==
    \/ Load(p) \/ LoadRefused(p) \/ RenewChecks(p) \/ RenewRefused(p)
    \/ RenewIntends(p) \/ RenewMarks(p) \/ RenewSends(p)
    \/ RenewLost(p) \/ RenewCommits(p) \/ RenewClears(p) \/ RenewFails(p)
    \/ Listed(p) \/ CatalogEnds(p)

SetupStep(p) ==
    \/ SetModel(p) \/ SetModelRefused(p) \/ SetModelFails(p)
    \/ ActiveRegistration(p) \/ SnapshotRefused(p)
    \/ \E d \in Dirs : Initialize(p, d) \/ InitializeRefused(p, d)
    \/ MakeDatabase(p) \/ WriteManifest(p) \/ PublishProvider(p)
    \/ LinkLocator(p) \/ UnlinkStaging(p)
    \/ InitializeFails(p) \/ Undo(p) \/ UndoFails(p) \/ UndoEnds(p)

LogoutStep(p) == Revoke(p) \/ RevokeFails(p) \/ SignOut(p) \/ SignOutFails(p)

RunStep(p) ==
    \/ AcquireLock(p) \/ LockBusy(p) \/ Revalidate(p) \/ RevalidateRefused(p)
    \/ Infer(p) \/ Answered(p) \/ Finish(p)

Begin(p) ==
    \/ Login(p)
    \/ Catalog(p)
    \/ Logout(p)
    \/ \E d \in Dirs : Resolve(p, d)

Step(p) == LoginStep(p) \/ CatalogStep(p) \/ SetupStep(p) \/ LogoutStep(p) \/ RunStep(p)

Next == (\E p \in Procs : Begin(p) \/ Step(p) \/ Die(p)) \/ Age

Spec == Init /\ [][Next]_vars

-----------------------------------------------------------------------------
(* Properties *)

\* A rotating refresh token is sent to be rotated at most once, whatever dies,
\* fails or runs beside it: the issuer may have consumed it although the
\* answer was lost (Store.refresh).
RefreshSentOnce == \A t \in Tokens : sent[t] <= 1

\* While an inference request is on its way, the token it carries is the one on
\* disk, of the identity the domain was made for and with the model that was
\* selected: neither a renewal nor a logout nor a new sign-in overlaps it
\* (Store.WithAccessToken).
RequestUsesSession ==
    \A p \in Procs : At(p, "request") =>
        /\ record = [proc[p].reg EXCEPT !.life = record.life]
        /\ ~record.pending /\ record.token # 0 /\ record.model
        /\ record.subject = bound[proc[p].dir]
        /\ \A q \in Procs : ~(proc[q].pc \in {"intent", "mark", "send", "rotate",
                                              "store", "revoke", "signout"})

\* A process that has the store of a domain open is the only one, and the domain
\* is complete: no setup that failed is still taking it apart
\* (InitializeWithPublisher, acquireSIWCDomainLock).
OpenDomainIntact ==
    \A p \in Procs : proc[p].pc \in {"open", "request"} =>
        /\ flock[proc[p].dir] = p
        /\ Resolves(proc[p].dir)
        /\ \A q \in Procs \ {p} : proc[q].dir = proc[p].dir => At(q, "lock")

\* A domain becomes discoverable only on the session that read the catalog: the
\* token on disk is still the one that listed the models, its rotation is not in
\* doubt, and the domain is bound to its subject (WithActiveRegistration, and the
\* snapshot that siwcSetup keeps over SetModel).
CommittedOnCatalogSession ==
    [][locator' # locator /\ locator' # NoDir =>
         \E p \in Procs :
            /\ At(p, "link") /\ proc[p].dir = locator'
            /\ record.token = proc[p].seen /\ ~record.pending
            /\ record.subject = bound[locator'] /\ record.model]_vars

=============================================================================
