----------------------- MODULE ReferentialLifecycle -----------------------
(***************************************************************************)
(* The registry of referentials and their lifecycle:                       *)
(* MemoryReferentials and Referential (src/core/referential.go) driven by *)
(* the HTTP handlers of src/api/referential_controller.go.                 *)
(*                                                                         *)
(* Every request runs on its own goroutine; MemoryReferentials.byId is a   *)
(* plain map with no lock, and a handler makes several calls in turn      *)
(* (Validate, Stop, SetDefinition and Save, Start, Delete).  Each call is  *)
(* one step of the actor that runs the handler, so the calls of two       *)
(* handlers interleave.  The guardian's scheduled reload calls the same    *)
(* ReloadModel as POST /referentials/<id>/reload from its own goroutine,   *)
(* so it is covered by the reload handler.                                 *)
(*                                                                         *)
(* Running state.  Start() builds a NEW BroadcastManager, stores it in     *)
(* the referential and starts it; Stop() stops partners, guardian and the *)
(* manager the referential holds now.  `cur` says whether the components   *)
(* the referential holds are running; `leaked` counts managers that were   *)
(* still running when Start replaced them: nothing can stop those.         *)
(*                                                                         *)
(* Persistence.  The save request (SaveToDatabase) truncates the          *)
(* referentials table and inserts byId in one database transaction; the    *)
(* process may stop at any time and boots with Load then Start, which      *)
(* rebuild byId from the table.  `db` holds the table's rows.              *)
(***************************************************************************)
EXTENDS Naturals, FiniteSets

CONSTANTS
  Refs,       \* Referential objects that MemoryReferentials.New may build
  Slugs,      \* slugs a request body may carry (all match ^[a-z0-9-_]+$)
  Clients,    \* concurrent HTTP requests
  MaxOps      \* bound: requests handled in a behaviour

NoRef == "none"

VARIABLES
  used,       \* referentials built by New
  reg,        \* ids in MemoryReferentials.byId
  slug,       \* referential -> its slug ("" before SetDefinition)
  cur,        \* referential -> are the components it holds running
  leaked,     \* referential -> running managers it no longer holds
  pc,         \* client -> the handler it runs and the step it is at
  ops,        \* requests handled (and restarts) so far
  db          \* rows of the referentials table: <<id, slug>>

vars == <<used, reg, slug, cur, leaked, pc, ops, db>>

Idle == [op |-> "idle", r |-> NoRef, s |-> "", step |-> "done"]

(***************************************************************************)
(* Referential.Start and Referential.Stop, on the running state.          *)
(***************************************************************************)
StartRef(r) ==
  /\ leaked' = [leaked EXCEPT ![r] = IF cur[r] THEN @ + 1 ELSE @]
  /\ cur' = [cur EXCEPT ![r] = TRUE]

\* Variant of Stop that leaves the components running.
StopRefForgotten(r) == UNCHANGED <<cur, leaked>>

\* Stop on stopped components does nothing more (spec 4.J: idempotent).
StopRef(r) ==
  /\ cur' = [cur EXCEPT ![r] = FALSE]
  /\ UNCHANGED leaked

(***************************************************************************)
(* APIReferential.Validate: slug uniqueness against FindAll().             *)
(***************************************************************************)
\* Variant that does not check the slug against the registry.
SlugFree(r, s) == \A o \in reg : o # r => slug[o] # s

\* findReferential: FindBySlug, then Find by id, both over byId.
FindReferential(r) == r \in reg

(***************************************************************************)
(* The handlers' first step: find the referential (by slug or id), parse  *)
(* the body, Validate.  Nothing is written when it fails (404 or 400).     *)
(***************************************************************************)
Go(c, op, r, s, step) ==
  /\ pc' = [pc EXCEPT ![c] = [op |-> op, r |-> r, s |-> s, step |-> step]]
  /\ ops' = ops + 1

\* Create: New("") builds a referential; Validate; on success SetDefinition.
CreateBegin(c, r, s) ==
  /\ r \notin used
  /\ used' = used \union {r}
  /\ IF SlugFree(r, s)
       THEN Go(c, "create", r, s, "save")
       ELSE Go(c, "idle", NoRef, "", "done")
  /\ UNCHANGED <<reg, slug, cur, leaked, db>>

\* Variant of Update that goes on when findReferential finds nothing.
UpdateBeginNoFind(c, r, s) ==
  /\ IF SlugFree(r, s)
       THEN Go(c, "update", r, s, "stop")
       ELSE Go(c, "idle", NoRef, "", "done")
  /\ UNCHANGED <<used, reg, slug, cur, leaked, db>>

\* Variant of Update that does not stop the referential before the save.
UpdateBeginNoStop(c, r, s) ==
  /\ FindReferential(r)
  /\ IF SlugFree(r, s)
       THEN Go(c, "update", r, s, "save")
       ELSE Go(c, "idle", NoRef, "", "done")
  /\ UNCHANGED <<used, reg, slug, cur, leaked, db>>

\* Update: findReferential, Definition, Unmarshal, Validate.
UpdateBegin(c, r, s) ==
  /\ FindReferential(r)
  /\ IF SlugFree(r, s)
       THEN Go(c, "update", r, s, "stop")
       ELSE Go(c, "idle", NoRef, "", "done")
  /\ UNCHANGED <<used, reg, slug, cur, leaked, db>>

\* Delete and reload: findReferential.
DeleteBegin(c, r) ==
  /\ FindReferential(r)
  /\ Go(c, "delete", r, "", "stop")
  /\ UNCHANGED <<used, reg, slug, cur, leaked, db>>

ReloadBegin(c, r) ==
  /\ FindReferential(r)
  /\ Go(c, "reload", r, "", "stop")
  /\ UNCHANGED <<used, reg, slug, cur, leaked, db>>

Begin(c) ==
  /\ pc[c].op = "idle"
  /\ ops < MaxOps
  /\ \E r \in Refs :
       \/ \E s \in Slugs : CreateBegin(c, r, s) \/ UpdateBegin(c, r, s)
       \/ DeleteBegin(c, r)
       \/ ReloadBegin(c, r)

(***************************************************************************)
(* The handlers' later steps.                                              *)
(***************************************************************************)
At(c, op, step) == pc[c].op = op /\ pc[c].step = step
Then(c, step) == pc' = [pc EXCEPT ![c].step = step]
Done(c) == pc' = [pc EXCEPT ![c] = Idle]

\* Update and Delete: referential.Stop(); ReloadModel: its first call.
StopStep(c) ==
  /\ pc[c].op \in {"update", "delete", "reload"}
  /\ pc[c].step = "stop"
  /\ StopRef(pc[c].r)
  /\ Then(c, CASE pc[c].op = "update" -> "save"
               [] pc[c].op = "delete" -> "delete"
               [] pc[c].op = "reload" -> "start")
  /\ UNCHANGED <<used, reg, slug, ops, db>>

\* Create and Update: SetDefinition(apiReferential), then Save(): the id
\* goes (back) into byId.
SaveStep(c) ==
  LET r == pc[c].r IN
  /\ pc[c].op \in {"create", "update"}
  /\ pc[c].step = "save"
  /\ slug' = [slug EXCEPT ![r] = pc[c].s]
  /\ reg' = reg \union {r}
  /\ Then(c, "start")
  /\ UNCHANGED <<used, cur, leaked, ops, db>>

\* Create, Update: referential.Start(); ReloadModel: model.Reload,
\* setNextReloadAt, Start.
StartStep(c) ==
  /\ pc[c].op \in {"create", "update", "reload"}
  /\ pc[c].step = "start"
  /\ StartRef(pc[c].r)
  /\ Done(c)
  /\ UNCHANGED <<used, reg, slug, ops, db>>

\* Delete: CurrentReferentials().Delete(referential).
DeleteStep(c) ==
  /\ At(c, "delete", "delete")
  /\ reg' = reg \ {pc[c].r}
  /\ Done(c)
  /\ UNCHANGED <<used, slug, cur, leaked, ops, db>>

(***************************************************************************)
(* Persistence: SaveToDatabase, and a restart of the process.             *)
(***************************************************************************)
\* The rows newDbReferential builds from byId.
Rows == {<<r, slug[r]>> : r \in reg}

\* ReferentialController.Save, a request of its own goroutine that runs
\* between any two steps of the other handlers: a database error at Begin,
\* truncate, an Insert or Commit rolls back and answers 500 with the
\* table as it was; otherwise the table is byId.
SaveToDatabase ==
  /\ ops < MaxOps
  /\ ops' = ops + 1
  /\ \/ db' = Rows
     \/ UNCHANGED db
  /\ UNCHANGED <<used, reg, slug, cur, leaked, pc>>

\* MemoryReferentials.Start at boot: Start every referential of byId.
BootStart(loaded) == [r \in Refs |-> r \in loaded]

\* The process stops (requests in flight and every running component die
\* with it) and boots: MemoryReferentials.Load builds, for each row, a
\* referential with New(slug), gives it the row's id and Saves it (no
\* Validate), then MemoryReferentials.Start starts them all.
Restart ==
  LET loaded == {row[1] : row \in db} IN
  /\ ops < MaxOps
  /\ ops' = ops + 1
  /\ reg' = loaded
  /\ slug' = [r \in Refs |-> IF r \in loaded
                               THEN CHOOSE s \in Slugs : <<r, s>> \in db
                               ELSE slug[r]]
  /\ cur' = BootStart(loaded)
  /\ leaked' = [r \in Refs |-> 0]
  /\ pc' = [c \in Clients |-> Idle]
  /\ UNCHANGED <<used, db>>

Init ==
  /\ used = {}
  /\ reg = {}
  /\ slug = [r \in Refs |-> ""]
  /\ cur = [r \in Refs |-> FALSE]
  /\ leaked = [r \in Refs |-> 0]
  /\ pc = [c \in Clients |-> Idle]
  /\ ops = 0
  /\ db = {}

Next ==
  \/ \E c \in Clients :
       \/ Begin(c)
       \/ StopStep(c)
       \/ SaveStep(c)
       \/ StartStep(c)
       \/ DeleteStep(c)
  \/ SaveToDatabase
  \/ Restart

Spec == Init /\ [][Next]_vars

(***************************************************************************)
(* Properties                                                              *)
(***************************************************************************)

TypeOK ==
  /\ used \subseteq Refs /\ reg \subseteq used
  /\ slug \in [Refs -> Slugs \union {""}]
  /\ cur \in [Refs -> BOOLEAN]
  /\ leaked \in [Refs -> Nat]
  /\ \A c \in Clients : pc[c].op \in {"idle", "create", "update", "delete", "reload"}
  /\ ops \in 0..MaxOps
  /\ db \subseteq used \X Slugs

\* No request is part-way through a handler on r.
Quiet(r) == \A c \in Clients : pc[c].r # r

(* Spec 2: a referential's slug is unique.  Validate checks it against the *)
(* registry before SetDefinition and Save write it, with no lock held.    *)
SlugUnique == \A r1, r2 \in reg : r1 # r2 => slug[r1] # slug[r2]

(* Between requests, a referential runs exactly when it is registered:    *)
(* Create starts what it saved, Delete stops what it removes, Update and  *)
(* reload restart it.                                                      *)
RunningIffRegistered ==
  \A r \in used : Quiet(r) => (cur[r] <=> r \in reg)

(* Spec 4.J/5: tearing down a referential tears down its broadcasters; no *)
(* BroadcastManager is left running after Start replaced it.              *)
NoLeakedManager == \A r \in Refs : leaked[r] = 0

=============================================================================
