-------------------------- MODULE FunctionsProofs --------------------------
(***************************************************************************)
(* For any number of builds, requests, commits and crashes: the SourceRef  *)
(* on record has its blob on disk unless a client made it up, and builds   *)
(* deploy in commit order.  The first needs the same of every copy a       *)
(* request may still write back; the second that the channel of capacity 1 *)
(* excludes, and that a build past its clone holds a commit no older than  *)
(* the last one deployed.                                                  *)
(***************************************************************************)
EXTENDS FunctionBuilds, TLAPS

OnDisk(c) == blobs[c] # "absent"

Known(c) == OnDisk(c) \/ c \in named

BlobInv ==
    /\ RefHasBlob
    /\ \A q \in Requests : have[q].src # 0 => Known(have[q].src)
    /\ \A t \in Threads : at[t] \in {"write", "deploy", "save"} => OnDisk(code[t])

Cloned == {"sandbox", "blob", "open", "write", "deploy"}

SlotInv ==
    /\ \A b \in Builds : at[b] \in Held => queued = 1
    /\ \A a, b \in Builds : at[a] \in Held /\ at[b] \in Held => a = b
    /\ last <= head
    /\ \A b \in Builds : at[b] \in Cloned => last <= code[b] /\ code[b] <= head

-----------------------------------------------------------------------------
(* Types. *)

LEMMA Disjoint == \A b \in Builds : b \notin Requests
  BY FunctionsAssumption DEF Builds, Requests

LEMMA NewTypes == NewFn \in Fn /\ NewFn.src = 0 /\ 0 \in Codes /\ Uploaded \in Codes
  BY FunctionsAssumption DEF NewFn, Fn, Codes, Uploaded

LEMMA InitTypes == BuildsInit => BuildsTypeOK
<1>. SUFFICES ASSUME BuildsInit PROVE BuildsTypeOK
  OBVIOUS
<1>1. 1 \in 1 .. MaxCommits
  BY FunctionsAssumption
<1>. QED
  BY <1>1, NewTypes, Disjoint, FunctionsAssumption DEF BuildsInit, BuildsTypeOK, Threads, BuildPCs, ReqPCs

\* What the actions builds and requests share do to the types.
LEMMA SharedTypes ==
    ASSUME BuildsTypeOK, NEW t \in Threads, BlobStat(t) \/ BlobOpen(t) \/ BlobWrite(t) \/ Deploy(t)
    PROVE  BuildsTypeOK'
<1>. USE Disjoint, FunctionsAssumption DEF BuildsTypeOK, Fine, Err, Move, BuildPCs, ReqPCs
<1>1. CASE BlobStat(t)
  BY <1>1 DEF BlobStat, Threads
<1>2. CASE BlobOpen(t)
  BY <1>2 DEF BlobOpen, Threads
<1>3. CASE BlobWrite(t)
  <2>1. CASE UNCHANGED <<have, code>>
    BY <1>3, <2>1 DEF BlobWrite, GiveUp, Return, Threads
  <2>2. CASE ~UNCHANGED <<have, code>>
    BY <1>3, <2>2, NewTypes DEF BlobWrite, GiveUp, Return, Threads
  <2>. QED BY <2>1, <2>2
<1>4. CASE Deploy(t)
  <2>1. CASE UNCHANGED <<have, code>>
    BY <1>4, <2>1 DEF Deploy, GiveUp, Return, Threads
  <2>2. CASE ~UNCHANGED <<have, code>>
    BY <1>4, <2>2, NewTypes DEF Deploy, GiveUp, Return, Threads
  <2>. QED BY <2>1, <2>2
<1>. QED BY <1>1, <1>2, <1>3, <1>4

LEMMA BuildTypes ==
    ASSUME BuildsTypeOK, NEW b \in Builds, TriggerBuild(b) \/ BuildStep(b)
    PROVE  BuildsTypeOK'
<1>. USE Disjoint, FunctionsAssumption DEF BuildsTypeOK, Fine, Err, Move, BuildPCs, ReqPCs, Threads
<1>1. CASE TriggerBuild(b)
  BY <1>1 DEF TriggerBuild, Trigger
<1>2. CASE RunStart(b)
  BY <1>2 DEF RunStart, PutBuild
<1>3. CASE Acquire(b)
  BY <1>3 DEF Acquire
<1>4. CASE Clone(b)
  <2>1. head \in Codes
    BY DEF Codes
  <2>. QED BY <1>4, <2>1 DEF Clone
<1>5. CASE Sandbox(b)
  BY <1>5 DEF Sandbox
<1>6. CASE BlobStat(b) \/ BlobOpen(b) \/ BlobWrite(b) \/ Deploy(b)
  BY <1>6, SharedTypes
<1>7. CASE SaveFunction(b)
  <2>1. code[b] \in Codes /\ b \in 0 .. MaxBuilds
    BY DEF Builds
  <2>2. [src |-> code[b], latest |-> b] \in Fn
    BY <2>1 DEF Fn
  <2>. QED BY <1>7, <2>2 DEF SaveFunction
<1>8. CASE Succeed(b) \/ FailBuild(b)
  BY <1>8 DEF Succeed, FailBuild, PutBuild
<1>9. CASE Cleanup(b) \/ Release(b)
  BY <1>9, NewTypes DEF Cleanup, Release
<1>. QED
  BY <1>1, <1>2, <1>3, <1>4, <1>5, <1>6, <1>7, <1>8, <1>9 DEF BuildStep

LEMMA RequestTypes ==
    ASSUME BuildsTypeOK, NEW r \in Requests, Call(r) \/ Handle(r)
    PROVE  BuildsTypeOK'
<1>. USE Disjoint, FunctionsAssumption DEF BuildsTypeOK, Fine, Err, Move, BuildPCs, ReqPCs, Threads
<1>1. /\ \A s \in Codes : [NewFn EXCEPT !.src = s] \in Fn
      /\ \A s \in Codes, f \in Fn : [f EXCEPT !.src = s] \in Fn
  BY NewTypes DEF Fn
<1>2. CASE CreatePut(r)
  <2>1. PICK s \in Sent \cup {0} : Names(s) /\ fn' = [NewFn EXCEPT !.src = s]
    BY <1>2 DEF CreatePut
  <2>2. s \in Codes
    BY NewTypes
  <2>3. fn' \in Fn /\ named' \subseteq Codes
    BY <1>1, <2>1, <2>2 DEF Names
  <2>. QED BY <1>2, <2>3 DEF CreatePut
<1>3. CASE CreateTrigger(r)
  BY <1>3 DEF CreateTrigger, Trigger
<1>4. CASE ClientGet(r)
  <2>1. named' \subseteq Codes
    BY <1>4 DEF ClientGet, Names
  <2>2. have' \in [Requests -> Fn]
    BY <1>1, <1>4 DEF ClientGet
  <2>. QED BY <1>4, <2>1, <2>2 DEF ClientGet
<1>5. CASE UpdateGet(r)
  <2>. DEFINE m == [src |-> IF have[r].src = 0 THEN fn.src ELSE have[r].src,
                    latest |-> IF have[r].latest = 0 THEN fn.latest ELSE have[r].latest]
  <2>1. fn # NoFn => m \in Fn
    BY DEF Fn
  <2>. QED BY <1>5, <2>1 DEF UpdateGet
<1>6. CASE UpdatePut(r)
  BY <1>6, NewTypes DEF UpdatePut, Return
<1>7. CASE UploadGet(r)
  BY <1>7, NewTypes DEF UploadGet
<1>8. CASE UploadPut(r)
  <2>1. [have[r] EXCEPT !.src = code[r]] \in Fn
    BY DEF Fn
  <2>. QED BY <1>8, <2>1, NewTypes DEF UploadPut, Return
<1>9. CASE DeleteGet(r) \/ DeleteRemove(r) \/ DeletePut(r)
  BY <1>9, NewTypes DEF DeleteGet, DeleteRemove, DeletePut, Return
<1>10. CASE BlobStat(r) \/ BlobOpen(r) \/ BlobWrite(r) \/ Deploy(r)
  BY <1>10, SharedTypes
<1>. QED
  BY <1>2, <1>3, <1>4, <1>5, <1>6, <1>7, <1>8, <1>9, <1>10 DEF Call, Handle

LEMMA NextTypes == BuildsTypeOK /\ [BuildsNext]_buildVars => BuildsTypeOK'
<1>. SUFFICES ASSUME BuildsTypeOK, [BuildsNext]_buildVars PROVE BuildsTypeOK'
  OBVIOUS
<1>1. CASE Push
  BY <1>1, FunctionsAssumption DEF Push, BuildsTypeOK
<1>2. CASE Die
  <2>1. served' \in Codes
    BY <1>2, FunctionsAssumption DEF Die, Rehydrated, BuildsTypeOK, Fn, Codes
  <2>2. /\ at' \in [Threads -> BuildPCs \cup ReqPCs]
        /\ \A b \in Builds : at'[b] \in BuildPCs
        /\ \A r \in Requests : at'[r] \in ReqPCs
    BY <1>2, Disjoint DEF Die, BuildsTypeOK, Threads, BuildPCs, ReqPCs
  <2>. QED
    BY <1>2, <2>1, <2>2, NewTypes, FunctionsAssumption DEF Die, Err, BuildsTypeOK
<1>3. CASE UNCHANGED buildVars
  BY <1>3 DEF buildVars, BuildsTypeOK
<1>. QED
  BY <1>1, <1>2, <1>3, BuildTypes, RequestTypes DEF BuildsNext

\* Every reachable state is well typed; the function's channel never holds
\* more than its one token (runner.go:405-424).
THEOREM FunctionTypes == BuildsSpec => []BuildsTypeOK
  BY InitTypes, NextTypes, PTL DEF BuildsSpec

-----------------------------------------------------------------------------
(* Blobs. *)

\* One statement covers every step: no file and no name disappears, every new
\* record or copy is of a code that was known, and whoever moves on to write,
\* deploy or save has its file.
LEMMA BlobKept ==
    ASSUME BuildsTypeOK, BuildsTypeOK', BlobInv,
           \A c \in Codes : OnDisk(c) => OnDisk(c)',
           named \subseteq named',
           fn' # NoFn /\ fn'.src # 0 => Known(fn'.src) \/ fn'.src \in named',
           \A q \in Requests : have'[q].src # 0 => Known(have'[q].src) \/ have'[q].src \in named',
           \A t \in Threads : at'[t] \in {"write", "deploy", "save"} => OnDisk(code[t])'
    PROVE  BlobInv'
<1>1. fn' # NoFn => fn'.src \in Codes
  BY DEF BuildsTypeOK, Fn
<1>2. \A q \in Requests : have'[q].src \in Codes
  BY DEF BuildsTypeOK, Fn
<1>3. RefHasBlob'
  BY <1>1 DEF RefHasBlob, OnDisk, Known
<1>4. \A q \in Requests : have'[q].src # 0 => Known(have[q].src)'
  BY <1>2 DEF OnDisk, Known
<1>. QED
  BY <1>3, <1>4 DEF BlobInv

\* A step that leaves the blobs alone and moves nobody on to write, deploy, save.
LEMMA BlobStill ==
    ASSUME BuildsTypeOK, BuildsTypeOK', BlobInv, blobs' = blobs, named \subseteq named',
           fn' # NoFn /\ fn'.src # 0 => Known(fn'.src) \/ fn'.src \in named',
           \A q \in Requests : have'[q].src # 0 => Known(have'[q].src) \/ have'[q].src \in named',
           \A t \in Threads : at'[t] \in {"write", "deploy", "save"} =>
                              at'[t] = at[t] /\ code'[t] = code[t]
    PROVE  BlobInv'
<1>1. \A t \in Threads : at'[t] \in {"write", "deploy", "save"} => OnDisk(code[t])'
  BY DEF BlobInv, OnDisk
<1>. QED BY <1>1, BlobKept DEF OnDisk

\* The record and the copies were known.
LEMMA WereKnown ==
    ASSUME BlobInv
    PROVE  /\ fn # NoFn /\ fn.src # 0 => Known(fn.src)
           /\ \A q \in Requests : have[q].src # 0 => Known(have[q].src)
  BY DEF BlobInv, RefHasBlob, Known, OnDisk

LEMMA SharedBlobs ==
    ASSUME BuildsTypeOK, BuildsTypeOK', BlobInv, NEW t \in Threads,
           BlobStat(t) \/ BlobOpen(t) \/ BlobWrite(t) \/ Deploy(t)
    PROVE  BlobInv'
<1>1. /\ fn' = fn /\ named' = named
      /\ \A u \in Threads : u # t => at'[u] = at[u] /\ code'[u] = code[u]
  BY DEF BlobStat, BlobOpen, BlobWrite, Deploy, GiveUp, Return, Move, BuildsTypeOK
<1>2. \A q \in Requests : have'[q].src = have[q].src \/ have'[q].src = 0
  BY NewTypes DEF BlobStat, BlobOpen, BlobWrite, Deploy, GiveUp, Return, BuildsTypeOK
<1>3. /\ \A c \in Codes : OnDisk(c) => OnDisk(c)'
      /\ at'[t] \in {"write", "deploy", "save"} => code'[t] = code[t] /\ OnDisk(code[t])'
  BY DEF BlobStat, BlobOpen, BlobWrite, Deploy, GiveUp, Return, Move, BuildsTypeOK, OnDisk,
         BlobInv
<1>4. ASSUME NEW u \in Threads, at'[u] \in {"write", "deploy", "save"}
      PROVE  OnDisk(code[u])'
  <2>1. code[u] \in Codes
    BY DEF BuildsTypeOK
  <2>2. CASE u # t
    BY <1>1, <1>3, <1>4, <2>1, <2>2 DEF BlobInv, OnDisk
  <2>3. CASE u = t
    BY <1>3, <1>4, <2>3
  <2>. QED BY <2>2, <2>3
<1>. QED
  BY <1>1, <1>2, <1>3, <1>4, WereKnown, BlobKept

LEMMA BuildBlobs ==
    ASSUME BuildsTypeOK, BuildsTypeOK', BlobInv, NEW b \in Builds, TriggerBuild(b) \/ BuildStep(b)
    PROVE  BlobInv'
<1>. USE DEF Move
<1>0. b \in Threads /\ Builds \subseteq Threads
  BY DEF Threads
<1>1. CASE TriggerBuild(b) \/ RunStart(b) \/ Acquire(b) \/ Clone(b) \/ Sandbox(b) \/ Succeed(b)
           \/ FailBuild(b) \/ Cleanup(b) \/ Release(b)
  <2>1. /\ fn' = fn /\ blobs' = blobs /\ have' = have /\ named' = named
        /\ \E l \in BuildPCs \ {"write", "deploy", "save"} : at' = [at EXCEPT ![b] = l]
        /\ \A t \in Threads : t # b => code'[t] = code[t]
    BY <1>1 DEF TriggerBuild, RunStart, Acquire, Clone, Sandbox, Succeed, FailBuild, Cleanup,
                Release, BuildPCs, BuildsTypeOK
  <2>2. \A t \in Threads : at'[t] \in {"write", "deploy", "save"} =>
                           at'[t] = at[t] /\ code'[t] = code[t]
    BY <1>0, <2>1 DEF BuildsTypeOK
  <2>. QED BY <2>1, <2>2, WereKnown, BlobStill
<1>2. CASE BlobStat(b) \/ BlobOpen(b) \/ BlobWrite(b) \/ Deploy(b)
  BY <1>0, <1>2, SharedBlobs
<1>3. CASE SaveFunction(b)
  <2>1. /\ fn' = fn \/ fn' = [src |-> code[b], latest |-> b]
        /\ blobs' = blobs /\ code' = code /\ have' = have /\ named' = named
        /\ at[b] = "save" /\ at' = [at EXCEPT ![b] = "succeed"]
    BY <1>3 DEF SaveFunction
  <2>2. Known(code[b])
    BY <1>0, <2>1 DEF BlobInv, Known
  <2>3. fn' # NoFn /\ fn'.src # 0 => Known(fn'.src)
    BY <2>1, <2>2, WereKnown
  <2>4. \A t \in Threads : at'[t] \in {"write", "deploy", "save"} => at'[t] = at[t]
    BY <1>0, <2>1 DEF BuildsTypeOK
  <2>. QED BY <2>1, <2>3, <2>4, WereKnown, BlobStill
<1>. QED
  BY <1>1, <1>2, <1>3 DEF BuildStep

\* What a body names is known from then on.
LEMMA NamedKnown ==
    ASSUME NEW c \in Codes, Names(c)
    PROVE  named \subseteq named' /\ (c # 0 => Known(c) \/ c \in named')
  BY DEF Names, Known, OnDisk

LEMMA RequestBlobs ==
    ASSUME BuildsTypeOK, BuildsTypeOK', BlobInv, NEW r \in Requests, Call(r) \/ Handle(r)
    PROVE  BlobInv'
<1>. USE DEF Move
<1>0. r \in Threads /\ Requests \subseteq Threads
  BY DEF Threads
<1>. DEFINE Calm == \A t \in Threads : at'[t] \in {"write", "deploy", "save"} =>
                                       at'[t] = at[t] /\ code'[t] = code[t]
<1>1. CASE CreatePut(r)
  <2>1. PICK s \in Sent \cup {0} : Names(s) /\ fn' = [NewFn EXCEPT !.src = s]
    BY <1>1 DEF CreatePut
  <2>2. s \in Codes /\ fn'.src = s
    BY <2>1, NewTypes, FunctionsAssumption DEF NewFn
  <2>3. Calm /\ blobs' = blobs /\ have' = have
    BY <1>0, <1>1 DEF CreatePut, BuildsTypeOK
  <2>. QED BY <2>1, <2>2, <2>3, NamedKnown, WereKnown, BlobStill
<1>2. CASE CreateTrigger(r)
  <2>1. /\ fn' = fn /\ blobs' = blobs /\ code' = code /\ have' = have /\ named' = named
        /\ \A t \in Threads : at'[t] \in {at[t], "over", "start"}
    BY <1>0, <1>2 DEF CreateTrigger, Trigger, BuildsTypeOK, Threads
  <2>. QED BY <2>1, WereKnown, BlobStill
<1>3. CASE ClientGet(r)
  <2>1. Calm /\ blobs' = blobs /\ fn' = fn /\ fn # NoFn
    BY <1>0, <1>3 DEF ClientGet, BuildsTypeOK
  <2>2. CASE have' = [have EXCEPT ![r] = fn] /\ named' = named
    <3>1. \A q \in Requests : have'[q] \in {have[q], fn}
      BY <2>2 DEF BuildsTypeOK
    <3>. QED BY <2>1, <2>2, <3>1, WereKnown, BlobStill
  <2>3. ASSUME NEW s \in Sent, Names(s), have' = [have EXCEPT ![r] = [fn EXCEPT !.src = s]]
        PROVE  BlobInv'
    <3>1. s \in Codes /\ [fn EXCEPT !.src = s].src = s
      BY <2>1, FunctionsAssumption DEF BuildsTypeOK, Fn
    <3>2. \A q \in Requests : have'[q] = have[q] \/ have'[q].src = s
      BY <2>3, <3>1 DEF BuildsTypeOK
    <3>. QED BY <2>1, <2>3, <3>1, <3>2, NamedKnown, WereKnown, BlobStill
  <2>. QED BY <1>3, <2>2, <2>3 DEF ClientGet
<1>4. CASE UpdateGet(r)
  <2>1. /\ fn' = fn /\ blobs' = blobs /\ Calm /\ named' = named
        /\ \A q \in Requests : q # r => have'[q] = have[q]
    BY <1>0, <1>4 DEF UpdateGet, BuildsTypeOK
  <2>2. have'[r].src = have[r].src \/ (fn # NoFn /\ have'[r].src = fn.src)
    <3>1. CASE fn = NoFn
      BY <1>4, <3>1 DEF UpdateGet
    <3>2. CASE fn # NoFn
      <4>1. have'[r] = [src |-> IF have[r].src = 0 THEN fn.src ELSE have[r].src,
                      latest |-> IF have[r].latest = 0 THEN fn.latest ELSE have[r].latest]
        BY <1>4, <3>2 DEF UpdateGet, BuildsTypeOK
      <4>. QED BY <3>2, <4>1
    <3>. QED BY <3>1, <3>2
  <2>. QED BY <2>1, <2>2, WereKnown, BlobStill
<1>5. CASE UpdatePut(r)
  <2>1. /\ fn' \in {fn, have[r]} /\ blobs' = blobs /\ Calm /\ named' = named
        /\ \A q \in Requests : have'[q] \in {have[q], NewFn}
    BY <1>0, <1>5 DEF UpdatePut, Return, BuildsTypeOK
  <2>. QED BY <2>1, NewTypes, WereKnown, BlobStill
<1>6. CASE UploadGet(r)
  <2>1. /\ fn' = fn /\ blobs' = blobs /\ fn # NoFn /\ Calm /\ named' = named
        /\ \A q \in Requests : have'[q] \in {have[q], fn}
    BY <1>0, <1>6 DEF UploadGet, BuildsTypeOK
  <2>. QED BY <2>1, WereKnown, BlobStill
<1>7. CASE UploadPut(r)
  <2>1. /\ fn' = fn \/ fn' = [have[r] EXCEPT !.src = code[r]]
        /\ blobs' = blobs /\ Calm /\ at[r] = "save" /\ named' = named
        /\ \A q \in Requests : have'[q] \in {have[q], NewFn}
    BY <1>0, <1>7 DEF UploadPut, Return, BuildsTypeOK
  <2>2. [have[r] EXCEPT !.src = code[r]].src = code[r] /\ Known(code[r])
    BY <1>0, <2>1 DEF BuildsTypeOK, Fn, BlobInv, Known
  <2>3. fn' # NoFn /\ fn'.src # 0 => Known(fn'.src)
    BY <2>1, <2>2, WereKnown
  <2>. QED BY <2>1, <2>3, NewTypes, WereKnown, BlobStill
<1>8. CASE DeleteGet(r) \/ DeleteRemove(r) \/ DeletePut(r)
  <2>1. /\ fn' \in {fn, NoFn} /\ blobs' = blobs /\ Calm /\ named' = named
        /\ \A q \in Requests : have'[q] \in {have[q], NewFn}
    BY <1>0, <1>8 DEF DeleteGet, DeleteRemove, DeletePut, Return, BuildsTypeOK
  <2>. QED BY <2>1, NewTypes, WereKnown, BlobStill
<1>9. CASE BlobStat(r) \/ BlobOpen(r) \/ BlobWrite(r) \/ Deploy(r)
  BY <1>0, <1>9, SharedBlobs
<1>. QED
  BY <1>1, <1>2, <1>3, <1>4, <1>5, <1>6, <1>7, <1>8, <1>9 DEF Call, Handle

LEMMA NextBlobs == BuildsTypeOK /\ BlobInv /\ [BuildsNext]_buildVars => BlobInv'
<1>. SUFFICES ASSUME BuildsTypeOK, BlobInv, [BuildsNext]_buildVars PROVE BlobInv'
  OBVIOUS
<1>0. BuildsTypeOK'
  BY NextTypes
<1>1. CASE Push
  BY <1>1 DEF Push, BlobInv, RefHasBlob, OnDisk, Known
<1>2. CASE Die
  <2>1. /\ fn' = fn /\ blobs' = blobs /\ named' = named
        /\ \A q \in Requests : have'[q] = NewFn
    BY <1>2 DEF Die
  <2>2. \A t \in Threads : at'[t] \in {"off", "idle", "over", "done"}
    BY <1>2 DEF Die
  <2>. QED BY <1>0, <2>1, <2>2, NewTypes, WereKnown, BlobStill
<1>3. CASE UNCHANGED buildVars
  BY <1>3 DEF buildVars, BlobInv, RefHasBlob, OnDisk, Known
<1>. QED
  BY <1>0, <1>1, <1>2, <1>3, BuildBlobs, RequestBlobs DEF BuildsNext

\* A SourceRef on record always has its blob on disk, or a client made it up,
\* whatever builds, uploads, updates and crashes interleave
\* (runner.go:204-230, handlers.go:553-608, 671-694).
THEOREM RefHasBlobHolds == BuildsSpec => []RefHasBlob
<1>1. ASSUME BuildsInit PROVE BlobInv
  <2>1. \A t \in Threads : at[t] \in {"off", "idle"}
    BY <1>1 DEF BuildsInit
  <2>2. fn = NoFn /\ \A q \in Requests : have[q] = NewFn
    BY <1>1 DEF BuildsInit
  <2>. QED BY <2>1, <2>2, NewTypes DEF BlobInv, RefHasBlob
<1>2. BlobInv => RefHasBlob
  BY DEF BlobInv
<1>. QED
  BY <1>1, <1>2, InitTypes, NextTypes, NextBlobs, PTL DEF BuildsSpec

-----------------------------------------------------------------------------
(* Commit order. *)

\* A step of build b within its turn: it holds the slot before, and the slot
\* stays with it unless it gives it back.
LEMMA TurnSlot ==
    ASSUME BuildsTypeOK, BuildsTypeOK', SlotInv, NEW b \in Builds, at[b] \in Held,
           head' = head, last' = last,
           \A a \in Builds : a # b => at'[a] = at[a],
           at'[b] \in Held => queued' = queued,
           at'[b] \in Cloned => last <= code'[b] /\ code'[b] <= head
    PROVE  SlotInv'
<1>1. \A a \in Builds : a # b => at[a] \notin Held
  BY DEF SlotInv
<1>2. Cloned \subseteq Held
  BY DEF Cloned, Held
<1>. QED
  BY <1>1, <1>2 DEF SlotInv

\* A step that leaves every build where it is, or moves builds outside their turn.
LEMMA ElsewhereSlot ==
    ASSUME BuildsTypeOK, BuildsTypeOK', SlotInv, head' = head, last' = last, queued' = queued,
           \A a \in Builds : at'[a] \in Held => at'[a] = at[a] /\ code'[a] = code[a]
    PROVE  SlotInv'
<1>1. Cloned \subseteq Held
  BY DEF Cloned, Held
<1>. QED
  BY <1>1 DEF SlotInv

LEMMA DeploySlot ==
    ASSUME BuildsTypeOK, BuildsTypeOK', SlotInv, NEW b \in Builds, Deploy(b)
    PROVE  SlotInv' /\ last' >= last
<1>0. b \in Threads /\ Builds \subseteq Threads
  BY DEF Threads
<1>1. /\ last <= code[b] /\ code[b] <= head /\ queued = 1
      /\ \A a \in Builds : a # b => at[a] \notin Held
  BY DEF Deploy, SlotInv, Cloned, Held
<1>2. /\ last' \in {last, code[b]} /\ head' = head /\ queued' = queued
      /\ \A a \in Builds : a # b => at'[a] = at[a]
      /\ at'[b] \notin Cloned
  BY <1>0, Disjoint DEF Deploy, GiveUp, Move, BuildsTypeOK, Cloned
<1>3. last \in Nat /\ code[b] \in Nat /\ head \in Nat
  BY <1>0, FunctionsAssumption DEF BuildsTypeOK, Codes
<1>4. Cloned \subseteq Held
  BY DEF Cloned, Held
<1>. QED
  BY <1>1, <1>2, <1>3, <1>4 DEF SlotInv

LEMMA BuildSlot ==
    ASSUME BuildsTypeOK, BuildsTypeOK', SlotInv, NEW b \in Builds, TriggerBuild(b) \/ BuildStep(b)
    PROVE  SlotInv' /\ last' >= last
<1>. USE DEF Move
<1>0. /\ b \in Threads /\ Builds \subseteq Threads
      /\ last \in Nat /\ head \in Nat /\ \A a \in Builds : code[a] \in Nat
  BY FunctionsAssumption DEF Threads, BuildsTypeOK, Codes
<1>1. CASE TriggerBuild(b) \/ RunStart(b)
  <2>1. /\ head' = head /\ last' = last /\ queued' = queued /\ code' = code
        /\ \E l \in {"start", "wait"} : at' = [at EXCEPT ![b] = l]
    BY <1>1 DEF TriggerBuild, RunStart
  <2>2. \A a \in Builds : at'[a] \in Held => at'[a] = at[a]
    BY <1>0, <2>1 DEF BuildsTypeOK, Held
  <2>. QED BY <1>0, <2>1, <2>2, ElsewhereSlot
<1>2. CASE Acquire(b)
  <2>1. /\ head' = head /\ last' = last /\ queued = 0 /\ queued' = 1 /\ code' = code
        /\ at' = [at EXCEPT ![b] = "clone"]
    BY <1>2 DEF Acquire, BuildsTypeOK
  <2>2. \A a \in Builds : at[a] \notin Held /\ at[a] \notin Cloned
    BY <2>1 DEF SlotInv, Held, Cloned
  <2>3. /\ \A a \in Builds : a # b => at'[a] \notin Held /\ at'[a] \notin Cloned
        /\ at'[b] = "clone"
    BY <1>0, <2>1, <2>2 DEF BuildsTypeOK
  <2>. QED BY <1>0, <2>1, <2>3 DEF SlotInv, Cloned
<1>3. CASE Clone(b)
  <2>1. /\ head' = head /\ last' = last /\ queued' = queued /\ at[b] \in Held
        /\ \A a \in Builds : a # b => at'[a] = at[a]
        /\ at'[b] = "fail" \/ (at'[b] = "sandbox" /\ code'[b] = head)
    BY <1>0, <1>3 DEF Clone, BuildsTypeOK, Held
  <2>2. at'[b] \in Cloned => last <= code'[b] /\ code'[b] <= head
    BY <1>0, <2>1 DEF Cloned, SlotInv
  <2>. QED BY <1>0, <2>1, <2>2, TurnSlot
<1>4. CASE Sandbox(b) \/ BlobStat(b) \/ BlobOpen(b) \/ BlobWrite(b)
  <2>1. /\ head' = head /\ last' = last /\ queued' = queued /\ code' = code
        /\ \A a \in Builds : a # b => at'[a] = at[a]
        /\ at[b] \in {"sandbox", "blob", "open", "write"}
    BY <1>0, <1>4, Disjoint DEF Sandbox, BlobStat, BlobOpen, BlobWrite, GiveUp, BuildsTypeOK
  <2>2. at[b] \in Held /\ last <= code[b] /\ code[b] <= head
    BY <2>1 DEF Held, SlotInv, Cloned
  <2>. QED BY <1>0, <2>1, <2>2, TurnSlot
<1>5. CASE Deploy(b)
  BY <1>5, DeploySlot
<1>6. CASE SaveFunction(b) \/ Succeed(b) \/ FailBuild(b) \/ Cleanup(b)
  <2>1. /\ head' = head /\ last' = last /\ queued' = queued
        /\ \A a \in Builds : a # b => at'[a] = at[a]
        /\ at[b] \in {"save", "succeed", "fail", "cleanup"}
        /\ at'[b] \in {"succeed", "cleanup", "release"}
    BY <1>0, <1>6 DEF SaveFunction, Succeed, FailBuild, Cleanup, BuildsTypeOK
  <2>. QED BY <1>0, <2>1, TurnSlot DEF Held, Cloned
<1>7. CASE Release(b)
  <2>1. /\ head' = head /\ last' = last /\ at[b] = "release" /\ at'[b] = "done"
        /\ \A a \in Builds : a # b => at'[a] = at[a]
    BY <1>0, <1>7 DEF Release, BuildsTypeOK
  <2>. QED BY <1>0, <2>1, TurnSlot DEF Held, Cloned
<1>. QED
  BY <1>1, <1>2, <1>3, <1>4, <1>5, <1>6, <1>7 DEF BuildStep

LEMMA RequestSlot ==
    ASSUME BuildsTypeOK, BuildsTypeOK', SlotInv, NEW r \in Requests, Call(r) \/ Handle(r)
    PROVE  SlotInv' /\ last' >= last
<1>. USE DEF Move
<1>0. /\ Builds \subseteq Threads /\ last \in Nat /\ r \in Threads /\ r \notin Builds
  BY Disjoint, FunctionsAssumption DEF Threads, BuildsTypeOK, Codes
<1>1. /\ head' = head /\ last' = last /\ queued' = queued
      /\ \A b \in Builds : code'[b] = code[b]
  <2>1. CASE Call(r)
    BY <1>0, <2>1 DEF Call, CreatePut, ClientGet, UploadGet, DeleteGet, BuildsTypeOK
  <2>2. CASE Handle(r)
    BY <1>0, <2>2 DEF Handle, CreateTrigger, UpdateGet, UpdatePut, BlobStat, BlobOpen,
                      BlobWrite, Deploy, GiveUp, Return, UploadPut, DeleteRemove, DeletePut,
                      BuildsTypeOK
  <2>. QED BY <2>1, <2>2
<1>2. \A b \in Builds : at'[b] \in {at[b], "start"}
  <2>1. CASE CreateTrigger(r)
    BY <1>0, <2>1 DEF CreateTrigger, BuildsTypeOK
  <2>2. CASE Call(r)
    BY <1>0, <2>2 DEF Call, CreatePut, ClientGet, UploadGet, DeleteGet, BuildsTypeOK
  <2>3. CASE Handle(r) /\ ~CreateTrigger(r)
    BY <1>0, <2>3 DEF Handle, UpdateGet, UpdatePut, BlobStat, BlobOpen, BlobWrite,
                      Deploy, GiveUp, Return, UploadPut, DeleteRemove, DeletePut, BuildsTypeOK
  <2>. QED BY <2>1, <2>2, <2>3
<1>3. \A b \in Builds : at'[b] \in Held => at'[b] = at[b]
  BY <1>2 DEF Held
<1>. QED
  BY <1>0, <1>1, <1>3, ElsewhereSlot

LEMMA NextSlot == BuildsTypeOK /\ SlotInv /\ [BuildsNext]_buildVars => SlotInv' /\ last' >= last
<1>. SUFFICES ASSUME BuildsTypeOK, SlotInv, [BuildsNext]_buildVars PROVE SlotInv' /\ last' >= last
  OBVIOUS
<1>0. BuildsTypeOK' /\ last \in Nat /\ head \in Nat
  BY NextTypes, FunctionsAssumption DEF BuildsTypeOK, Codes
<1>1. CASE Push
  <2>1. \A b \in Builds : code[b] \in Nat
    BY FunctionsAssumption DEF BuildsTypeOK, Codes, Threads
  <2>. QED BY <1>0, <1>1, <2>1 DEF Push, SlotInv
<1>2. CASE Die
  <2>1. \A b \in Builds : at'[b] \in {"idle", "over", "off", "done"}
    BY <1>2 DEF Die, Threads
  <2>. QED BY <1>0, <1>2, <2>1 DEF Die, SlotInv, Held, Cloned
<1>3. CASE UNCHANGED buildVars
  BY <1>0, <1>3 DEF buildVars, SlotInv
<1>. QED
  BY <1>0, <1>1, <1>2, <1>3, BuildSlot, RequestSlot DEF BuildsNext

\* Whatever the number of builds and however they are scheduled, a build never
\* deploys an older commit than the build that deployed before it
\* (runner.go:154-223: the slot is taken before the clone, given back last).
THEOREM CodeNeverGoesBackHolds == BuildsSpec => CodeNeverGoesBack
<1>1. ASSUME BuildsInit PROVE SlotInv
  <2>1. \A b \in Builds : at[b] = "off"
    BY <1>1 DEF BuildsInit, Threads
  <2>. QED BY <1>1, <2>1 DEF BuildsInit, SlotInv, Held, Cloned
<1>2. BuildsTypeOK /\ SlotInv /\ [BuildsNext]_buildVars => [last' >= last]_buildVars
  BY NextSlot
<1>. QED
  BY <1>1, <1>2, InitTypes, NextTypes, NextSlot, PTL DEF BuildsSpec, CodeNeverGoesBack
=============================================================================
