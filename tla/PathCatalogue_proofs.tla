------------------------- MODULE PathCatalogue_proofs -------------------------
(***************************************************************************)
(* Proofs about PathCatalogue, for every set of requests, paths, keys and  *)
(* calls.                                                                  *)
(***************************************************************************)
EXTENDS PathCatalogue, TLAPS

-----------------------------------------------------------------------------
(* The inductive invariant *)

Writing == Topics \cup {"record", "commit"}

(* What the stage of a request says of its transaction and its aggregate.  *)
StageInv ==
  \A r \in Requests :
    /\ stage[r] \in {"save"} \cup Writing => code[r] # Null
    /\ stage[r] \in {"save"} \cup Topics => agg[r] # Null
    /\ tx[r].row # Null => stage[r] \in Writing
    /\ stage[r] \in Topics => tx[r].row # Null

(* A POST that got past InsertKey holds its key until it is answered. *)
KeyInv ==
  \A r \in Requests :
    /\ stage[r] \in {"find", "save"} \cup Writing /\ call[r].op = "define"
         => tx[r].key # Null
    /\ stage[r] \in {"insertKey", "replay", "record"} => call[r].op = "define"
    /\ stage[r] = "replay" =>
         call[r].key # Null /\ keys[call[r].key] # Null
    /\ tx[r].key # Null => stage[r] # "new" /\ call[r].key # Null

(* Purely functional facts *)

LEMMA BodyTypes ==
  ASSUME NEW c \in Call
  PROVE  /\ c.op \in Ops /\ c.path \in Paths /\ c.key \in Keys \cup {Null}
         /\ c.body \in Body
BY DEF Call

LEMMA OutcomeType ==
  ASSUME NEW c \in Call, NEW row \in Row \cup {Null}, Verdict(c, row) = Null
  PROVE  /\ Outcome(c, row) \in Aggregate
         /\ Outcome(c, row).status =
              IF c.op = "deactivate" THEN "DEACTIVATED" ELSE "ACTIVE"
<1>1. /\ c.body \in Body /\ c.op \in Ops
      /\ c.body.terms \in Terms /\ c.body.route \in Routes
      /\ c.body.cycle \in Nat
  BY CyclesAssumption DEF Call, Body
<1>2. /\ c.op # "define" => row \in Row
      /\ c.op = "revise" => row.status = "ACTIVE"
  BY CatalogueAssumption DEF Verdict, IsActive, Codes
<1>3. row \in Row => Rehydrate(row) \in Aggregate
  BY DEF Row, Rehydrate, Aggregate, FromInterval, NsPerMicrosecond
<1>4. CASE c.op = "define"
  BY <1>1, <1>4 DEF Outcome, Define, Aggregate, Statuses
<1>5. CASE c.op = "revise"
  BY <1>1, <1>2, <1>3, <1>5 DEF Outcome, Revise, Aggregate, Rehydrate
<1>6. CASE c.op = "deactivate"
  BY <1>1, <1>2, <1>3, <1>6 DEF Outcome, Deactivate, Aggregate, Statuses
<1>. QED  BY <1>1, <1>4, <1>5, <1>6 DEF Ops

LEMMA UpsertType ==
  ASSUME NEW old \in Row \cup {Null}, NEW a \in Aggregate
  PROVE  /\ Upsert(old, a) \in Row
         /\ Upsert(old, a).terms = a.terms
         /\ Upsert(old, a).status = a.status
         /\ Upsert(old, a).micros = ToInterval(a.cycle)
BY DEF Upsert, ToRow, Row, Aggregate, ToInterval, NsPerMicrosecond

LEMMA VerdictType ==
  ASSUME NEW c \in Call, NEW row \in Row \cup {Null}
  PROVE  Verdict(c, row) \in Codes \cup {Null}
BY DEF Verdict, Codes

LEMMA PayloadType ==
  ASSUME NEW op \in Ops, NEW a \in Aggregate
  PROVE  /\ EventPayload(op, a) \in Payload \cup {Null}
         /\ EventType(op) \in Types
         /\ SuccessCode(op) \in Codes
BY DEF EventPayload, Payload, Aggregate, EventType, Types, SuccessCode, Codes

-----------------------------------------------------------------------------
(* Type correctness *)

Inv1 == TypeOK /\ StageInv /\ KeyInv

LEMMA AnswerType ==
  ASSUME TypeOK, NEW r \in Requests, NEW c \in Codes, Answer(r, c)
  PROVE  /\ stage' \in [Requests -> Stages]
         /\ tx' \in [Requests -> WriteSet]
         /\ reply' \in [Requests -> Codes \cup {Null}]
         /\ stage[r] # "new" => \A q \in Requests : stage'[q] # "new" => stage[q] # "new"
BY DEF TypeOK, Answer, Goto, Stages, NoWrites, WriteSet

LEMMA SaveTypes ==
  ASSUME Inv1, NEW r \in Requests, Save(r)
  PROVE  paths[call[r].path] \in Row \cup {Null} /\ agg[r] \in Aggregate
<1>1. stage[r] = "save"
  BY DEF Save
<1>2. agg[r] \in Aggregate
  BY <1>1 DEF Inv1, TypeOK, StageInv
<1>3. call[r].path \in Paths
  BY <1>1, BodyTypes DEF Inv1, TypeOK
<1>. QED  BY <1>2, <1>3 DEF Inv1, TypeOK

LEMMA TypeInit == Init => TypeOK
BY DEF Init, TypeOK, Stages, NoWrites, WriteSet

LEMMA TypeStep == Inv1 /\ [Next]_vars => TypeOK'
<1> SUFFICES ASSUME Inv1, [Next]_vars PROVE TypeOK'
  OBVIOUS
<1> USE DEF Inv1
<1>1. ASSUME NEW r \in Requests, Arrive(r) PROVE TypeOK'
  <2>1. PICK c \in Calls :
          /\ call' = [call EXCEPT ![r] = c]
          /\ Goto(r, IF c.op = "define" THEN "insertKey" ELSE "find")
    BY <1>1 DEF Arrive
  <2>. QED
    BY <1>1, <2>1, CatalogueAssumption DEF Arrive, TypeOK, Goto, Stages, tables
<1>2. ASSUME NEW r \in Requests, RefuseMissingKey(r) PROVE TypeOK'
  <2>1. 400 \in Codes  BY DEF Codes
  <2>. QED
    BY <1>2, <2>1, AnswerType DEF RefuseMissingKey, TypeOK, tables
<1>3. ASSUME NEW r \in Requests, InsertKey(r) PROVE TypeOK'
  <2>1. RequestHash(r) \in Paths \X Body
    BY <1>3, BodyTypes DEF InsertKey, RequestHash, TypeOK
  <2>2. stage' \in [Requests -> Stages]
    BY <1>3 DEF InsertKey, TypeOK, Goto, Stages
  <2>3. tx' \in [Requests -> WriteSet]
    <3>1. [hash |-> RequestHash(r), status |-> Null] \in KeyRow
      BY <2>1 DEF KeyRow
    <3>2. [tx[r] EXCEPT !.key = [hash |-> RequestHash(r), status |-> Null]]
            \in WriteSet
      BY <3>1 DEF TypeOK, WriteSet
    <3>. QED  BY <3>2, <1>3 DEF InsertKey, TypeOK
  <2>. QED
    BY <1>3, <2>2, <2>3 DEF InsertKey, TypeOK, Goto, tables
<1>4. ASSUME NEW r \in Requests, Replay(r) PROVE TypeOK'
  <2>1. call[r] \in Call /\ call[r].key \in Keys
    BY <1>4, BodyTypes DEF Replay, TypeOK, KeyInv
  <2>2. ReplayCode(keys[call[r].key], RequestHash(r)) \in Codes
    BY <1>4, <2>1 DEF Replay, TypeOK, KeyInv, ReplayCode, KeyRow, Codes
  <2>. QED
    BY <1>4, <2>2, AnswerType DEF Replay, TypeOK, tables
<1>5. ASSUME NEW r \in Requests, FindAndStop(r) PROVE TypeOK'
  <2> DEFINE v == Verdict(call[r], paths[call[r].path])
  <2>1. v \in Codes
    BY <1>5, BodyTypes, VerdictType DEF FindAndStop, TypeOK
  <2>2. CASE call[r].op = "define"
    BY <1>5, <2>1, <2>2 DEF FindAndStop, TypeOK, Goto, Stages, tables
  <2>3. CASE call[r].op # "define"
    BY <1>5, <2>1, <2>3, AnswerType
    DEF FindAndStop, TypeOK, tables
  <2>. QED  BY <2>2, <2>3
<1>6. ASSUME NEW r \in Requests, FindAndChange(r) PROVE TypeOK'
  <2>1. Outcome(call[r], paths[call[r].path]) \in Aggregate
    BY <1>6, BodyTypes, OutcomeType DEF FindAndChange, TypeOK
  <2>2. SuccessCode(call[r].op) \in Codes
    BY DEF SuccessCode, Codes
  <2>. QED
    BY <1>6, <2>1, <2>2 DEF FindAndChange, TypeOK, Goto, Stages, tables
<1>7. ASSUME NEW r \in Requests, Save(r) PROVE TypeOK'
  <2>1. Upsert(paths[call[r].path], agg[r]) \in Row
    BY <1>7, SaveTypes, UpsertType
  <2>2. tx' \in [Requests -> WriteSet]
    BY <1>7, <2>1 DEF Save, TypeOK, WriteSet
  <2>. QED
    BY <1>7, <2>2 DEF Save, TypeOK, Goto, Stages, Topics, tables
<1>8. ASSUME NEW r \in Requests, Publish(r) PROVE TypeOK'
  <2> DEFINE e == [id |-> nextId, event |-> r, topic |-> stage[r],
                   path |-> call[r].path, type |-> EventType(call[r].op),
                   payload |-> EventPayload(call[r].op, agg[r])]
  <2>1. call[r] \in Call /\ agg[r] \in Aggregate
    BY <1>8 DEF Publish, TypeOK, StageInv, Stages, Topics
  <2>2. e \in OutboxRow
    BY <1>8, <2>1, BodyTypes, PayloadType DEF Publish, TypeOK, OutboxRow
  <2>3. tx' \in [Requests -> WriteSet]
    <3>1. [tx[r] EXCEPT !.events = @ \cup {e}] \in WriteSet
      BY <2>2 DEF TypeOK, WriteSet
    <3>. QED  BY <3>1, <1>8 DEF Publish, TypeOK
  <2>4. stage' \in [Requests -> Stages]
    BY <1>8 DEF Publish, TypeOK, Goto, AfterPublish, Stages, Topics
  <2>. QED
    BY <1>8, <2>3, <2>4 DEF Publish, TypeOK, Goto, Topics
<1>9. ASSUME NEW r \in Requests, RecordOutcome(r) PROVE TypeOK'
  <2>1. tx[r].key \in KeyRow /\ code[r] \in Codes
    BY <1>9 DEF RecordOutcome, TypeOK, WriteSet, StageInv, KeyInv, Writing
  <2>2. [tx[r].key EXCEPT !.status = code[r]] \in KeyRow
    BY <2>1 DEF KeyRow
  <2>3. tx' \in [Requests -> WriteSet]
    BY <1>9, <2>2 DEF RecordOutcome, TypeOK, WriteSet
  <2>. QED
    BY <1>9, <2>3 DEF RecordOutcome, TypeOK, Goto, Stages, tables
<1>10. ASSUME NEW r \in Requests, Commit(r) PROVE TypeOK'
  <2>1. call[r] \in Call /\ call[r].path \in Paths /\ tx[r] \in WriteSet
    BY <1>10, BodyTypes DEF Commit, TypeOK
  <2>2. paths' \in [Paths -> Row \cup {Null}]
    BY <1>10, <2>1 DEF Commit, TypeOK, WriteSet
  <2>3. outbox' \in SUBSET OutboxRow
    BY <1>10, <2>1 DEF Commit, TypeOK, WriteSet
  <2>4. keys' \in [Keys -> KeyRow \cup {Null}]
    <3>1. tx[r].key # Null => call[r].key \in Keys /\ tx[r].key \in KeyRow
      BY <2>1, BodyTypes DEF KeyInv, WriteSet
    <3>. QED  BY <1>10, <3>1 DEF Commit, TypeOK
  <2>5. PICK c \in {code[r], 500} : Answer(r, c)
    BY <1>10 DEF Commit
  <2>6. c \in Codes
    BY <1>10, <2>5 DEF Commit, TypeOK, StageInv, Writing, Codes
  <2>. QED
    BY <1>10, <2>2, <2>3, <2>4, <2>5, <2>6, AnswerType DEF Commit, TypeOK
<1>11. ASSUME NEW r \in Requests, RollBack(r) PROVE TypeOK'
  <2>1. 500 \in Codes  BY DEF Codes
  <2>. QED
    BY <1>11, <2>1, AnswerType DEF RollBack, TypeOK, tables
<1>12. CASE UNCHANGED vars
  BY <1>12 DEF TypeOK, vars
<1>. QED
  BY <1>1, <1>2, <1>3, <1>4, <1>5, <1>6, <1>7, <1>8, <1>9, <1>10, <1>11,
     <1>12 DEF Next, Progress, Quiescent

LEMMA StageInit == Init => StageInv /\ KeyInv
BY DEF Init, StageInv, KeyInv, NoWrites, Writing, Topics

LEMMA AnswerStages ==
  ASSUME Inv1, NEW r \in Requests, NEW c, Answer(r, c),
         UNCHANGED <<call, agg>>,
         code' \in [Requests -> Codes \cup {Null}],
         \A q \in Requests \ {r} : code'[q] = code[q],
         \A k \in Keys : keys[k] # Null => keys'[k] # Null
  PROVE  StageInv' /\ KeyInv'
<1>1. /\ stage'[r] = "done" /\ tx'[r] = NoWrites
      /\ \A q \in Requests \ {r} : stage'[q] = stage[q] /\ tx'[q] = tx[q]
  BY DEF Inv1, TypeOK, Answer, Goto
<1>2. StageInv'
  BY <1>1 DEF Inv1, StageInv, NoWrites, Writing, Topics
<1>3. \A q \in Requests : stage[q] # "new" => call[q].key \in Keys \cup {Null}
  BY BodyTypes DEF Inv1, TypeOK
<1>4. KeyInv'
  BY <1>1, <1>3 DEF Inv1, KeyInv, NoWrites, Writing, Topics
<1>. QED  BY <1>2, <1>4

LEMMA StageStep == Inv1 /\ [Next]_vars => StageInv' /\ KeyInv'
<1> SUFFICES ASSUME Inv1, [Next]_vars PROVE StageInv' /\ KeyInv'
  OBVIOUS
<1>1. ASSUME NEW r \in Requests, Arrive(r) PROVE StageInv' /\ KeyInv'
  <2>1. PICK c \in Calls :
          /\ call' = [call EXCEPT ![r] = c]
          /\ Goto(r, IF c.op = "define" THEN "insertKey" ELSE "find")
    BY <1>1 DEF Arrive
  <2>2. /\ stage'[r] = IF c.op = "define" THEN "insertKey" ELSE "find"
        /\ call'[r] = c
        /\ tx[r].row = Null /\ tx[r].key = Null
        /\ \A q \in Requests \ {r} : stage'[q] = stage[q] /\ call'[q] = call[q]
    BY <1>1, <2>1 DEF Arrive, Goto, Inv1, TypeOK, StageInv, KeyInv, Writing, Topics
  <2>3. StageInv'
    BY <1>1, <2>2 DEF Arrive, Inv1, StageInv, Writing, Topics, tables
  <2>4. KeyInv'
    BY <1>1, <2>2 DEF Arrive, Inv1, KeyInv, Writing, Topics, tables
  <2>. QED  BY <2>3, <2>4
<1>2. ASSUME NEW r \in Requests, RefuseMissingKey(r) PROVE StageInv' /\ KeyInv'
  BY <1>2, AnswerStages DEF RefuseMissingKey, Inv1, TypeOK, tables
<1>3. ASSUME NEW r \in Requests, InsertKey(r) PROVE StageInv' /\ KeyInv'
  <2>1. /\ stage'[r] \in {"find", "replay"}
        /\ tx'[r].row = Null
        /\ stage'[r] = "find" => tx'[r].key # Null
        /\ stage'[r] = "replay" => keys[call[r].key] # Null
        /\ call[r].key # Null /\ call[r].op = "define"
        /\ \A q \in Requests \ {r} : stage'[q] = stage[q] /\ tx'[q] = tx[q]
    <3>1. [hash |-> RequestHash(r), status |-> Null] # Null
      <4>1. RequestHash(r) \in Paths \X Body
        BY <1>3, BodyTypes DEF InsertKey, RequestHash, Inv1, TypeOK
      <4>2. [hash |-> RequestHash(r), status |-> Null] \in KeyRow
        BY <4>1 DEF KeyRow
      <4>. QED  BY <4>2, CatalogueAssumption
    <3>2. tx[r] \in WriteSet /\ tx[r].row = Null
      BY <1>3 DEF InsertKey, Inv1, TypeOK, StageInv, Writing, Topics
    <3>. QED
      BY <1>3, <3>1, <3>2 DEF InsertKey, Goto, Inv1, TypeOK, KeyInv, WriteSet
  <2>2. StageInv'
    BY <1>3, <2>1 DEF InsertKey, Inv1, StageInv, Writing, Topics
  <2>3. KeyInv'
    BY <1>3, <2>1 DEF InsertKey, Inv1, KeyInv, Writing, Topics, tables
  <2>. QED  BY <2>2, <2>3
<1>4. ASSUME NEW r \in Requests, Replay(r) PROVE StageInv' /\ KeyInv'
  BY <1>4, AnswerStages DEF Replay, Inv1, TypeOK, tables
<1>5. ASSUME NEW r \in Requests, FindAndStop(r) PROVE StageInv' /\ KeyInv'
  <2> DEFINE v == Verdict(call[r], paths[call[r].path])
  <2>1. v \in Codes
    BY <1>5, BodyTypes, VerdictType DEF FindAndStop, Inv1, TypeOK
  <2>2. /\ code' \in [Requests -> Codes \cup {Null}]
        /\ code'[r] = v
        /\ \A q \in Requests \ {r} : code'[q] = code[q]
    BY <1>5, <2>1 DEF FindAndStop, Inv1, TypeOK
  <2>3. CASE call[r].op = "define"
    <3>1. /\ stage'[r] = "record" /\ v # Null
          /\ \A q \in Requests \ {r} : stage'[q] = stage[q]
          /\ UNCHANGED <<tx, keys, call, agg>>
      BY <1>5, <2>3 DEF FindAndStop, Goto, Inv1, TypeOK, tables
    <3>2. stage[r] = "find"
      BY <1>5 DEF FindAndStop
    <3>3. StageInv'
      BY <2>2, <3>1, <3>2 DEF Inv1, StageInv, Writing, Topics
    <3>4. KeyInv'
      BY <2>3, <3>1, <3>2 DEF Inv1, KeyInv, Writing, Topics
    <3>. QED  BY <3>3, <3>4
  <2>4. CASE call[r].op # "define"
    BY <1>5, <2>2, <2>4, AnswerStages DEF FindAndStop, tables
  <2>. QED  BY <2>3, <2>4
<1>6. ASSUME NEW r \in Requests, FindAndChange(r) PROVE StageInv' /\ KeyInv'
  <2>1. Outcome(call[r], paths[call[r].path]) \in Aggregate
    BY <1>6, BodyTypes, OutcomeType DEF FindAndChange, Inv1, TypeOK
  <2>2. SuccessCode(call[r].op) \in Codes
    BY DEF SuccessCode, Codes
  <2>3. /\ stage'[r] = "save" /\ agg'[r] # Null /\ code'[r] # Null
        /\ \A q \in Requests \ {r} :
             stage'[q] = stage[q] /\ agg'[q] = agg[q] /\ code'[q] = code[q]
        /\ UNCHANGED <<tx, keys, call>>
    BY <1>6, <2>1, <2>2, CatalogueAssumption
    DEF FindAndChange, Goto, Inv1, TypeOK, tables
  <2>4. stage[r] = "find"
    BY <1>6 DEF FindAndChange
  <2>5. StageInv'
    BY <2>3, <2>4 DEF Inv1, StageInv, Writing, Topics
  <2>6. KeyInv'
    BY <2>3, <2>4 DEF Inv1, KeyInv, Writing, Topics
  <2>. QED  BY <2>5, <2>6
<1>7. ASSUME NEW r \in Requests, Save(r) PROVE StageInv' /\ KeyInv'
  <2>1. Upsert(paths[call[r].path], agg[r]) \in Row
    BY <1>7, SaveTypes, UpsertType
  <2>2. /\ stage[r] = "save" /\ stage'[r] = "integration"
        /\ tx'[r].row # Null /\ tx'[r].key = tx[r].key
        /\ \A q \in Requests \ {r} : stage'[q] = stage[q] /\ tx'[q] = tx[q]
        /\ UNCHANGED <<keys, call, agg, code>>
    BY <1>7, <2>1, CatalogueAssumption
    DEF Save, Goto, Inv1, TypeOK, WriteSet, tables
  <2>3. StageInv'
    BY <2>2 DEF Inv1, StageInv, Writing, Topics
  <2>4. KeyInv'
    BY <2>2 DEF Inv1, KeyInv, Writing, Topics
  <2>. QED  BY <2>3, <2>4
<1>8. ASSUME NEW r \in Requests, Publish(r) PROVE StageInv' /\ KeyInv'
  <2>1. /\ stage[r] \in Topics
        /\ stage'[r] = AfterPublish(stage[r], call[r].op)
        /\ tx'[r].row = tx[r].row /\ tx'[r].key = tx[r].key
        /\ \A q \in Requests \ {r} : stage'[q] = stage[q] /\ tx'[q] = tx[q]
        /\ UNCHANGED <<keys, call, agg, code>>
    BY <1>8 DEF Publish, Goto, Inv1, TypeOK, WriteSet
  <2>2. StageInv'
    BY <2>1 DEF Inv1, StageInv, Writing, Topics, AfterPublish
  <2>3. KeyInv'
    BY <2>1 DEF Inv1, KeyInv, Writing, Topics, AfterPublish
  <2>. QED  BY <2>2, <2>3
<1>9. ASSUME NEW r \in Requests, RecordOutcome(r) PROVE StageInv' /\ KeyInv'
  <2>1. tx[r].key \in KeyRow /\ code[r] \in Codes
    BY <1>9 DEF RecordOutcome, Inv1, TypeOK, WriteSet, StageInv, KeyInv, Writing
  <2>2. [tx[r].key EXCEPT !.status = code[r]] # Null
    BY <2>1, CatalogueAssumption DEF KeyRow
  <2>3. /\ stage[r] = "record" /\ stage'[r] = "commit"
        /\ tx'[r].row = tx[r].row /\ tx'[r].key # Null
        /\ \A q \in Requests \ {r} : stage'[q] = stage[q] /\ tx'[q] = tx[q]
        /\ UNCHANGED <<keys, call, agg, code>>
    BY <1>9, <2>2 DEF RecordOutcome, Goto, Inv1, TypeOK, WriteSet, tables
  <2>4. StageInv'
    BY <2>3 DEF Inv1, StageInv, Writing, Topics
  <2>5. KeyInv'
    BY <2>1, <2>3, CatalogueAssumption DEF Inv1, KeyInv, Writing, Topics
  <2>. QED  BY <2>4, <2>5
<1>10. ASSUME NEW r \in Requests, Commit(r) PROVE StageInv' /\ KeyInv'
  <2>1. \A k \in Keys : keys[k] # Null => keys'[k] # Null
    BY <1>10 DEF Commit, Inv1, TypeOK
  <2>. QED
    BY <1>10, <2>1, AnswerStages DEF Commit, Inv1, TypeOK
<1>11. ASSUME NEW r \in Requests, RollBack(r) PROVE StageInv' /\ KeyInv'
  BY <1>11, AnswerStages DEF RollBack, Inv1, TypeOK, tables
<1>12. CASE UNCHANGED vars
  BY <1>12 DEF Inv1, StageInv, KeyInv, vars
<1>. QED
  BY <1>1, <1>2, <1>3, <1>4, <1>5, <1>6, <1>7, <1>8, <1>9, <1>10, <1>11,
     <1>12 DEF Next, Progress, Quiescent

(* PathCatalogue is type correct: every request stays at a known stage, a  *)
(* transaction's write set is one idempotency row, one path row and some   *)
(* outbox rows, and what is committed is well formed.                      *)
THEOREM TypeCorrect == Spec => []TypeOK
<1>1. Init => Inv1
  BY TypeInit, StageInit DEF Inv1
<1>2. Inv1 /\ [Next]_vars => Inv1'
  BY TypeStep, StageStep DEF Inv1
<1>3. Inv1 => TypeOK
  BY DEF Inv1
<1>. QED  BY <1>1, <1>2, <1>3, PTL DEF Spec

-----------------------------------------------------------------------------
(* The store agrees with the outbox *)

(* A request's staged events tell the row it has written, and the last of  *)
(* them is there before it can commit.                                     *)
EventsOf(r) ==
  /\ stage[r] = "new" => agg[r] = Null
  /\ agg[r] # Null =>
       agg[r].status =
         IF call[r].op = "deactivate" THEN "DEACTIVATED" ELSE "ACTIVE"
  /\ tx[r].row # Null =>
       /\ agg[r] # Null
       /\ tx[r].row.terms = agg[r].terms
       /\ tx[r].row.status = agg[r].status
       /\ tx[r].row.micros = ToInterval(agg[r].cycle)
       /\ stage[r] \in {"record", "commit"} =>
            \A t \in Topics : \E e \in tx[r].events : e.topic = t
       /\ stage[r] = "analytics" =>
            \E e \in tx[r].events : e.topic = "integration"
  /\ \A e \in tx[r].events :
       /\ tx[r].row # Null
       /\ e.path = call[r].path
       /\ e.type = EventType(call[r].op)
       /\ e.payload = EventPayload(call[r].op, agg[r])

EventsInv == \A r \in Requests : EventsOf(r)

(* Only one open transaction has written a path. *)
OneWriter ==
  \A r, q \in Requests :
    /\ tx[r].row # Null /\ tx[q].row # Null
    /\ call[r].path = call[q].path
    => r = q

(* Ids are drawn in order, and a writer draws its ids after every id       *)
(* committed for its path: it holds the path from before the first.        *)
OrderInv ==
  /\ \A e \in outbox : e.id < nextId
  /\ \A r \in Requests : \A e \in tx[r].events :
       /\ e.id < nextId
       /\ \A f \in outbox : f.path = e.path => f.id < e.id

Inv2 == Inv1 /\ EventsInv /\ OneWriter /\ OrderInv

LEMMA Inv2Init == Init => Inv2 /\ StoreAgreesWithOutbox
<1>1. Init => Inv1
  BY TypeInit, StageInit DEF Inv1
<1>2. Init => EventsInv /\ OneWriter /\ OrderInv /\ StoreAgreesWithOutbox
  BY DEF Init, EventsInv, EventsOf, OneWriter, OrderInv,
         StoreAgreesWithOutbox, NoWrites, OnTopic
<1>. QED  BY <1>1, <1>2 DEF Inv2

(* A step that leaves the tables alone and request r without writes. *)
Clears(r) ==
  /\ UNCHANGED <<paths, outbox, nextId>>
  /\ tx'[r].row = Null /\ tx'[r].events = {}
  /\ \A q \in Requests \ {r} :
       stage'[q] = stage[q] /\ call'[q] = call[q]
         /\ agg'[q] = agg[q] /\ tx'[q] = tx[q]
  /\ stage'[r] # "new"
  /\ agg'[r] # Null =>
       agg'[r].status =
         IF call'[r].op = "deactivate" THEN "DEACTIVATED" ELSE "ACTIVE"

LEMMA ClearsKeeps ==
  ASSUME Inv2, NEW r \in Requests, Clears(r)
  PROVE  EventsInv' /\ OneWriter' /\ OrderInv'
<1>1. EventsInv'
  BY DEF Inv2, EventsInv, EventsOf, Clears
<1>2. OneWriter'
  BY DEF Inv2, OneWriter, Clears
<1>3. OrderInv'
  BY DEF Inv2, OrderInv, Clears
<1>. QED  BY <1>1, <1>2, <1>3

LEMMA AnswerClears ==
  ASSUME Inv2, NEW r \in Requests, NEW c, Answer(r, c),
         UNCHANGED <<paths, outbox, nextId, call, agg>>
  PROVE  Clears(r)
BY DEF Inv2, Inv1, TypeOK, EventsInv, EventsOf, Clears, Answer, Goto, NoWrites

(* Before Save a transaction has written neither path nor event. *)
LEMMA NothingStaged ==
  ASSUME Inv2, NEW r \in Requests, stage[r] \notin Writing
  PROVE  tx[r].row = Null /\ tx[r].events = {}
BY DEF Inv2, Inv1, StageInv, EventsInv, EventsOf

(* Every step but the four that write keeps the writes of the others and   *)
(* leaves r with none.                                                     *)
LEMMA QuietStep ==
  ASSUME Inv2, NEW r \in Requests,
         \/ Arrive(r) \/ RefuseMissingKey(r) \/ InsertKey(r) \/ Replay(r)
         \/ FindAndStop(r) \/ FindAndChange(r) \/ RollBack(r)
  PROVE  Clears(r)
<1>1. CASE Arrive(r)
  <2>1. PICK c \in Calls :
          /\ call' = [call EXCEPT ![r] = c]
          /\ Goto(r, IF c.op = "define" THEN "insertKey" ELSE "find")
    BY <1>1 DEF Arrive
  <2>2. stage[r] = "new" /\ agg[r] = Null
    BY <1>1 DEF Arrive, Inv2, EventsInv, EventsOf
  <2>3. tx[r].row = Null /\ tx[r].events = {}
    BY <2>2, NothingStaged DEF Writing, Topics
  <2>4. /\ stage'[r] # "new" /\ tx' = tx /\ agg' = agg
        /\ \A q \in Requests \ {r} : stage'[q] = stage[q] /\ call'[q] = call[q]
    BY <1>1, <2>1 DEF Arrive, Goto, Inv2, Inv1, TypeOK
  <2>. QED  BY <1>1, <2>2, <2>3, <2>4 DEF Arrive, Clears, tables
<1>2. CASE RefuseMissingKey(r)
  BY <1>2, AnswerClears DEF RefuseMissingKey, tables
<1>3. CASE InsertKey(r)
  <2>1. tx[r].row = Null /\ tx[r].events = {}
    BY <1>3, NothingStaged DEF InsertKey, Writing, Topics
  <2>2. tx'[r].row = Null /\ tx'[r].events = {}
    <3>1. tx \in [Requests -> WriteSet] /\ tx[r] \in WriteSet
      BY DEF Inv2, Inv1, TypeOK
    <3>2. tx'[r].row = tx[r].row /\ tx'[r].events = tx[r].events
      BY <1>3, <3>1 DEF InsertKey, WriteSet
    <3>. QED  BY <2>1, <3>2
  <2>. QED
    BY <1>3, <2>2
    DEF InsertKey, Clears, Goto, Inv2, Inv1, TypeOK, EventsInv, EventsOf, tables
<1>4. CASE Replay(r)
  BY <1>4, AnswerClears DEF Replay, tables
<1>5. CASE FindAndStop(r)
  <2>1. tx[r].row = Null /\ tx[r].events = {}
    BY <1>5, NothingStaged DEF FindAndStop, Writing, Topics
  <2>2. CASE call[r].op = "define"
    BY <1>5, <2>1, <2>2
    DEF FindAndStop, Clears, Goto, Inv2, Inv1, TypeOK, EventsInv, EventsOf, tables
  <2>3. CASE call[r].op # "define"
    BY <1>5, <2>3, AnswerClears DEF FindAndStop, tables
  <2>. QED  BY <2>2, <2>3
<1>6. CASE FindAndChange(r)
  <2>1. tx[r].row = Null /\ tx[r].events = {}
    BY <1>6, NothingStaged DEF FindAndChange, Writing, Topics
  <2>2. /\ agg'[r] = Outcome(call[r], paths[call[r].path])
        /\ agg'[r].status =
             IF call[r].op = "deactivate" THEN "DEACTIVATED" ELSE "ACTIVE"
    BY <1>6, BodyTypes, OutcomeType DEF FindAndChange, Inv2, Inv1, TypeOK
  <2>. QED
    BY <1>6, <2>1, <2>2
    DEF FindAndChange, Clears, Goto, Inv2, Inv1, TypeOK, tables
<1>7. CASE RollBack(r)
  BY <1>7, AnswerClears DEF RollBack, tables
<1>. QED  BY <1>1, <1>2, <1>3, <1>4, <1>5, <1>6, <1>7

LEMMA SaveStep ==
  ASSUME Inv2, NEW r \in Requests, Save(r)
  PROVE  EventsInv' /\ OneWriter' /\ OrderInv'
<1> DEFINE p == call[r].path
<1>1. /\ stage[r] = "save" /\ stage'[r] = "integration"
      /\ agg[r] \in Aggregate
      /\ paths[p] \in Row \cup {Null}
  BY BodyTypes DEF Save, Goto, Inv2, Inv1, TypeOK, StageInv
<1>2. /\ tx'[r].row = Upsert(paths[p], agg[r])
      /\ tx'[r].events = tx[r].events
      /\ \A q \in Requests \ {r} : tx'[q] = tx[q] /\ stage'[q] = stage[q]
      /\ UNCHANGED <<outbox, nextId, call, agg>>
  BY DEF Save, Goto, Inv2, Inv1, TypeOK, WriteSet, tables
<1>3. tx[r].events = {}
  BY <1>1, NothingStaged DEF Writing, Topics
<1>4. /\ tx'[r].row.terms = agg[r].terms /\ tx'[r].row.status = agg[r].status
      /\ tx'[r].row.micros = ToInterval(agg[r].cycle)
      /\ agg[r] # Null
  BY <1>1, <1>2, UpsertType, CatalogueAssumption
<1>5. EventsInv'
  BY <1>1, <1>2, <1>3, <1>4 DEF Inv2, EventsInv, EventsOf
<1>6. OneWriter'
  <2>1. \A q \in Requests \ {r} : ~(tx[q].row # Null /\ call[q].path = p)
    BY DEF Save, HoldsPath
  <2>. QED  BY <1>2, <2>1 DEF Inv2, OneWriter
<1>7. OrderInv'
  BY <1>2, <1>3 DEF Inv2, OrderInv
<1>. QED  BY <1>5, <1>6, <1>7

LEMMA PublishStep ==
  ASSUME Inv2, NEW r \in Requests, Publish(r)
  PROVE  EventsInv' /\ OneWriter' /\ OrderInv'
<1> DEFINE e == [id |-> nextId, event |-> r, topic |-> stage[r],
                 path |-> call[r].path, type |-> EventType(call[r].op),
                 payload |-> EventPayload(call[r].op, agg[r])]
<1>1. /\ stage[r] \in Topics /\ nextId \in Nat /\ nextId' = nextId + 1
      /\ tx[r].row # Null
      /\ stage'[r] = AfterPublish(stage[r], call[r].op)
  BY DEF Publish, Goto, Inv2, Inv1, TypeOK, StageInv
<1>2. /\ tx'[r].row = tx[r].row
      /\ tx'[r].events = tx[r].events \cup {e}
      /\ \A q \in Requests \ {r} : tx'[q] = tx[q] /\ stage'[q] = stage[q]
      /\ UNCHANGED <<outbox, call, agg>>
  BY DEF Publish, Goto, Inv2, Inv1, TypeOK, WriteSet
<1>3. EventsInv'
  <2>1. ASSUME NEW q \in Requests \ {r} PROVE EventsOf(q)'
    BY <1>2 DEF Inv2, EventsInv, EventsOf
  <2>2. ASSUME stage[r] = "analytics"
        PROVE  \A t \in Topics : \E f \in tx'[r].events : f.topic = t
    <3>1. PICK f \in tx[r].events : f.topic = "integration"
      BY <1>1, <2>2 DEF Inv2, EventsInv, EventsOf
    <3>2. f \in tx'[r].events /\ e \in tx'[r].events /\ e.topic = "analytics"
      BY <1>2, <2>2
    <3>. QED  BY <3>1, <3>2 DEF Topics
  <2>3. ASSUME stage[r] = "integration"
        PROVE  \E f \in tx'[r].events : f.topic = "integration"
    <3>1. e \in tx'[r].events /\ e.topic = "integration"
      BY <1>2, <2>3
    <3>. QED  BY <3>1
  <2>4. \A f \in tx'[r].events :
          /\ f.path = call[r].path
          /\ f.type = EventType(call[r].op)
          /\ f.payload = EventPayload(call[r].op, agg[r])
    BY <1>2 DEF Inv2, EventsInv, EventsOf
  <2>5. EventsOf(r)'
    BY <1>1, <1>2, <2>2, <2>3, <2>4
    DEF Inv2, EventsInv, EventsOf, Topics, AfterPublish
  <2>. QED  BY <2>1, <2>5 DEF EventsInv
<1>4. OneWriter'
  BY <1>2 DEF Inv2, OneWriter
<1>5. OrderInv'
  <2>1. \A f \in outbox : f.id \in Nat /\ f.id < nextId
    BY DEF Inv2, Inv1, TypeOK, OutboxRow, OrderInv
  <2>2. ASSUME NEW q \in Requests, NEW g \in tx'[q].events
        PROVE  g.id < nextId' /\ \A f \in outbox : f.path = g.path => f.id < g.id
    <3>1. CASE g \in tx[q].events
      <4>1. g.id \in Nat
        BY <3>1 DEF Inv2, Inv1, TypeOK, WriteSet, OutboxRow
      <4>. QED  BY <1>1, <3>1, <4>1 DEF Inv2, OrderInv
    <3>2. CASE g \notin tx[q].events
      <4>1. g = e
        BY <1>2, <2>2, <3>2
      <4>. QED  BY <1>1, <2>1, <4>1
    <3>. QED  BY <3>1, <3>2
  <2>3. \A f \in outbox' : f.id < nextId'
    BY <1>1, <1>2, <2>1
  <2>. QED  BY <1>2, <2>2, <2>3 DEF OrderInv
<1>. QED  BY <1>3, <1>4, <1>5

LEMMA RecordStep ==
  ASSUME Inv2, NEW r \in Requests, RecordOutcome(r)
  PROVE  EventsInv' /\ OneWriter' /\ OrderInv'
<1>1. /\ tx'[r].row = tx[r].row /\ tx'[r].events = tx[r].events
      /\ stage[r] = "record" /\ stage'[r] = "commit"
      /\ \A q \in Requests \ {r} : tx'[q] = tx[q] /\ stage'[q] = stage[q]
      /\ UNCHANGED <<outbox, nextId, call, agg>>
  BY DEF RecordOutcome, Goto, Inv2, Inv1, TypeOK, WriteSet, tables
<1>2. EventsInv'
  BY <1>1 DEF Inv2, EventsInv, EventsOf
<1>3. OneWriter'
  BY <1>1 DEF Inv2, OneWriter
<1>4. OrderInv'
  BY <1>1 DEF Inv2, OrderInv
<1>. QED  BY <1>2, <1>3, <1>4

LEMMA CommitStep ==
  ASSUME Inv2, NEW r \in Requests, Commit(r)
  PROVE  EventsInv' /\ OneWriter' /\ OrderInv'
<1>1. PICK c \in {code[r], 500} : Answer(r, c)
  BY DEF Commit
<1>2. /\ stage'[r] = "done" /\ tx'[r] = NoWrites
      /\ \A q \in Requests \ {r} : stage'[q] = stage[q] /\ tx'[q] = tx[q]
      /\ outbox' = outbox \cup tx[r].events
      /\ UNCHANGED <<nextId, call, agg>>
  BY <1>1 DEF Commit, Answer, Goto, Inv2, Inv1, TypeOK
<1>3. EventsInv'
  BY <1>2 DEF Inv2, EventsInv, EventsOf, NoWrites
<1>4. OneWriter'
  BY <1>2 DEF Inv2, OneWriter, NoWrites
<1>5. OrderInv'
  <2>1. \A f \in outbox' : f.id < nextId'
    BY <1>2 DEF Inv2, OrderInv
  <2>2. ASSUME NEW q \in Requests, NEW g \in tx'[q].events, NEW f \in outbox',
               f.path = g.path
        PROVE  f.id < g.id
    <3>1. q # r /\ g \in tx[q].events
      BY <1>2 DEF NoWrites
    <3>2. CASE f \in outbox
      BY <2>2, <3>1, <3>2 DEF Inv2, OrderInv
    <3>3. CASE f \in tx[r].events
      <4>1. /\ tx[q].row # Null /\ g.path = call[q].path
            /\ tx[r].row # Null /\ f.path = call[r].path
        BY <3>1, <3>3 DEF Inv2, EventsInv, EventsOf
      <4>. QED  BY <2>2, <3>1, <4>1 DEF Inv2, OneWriter
    <3>. QED  BY <1>2, <3>2, <3>3
  <2>3. ASSUME NEW q \in Requests, NEW g \in tx'[q].events PROVE g.id < nextId'
    BY <1>2 DEF NoWrites, Inv2, OrderInv
  <2>. QED  BY <2>1, <2>2, <2>3 DEF OrderInv
<1>. QED  BY <1>3, <1>4, <1>5

LEMMA Inv2Step == Inv2 /\ [Next]_vars => Inv2'
<1> SUFFICES ASSUME Inv2, [Next]_vars PROVE Inv2'
  OBVIOUS
<1>1. Inv1'
  BY TypeStep, StageStep DEF Inv2, Inv1
<1>2. ASSUME NEW r \in Requests, Arrive(r) \/ Progress(r) \/ RollBack(r)
      PROVE  EventsInv' /\ OneWriter' /\ OrderInv'
  BY <1>2, QuietStep, ClearsKeeps, SaveStep, PublishStep, RecordStep,
     CommitStep DEF Progress
<1>3. ASSUME UNCHANGED vars PROVE EventsInv' /\ OneWriter' /\ OrderInv'
  BY <1>3 DEF vars, Inv2, EventsInv, EventsOf, OneWriter, OrderInv
<1>. QED  BY <1>1, <1>2, <1>3 DEF Inv2, Next, Quiescent

LEMMA OnlyCommitWrites ==
  ASSUME Inv2, [Next]_vars
  PROVE  \/ UNCHANGED <<paths, outbox>>
         \/ \E r \in Requests : Commit(r)
<1>1. ASSUME NEW r \in Requests, Arrive(r) \/ Progress(r) \/ RollBack(r),
             ~Commit(r)
      PROVE  UNCHANGED <<paths, outbox>>
  BY <1>1
  DEF Arrive, Progress, RefuseMissingKey, InsertKey, Replay, FindAndStop,
      FindAndChange, Save, Publish, RecordOutcome, RollBack, tables
<1>. QED  BY <1>1 DEF Next, Quiescent, vars, Progress

(* What a commit adds is what its transaction staged, all of one path, and *)
(* every id it adds to that path exceeds those already there.              *)
LEMMA CommitAdds ==
  ASSUME Inv2, NEW r \in Requests, Commit(r)
  PROVE  /\ outbox' = outbox \cup tx[r].events
         /\ \A e \in tx[r].events :
              /\ e.path = call[r].path
              /\ \A f \in outbox : f.path = e.path => f.id < e.id
BY DEF Commit, Inv2, EventsInv, EventsOf, OrderInv

LEMMA StoreStep ==
  Inv2 /\ StoreAgreesWithOutbox /\ [Next]_vars => StoreAgreesWithOutbox'
<1> SUFFICES ASSUME Inv2, StoreAgreesWithOutbox, [Next]_vars
             PROVE  StoreAgreesWithOutbox'
  OBVIOUS
<1>1. CASE UNCHANGED <<paths, outbox>>
  BY <1>1 DEF StoreAgreesWithOutbox, OnTopic, IsLatest
<1>2. ASSUME NEW r \in Requests, Commit(r) PROVE StoreAgreesWithOutbox'
  <2>1. CASE tx[r].row = Null
    <3>1. UNCHANGED <<paths, outbox>>
      BY <1>2, <2>1 DEF Commit, Inv2, EventsInv, EventsOf
    <3>. QED  BY <3>1, <1>1
  <2>2. CASE tx[r].row # Null
    <3>0. PICK p0 \in Paths : p0 = call[r].path
      BY <1>2, BodyTypes DEF Commit, Inv2, Inv1, TypeOK
    <3>1. /\ call[r].op \in Ops
          /\ stage[r] = "commit"
          /\ paths' = [paths EXCEPT ![p0] = tx[r].row]
          /\ paths \in [Paths -> Row \cup {Null}]
      BY <1>2, <2>2, <3>0, BodyTypes DEF Commit, Inv2, Inv1, TypeOK
    <3>2. ASSUME NEW p \in Paths \ {p0}, NEW t \in Topics
          PROVE  /\ paths'[p] = paths[p]
                 /\ OnTopic(p, t)' = OnTopic(p, t)
      BY <1>2, <3>0, <3>1, CommitAdds DEF OnTopic
    <3>3. ASSUME NEW t \in Topics
          PROVE  \E f \in tx[r].events : f.topic = t
      BY <2>2, <3>1 DEF Inv2, EventsInv, EventsOf
    <3>4. ASSUME NEW t \in Topics, NEW e \in OnTopic(p0, t)', IsLatest(e)'
          PROVE  e \in tx[r].events
      <4>1. PICK f \in tx[r].events : f.topic = t
        BY <3>3
      <4>2. f.path = p0 /\ f \in outbox'
        BY <1>2, <3>0, CommitAdds
      <4>3. f.id <= e.id
        BY <3>4, <4>1, <4>2 DEF IsLatest, OnTopic
      <4>4. e.path = p0 /\ (e \in outbox => e.id \in Nat) /\ f.id \in Nat
        BY <3>4 DEF OnTopic, Inv2, Inv1, TypeOK, WriteSet, OutboxRow
      <4>5. e \in outbox => e.id < f.id
        BY <1>2, <4>2, <4>4, CommitAdds
      <4>. QED  BY <1>2, <3>4, <4>3, <4>4, <4>5, CommitAdds DEF OnTopic
    <3>5. ASSUME NEW e \in tx[r].events PROVE Tells(e, tx[r].row)
      <4>1. /\ tx[r].row.terms = agg[r].terms
            /\ tx[r].row.micros = ToInterval(agg[r].cycle)
            /\ tx[r].row.status =
                 IF call[r].op = "deactivate" THEN "DEACTIVATED" ELSE "ACTIVE"
            /\ e.type = EventType(call[r].op)
            /\ e.payload = EventPayload(call[r].op, agg[r])
        BY <2>2 DEF Inv2, EventsInv, EventsOf
      <4>2. CASE call[r].op = "deactivate"
        BY <4>1, <4>2 DEF Tells, EventType
      <4>3. CASE call[r].op # "deactivate"
        <5>1. e.payload.terms = agg[r].terms /\ e.payload.cycle = agg[r].cycle
          BY <4>1, <4>3 DEF EventPayload
        <5>2. e.type # "Deactivated"
          BY <4>1, <4>3, <3>1 DEF EventType, Ops
        <5>. QED  BY <4>1, <4>3, <5>1, <5>2 DEF Tells
      <4>. QED  BY <4>2, <4>3
    <3>6. ASSUME NEW t \in Topics
          PROVE  /\ OnTopic(p0, t)' # {}
                 /\ \A e \in OnTopic(p0, t)' :
                      IsLatest(e)' => paths'[p0] # Null /\ Tells(e, paths'[p0])
      <4>1. OnTopic(p0, t)' # {}
        BY <1>2, <3>0, <3>3, CommitAdds DEF OnTopic
      <4>2. paths'[p0] = tx[r].row
        BY <3>1
      <4>. QED  BY <2>2, <3>4, <3>5, <4>1, <4>2
    <3>7. ASSUME NEW p \in Paths \ {p0}, NEW t \in Topics
          PROVE  /\ paths'[p] # Null => OnTopic(p, t)' # {}
                 /\ \A e \in OnTopic(p, t)' :
                      IsLatest(e)' => paths'[p] # Null /\ Tells(e, paths'[p])
      <4>1. \A e \in OnTopic(p, t) : IsLatest(e)' => IsLatest(e)
        <5>1. \A e \in OnTopic(p, t) : e.path = p /\ e.topic = t
          BY DEF OnTopic
        <5>. QED  BY <3>2, <5>1 DEF IsLatest
      <4>. QED  BY <3>2, <4>1 DEF StoreAgreesWithOutbox
    <3>. QED  BY <3>6, <3>7 DEF StoreAgreesWithOutbox, Tells
  <2>. QED  BY <2>1, <2>2
<1>. QED  BY <1>1, <1>2, OnlyCommitWrites

(* Whatever requests race, fail or are refused, a path has events on every *)
(* topic exactly when it has a row, and the latest of them tells that row. *)
THEOREM StoreAgrees == Spec => []StoreAgreesWithOutbox
<1>1. Init => Inv2 /\ StoreAgreesWithOutbox
  BY Inv2Init
<1>2. Inv2 /\ StoreAgreesWithOutbox /\ [Next]_vars
        => Inv2' /\ StoreAgreesWithOutbox'
  BY Inv2Step, StoreStep
<1>. QED  BY <1>1, <1>2, PTL DEF Spec

(* No row of a path becomes visible after one with a greater id: a reader  *)
(* that takes the rows of a path in id order never has to go back.         *)
THEOREM InsertsInOrder == Spec => NoLateInsert
<1> DEFINE InOrder == \A e \in outbox' \ outbox, f \in outbox :
                        f.path = e.path => f.id < e.id
<1>1. Init => Inv2
  BY Inv2Init
<1>2. Inv2 /\ [Next]_vars => Inv2'
  BY Inv2Step
<1>3. Inv2 /\ [Next]_vars => [InOrder]_outbox
  <2> SUFFICES ASSUME Inv2, [Next]_vars PROVE [InOrder]_outbox
    OBVIOUS
  <2>1. ASSUME NEW r \in Requests, Commit(r) PROVE InOrder
    BY <2>1, CommitAdds
  <2>. QED  BY <2>1, OnlyCommitWrites
<1>. QED  BY <1>1, <1>2, <1>3, PTL DEF Spec, NoLateInsert

-----------------------------------------------------------------------------
(* Idempotency keys *)

(* An inserted key is free of any committed row, a POST's, and recorded    *)
(* by the time its transaction commits.                                    *)
HeldKeys ==
  \A r \in Requests : tx[r].key # Null =>
    /\ keys[call[r].key] = Null
    /\ call[r].op = "define"
    /\ stage[r] = "commit" => tx[r].key.status # Null

(* Only one open transaction has inserted a key. *)
OneHolder ==
  \A r, q \in Requests :
    /\ tx[r].key # Null /\ tx[q].key # Null
    /\ call[r].key = call[q].key
    => r = q

(* A transaction stages one event per topic, in its own name. *)
StagedOnce ==
  \A r \in Requests :
    /\ \A e \in tx[r].events :
         /\ e.event = r /\ e.type = EventType(call[r].op)
         /\ stage[r] # "integration"
         /\ stage[r] = "analytics" => e.topic = "integration"
    /\ \A e, f \in tx[r].events : e.topic = f.topic => e = f

(* A committed ProcessPathCreated left the row of its key behind. *)
CreatedKeys ==
  \A e \in outbox :
    /\ stage[e.event] = "done"
    /\ e.type = "Created" =>
         call[e.event].key \in Keys /\ keys[call[e.event].key] # Null

Inv3 == /\ Inv2 /\ HeldKeys /\ OneHolder /\ StagedOnce /\ CreatedKeys
        /\ KeyAppliedOnce /\ NoNullStatusCommitted

LEMMA Inv3Init == Init => Inv3
BY Inv2Init
DEF Init, Inv3, HeldKeys, OneHolder, StagedOnce, CreatedKeys, KeyAppliedOnce,
    NoNullStatusCommitted, NoWrites

(* A step that leaves the tables, r's key and everyone else alone, stages  *)
(* nothing and leaves r short of committing a key.                         *)
Idles(r) ==
  /\ UNCHANGED <<outbox, keys>>
  /\ tx'[r].key \in {tx[r].key, Null}
  /\ tx'[r].events = {}
  /\ stage[r] # "done" /\ stage'[r] # "commit"
  /\ tx[r].key # Null => call'[r] = call[r]
  /\ \A q \in Requests \ {r} :
       stage'[q] = stage[q] /\ call'[q] = call[q] /\ tx'[q] = tx[q]

LEMMA IdlesKeeps ==
  ASSUME Inv3, NEW r \in Requests, Idles(r)
  PROVE  /\ HeldKeys' /\ OneHolder' /\ StagedOnce' /\ CreatedKeys'
         /\ KeyAppliedOnce' /\ NoNullStatusCommitted'
<1>1. \A e \in outbox : e.event \in Requests /\ e.event # r
  BY DEF Inv3, Inv2, Inv1, TypeOK, OutboxRow, CreatedKeys, Idles
<1>2. HeldKeys' /\ OneHolder'
  BY DEF Inv3, HeldKeys, OneHolder, Idles
<1>3. StagedOnce'
  BY DEF Inv3, StagedOnce, Idles
<1>4. CreatedKeys'
  BY <1>1 DEF Inv3, CreatedKeys, Idles
<1>5. KeyAppliedOnce'
  BY <1>1 DEF Inv3, KeyAppliedOnce, Idles
<1>6. NoNullStatusCommitted'
  BY DEF Inv3, NoNullStatusCommitted, Idles
<1>. QED  BY <1>2, <1>3, <1>4, <1>5, <1>6

LEMMA IdleStep ==
  ASSUME Inv3, NEW r \in Requests,
         \/ Arrive(r) \/ RefuseMissingKey(r) \/ Replay(r) \/ FindAndStop(r)
         \/ FindAndChange(r) \/ Save(r) \/ RollBack(r)
  PROVE  Idles(r)
<1> USE DEF Inv3, Inv2, Inv1
<1>1. ASSUME NEW c, Answer(r, c), stage[r] # "done",
             UNCHANGED <<outbox, keys, call>>
      PROVE  Idles(r)
  BY <1>1 DEF TypeOK, Answer, Goto, NoWrites, Idles
<1>2. ASSUME stage[r] \notin Writing PROVE tx[r].events = {}
  BY <1>2, NothingStaged
<1>3. CASE Arrive(r)
  <2>1. PICK c \in Calls :
          /\ call' = [call EXCEPT ![r] = c]
          /\ Goto(r, IF c.op = "define" THEN "insertKey" ELSE "find")
    BY <1>3 DEF Arrive
  <2>2. stage[r] = "new" /\ tx[r].key = Null /\ tx[r].events = {}
    BY <1>2, <1>3 DEF Arrive, KeyInv, Writing, Topics
  <2>. QED  BY <1>3, <2>1, <2>2 DEF Arrive, Goto, TypeOK, Idles, tables
<1>4. CASE RefuseMissingKey(r)
  BY <1>1, <1>4 DEF RefuseMissingKey, tables
<1>5. CASE Replay(r)
  BY <1>1, <1>5 DEF Replay, tables
<1>6. CASE FindAndStop(r)
  <2>1. stage[r] = "find" /\ tx[r].events = {}
    BY <1>2, <1>6 DEF FindAndStop, Writing, Topics
  <2>2. CASE call[r].op = "define"
    BY <1>6, <2>1, <2>2 DEF FindAndStop, Goto, TypeOK, Idles, tables
  <2>3. CASE call[r].op # "define"
    BY <1>1, <1>6, <2>1, <2>3 DEF FindAndStop, tables
  <2>. QED  BY <2>2, <2>3
<1>7. CASE FindAndChange(r)
  <2>1. stage[r] = "find" /\ tx[r].events = {}
    BY <1>2, <1>7 DEF FindAndChange, Writing, Topics
  <2>. QED  BY <1>7, <2>1 DEF FindAndChange, Goto, TypeOK, Idles, tables
<1>8. CASE Save(r)
  <2>1. stage[r] = "save" /\ tx[r].events = {}
    BY <1>2, <1>8 DEF Save, Writing, Topics
  <2>. QED  BY <1>8, <2>1 DEF Save, Goto, TypeOK, WriteSet, Idles, tables
<1>9. CASE RollBack(r)
  BY <1>1, <1>9 DEF RollBack, tables
<1>. QED  BY <1>3, <1>4, <1>5, <1>6, <1>7, <1>8, <1>9

LEMMA InsertKeyStep ==
  ASSUME Inv3, NEW r \in Requests, InsertKey(r)
  PROVE  /\ HeldKeys' /\ OneHolder' /\ StagedOnce' /\ CreatedKeys'
         /\ KeyAppliedOnce' /\ NoNullStatusCommitted'
<1> USE DEF Inv3, Inv2, Inv1
<1>1. stage[r] = "insertKey" /\ call[r].op = "define" /\ tx[r].events = {}
  BY NothingStaged DEF InsertKey, KeyInv, Writing, Topics
<1>2. CASE keys[call[r].key] # Null
  <2>1. Idles(r)
    BY <1>1, <1>2 DEF InsertKey, Goto, TypeOK, Idles, tables
  <2>. QED  BY <2>1, IdlesKeeps
<1>3. CASE keys[call[r].key] = Null
  <2>1. /\ tx'[r].events = {} /\ stage'[r] = "find"
        /\ \A q \in Requests \ {r} : tx'[q] = tx[q] /\ stage'[q] = stage[q]
        /\ UNCHANGED <<outbox, keys, call>>
    BY <1>1, <1>3 DEF InsertKey, Goto, TypeOK, WriteSet, tables
  <2>2. \A q \in Requests \ {r} :
          ~(tx[q].key # Null /\ call[q].key = call[r].key)
    BY DEF InsertKey, HoldsKey
  <2>3. HeldKeys'
    BY <1>1, <1>3, <2>1 DEF HeldKeys
  <2>4. OneHolder'
    BY <2>1, <2>2 DEF OneHolder
  <2>5. StagedOnce'
    BY <2>1 DEF StagedOnce
  <2>6. CreatedKeys'
    BY <1>1, <2>1 DEF CreatedKeys, TypeOK, OutboxRow
  <2>7. KeyAppliedOnce' /\ NoNullStatusCommitted'
    BY <2>1 DEF KeyAppliedOnce, NoNullStatusCommitted
  <2>. QED  BY <2>3, <2>4, <2>5, <2>6, <2>7
<1>. QED  BY <1>2, <1>3

LEMMA KeyPublishStep ==
  ASSUME Inv3, NEW r \in Requests, Publish(r)
  PROVE  /\ HeldKeys' /\ OneHolder' /\ StagedOnce' /\ CreatedKeys'
         /\ KeyAppliedOnce' /\ NoNullStatusCommitted'
<1> USE DEF Inv3, Inv2, Inv1
<1> DEFINE e == [id |-> nextId, event |-> r, topic |-> stage[r],
                 path |-> call[r].path, type |-> EventType(call[r].op),
                 payload |-> EventPayload(call[r].op, agg[r])]
<1>1. /\ stage[r] \in Topics
      /\ stage'[r] = AfterPublish(stage[r], call[r].op)
      /\ tx'[r].key = tx[r].key /\ tx'[r].events = tx[r].events \cup {e}
      /\ \A q \in Requests \ {r} : tx'[q] = tx[q] /\ stage'[q] = stage[q]
      /\ UNCHANGED <<outbox, keys, call>>
  BY DEF Publish, Goto, TypeOK, WriteSet
<1>2. /\ e.event = r /\ e.topic = stage[r]
      /\ e.type = EventType(call[r].op)
  OBVIOUS
<1>3. \A f \in tx[r].events :
        stage[r] = "analytics" /\ f.topic = "integration"
  BY <1>1 DEF StagedOnce, Topics
<1>4. HeldKeys'
  BY <1>1 DEF HeldKeys, AfterPublish
<1>5. OneHolder'
  BY <1>1 DEF OneHolder
<1>6. StagedOnce'
  <2>1. ASSUME NEW f \in tx'[r].events
        PROVE  /\ f.event = r /\ f.type = EventType(call[r].op)
               /\ stage'[r] # "integration"
               /\ stage'[r] = "analytics" => f.topic = "integration"
    BY <1>1, <1>2, <1>3 DEF StagedOnce, AfterPublish, Topics
  <2>2. ASSUME NEW f \in tx'[r].events, NEW g \in tx'[r].events,
               f.topic = g.topic
        PROVE  f = g
    <3>1. f \in tx[r].events \/ f = e
      BY <1>1
    <3>2. g \in tx[r].events \/ g = e
      BY <1>1
    <3>. QED  BY <2>2, <3>1, <3>2, <1>2, <1>3 DEF StagedOnce
  <2>. QED  BY <1>1, <2>1, <2>2 DEF StagedOnce
<1>7. CreatedKeys'
  BY <1>1 DEF CreatedKeys, TypeOK, OutboxRow, Topics
<1>8. KeyAppliedOnce' /\ NoNullStatusCommitted'
  BY <1>1 DEF KeyAppliedOnce, NoNullStatusCommitted
<1>. QED  BY <1>4, <1>5, <1>6, <1>7, <1>8

LEMMA KeyRecordStep ==
  ASSUME Inv3, NEW r \in Requests, RecordOutcome(r)
  PROVE  /\ HeldKeys' /\ OneHolder' /\ StagedOnce' /\ CreatedKeys'
         /\ KeyAppliedOnce' /\ NoNullStatusCommitted'
<1> USE DEF Inv3, Inv2, Inv1
<1>1. stage[r] = "record" /\ code[r] # Null /\ tx[r].key \in KeyRow
      /\ tx[r].key # Null
  BY DEF RecordOutcome, TypeOK, WriteSet, StageInv, KeyInv, Writing
<1>2. /\ tx'[r].key = [tx[r].key EXCEPT !.status = code[r]]
      /\ tx'[r].events = tx[r].events /\ stage'[r] = "commit"
      /\ \A q \in Requests \ {r} : tx'[q] = tx[q] /\ stage'[q] = stage[q]
      /\ UNCHANGED <<outbox, keys, call>>
  BY DEF RecordOutcome, Goto, TypeOK, WriteSet, tables
<1>3. tx'[r].key.status = code[r]
  BY <1>1, <1>2 DEF KeyRow
<1>4. HeldKeys'
  BY <1>1, <1>2, <1>3 DEF HeldKeys
<1>5. OneHolder'
  BY <1>1, <1>2 DEF OneHolder
<1>6. StagedOnce'
  BY <1>1, <1>2 DEF StagedOnce
<1>7. CreatedKeys'
  BY <1>1, <1>2 DEF CreatedKeys, TypeOK, OutboxRow
<1>8. KeyAppliedOnce' /\ NoNullStatusCommitted'
  BY <1>2 DEF KeyAppliedOnce, NoNullStatusCommitted
<1>. QED  BY <1>4, <1>5, <1>6, <1>7, <1>8

LEMMA KeyCommitStep ==
  ASSUME Inv3, NEW r \in Requests, Commit(r)
  PROVE  /\ HeldKeys' /\ OneHolder' /\ StagedOnce' /\ CreatedKeys'
         /\ KeyAppliedOnce' /\ NoNullStatusCommitted'
<1> USE DEF Inv3, Inv2, Inv1
<1>1. PICK c \in {code[r], 500} : Answer(r, c)
  BY DEF Commit
<1>2. /\ stage[r] = "commit" /\ stage'[r] = "done" /\ tx'[r] = NoWrites
      /\ \A q \in Requests \ {r} : stage'[q] = stage[q] /\ tx'[q] = tx[q]
      /\ outbox' = outbox \cup tx[r].events
      /\ keys' = IF tx[r].key = Null THEN keys
                 ELSE [keys EXCEPT ![call[r].key] = tx[r].key]
      /\ UNCHANGED call
  BY <1>1 DEF Commit, Answer, Goto, TypeOK
<1>3. tx[r].key # Null =>
        /\ call[r].key \in Keys /\ keys[call[r].key] = Null
        /\ tx[r].key.status # Null
        /\ keys' \in [Keys -> KeyRow \cup {Null}] /\ keys'[call[r].key] = tx[r].key
        /\ \A k \in Keys \ {call[r].key} : keys'[k] = keys[k]
  BY <1>2, BodyTypes DEF HeldKeys, KeyInv, TypeOK, WriteSet
<1>4. \A k \in Keys : keys[k] # Null => keys'[k] # Null
  BY <1>2, <1>3
<1>5. \A e \in tx[r].events :
        /\ e.event = r
        /\ e.type = "Created" => tx[r].key # Null
  <2>1. call[r].op \in Ops
    BY <1>2, BodyTypes DEF TypeOK
  <2>. QED
    BY <1>2, <2>1 DEF StagedOnce, KeyInv, EventType, Ops, Writing
<1>6. HeldKeys'
  <2>1. ASSUME NEW q \in Requests, tx'[q].key # Null
        PROVE  /\ keys'[call[q].key] = Null
               /\ call[q].op = "define"
               /\ stage'[q] = "commit" => tx'[q].key.status # Null
    <3>1. q # r /\ tx[q].key # Null
      BY <1>2, <2>1 DEF NoWrites
    <3>2. /\ call[q].key \in Keys
          /\ tx[r].key # Null => call[q].key # call[r].key
      BY <3>1, BodyTypes DEF OneHolder, KeyInv, TypeOK
    <3>. QED  BY <1>2, <1>3, <3>1, <3>2 DEF HeldKeys
  <2>. QED  BY <1>2, <2>1 DEF HeldKeys
<1>7. OneHolder'
  BY <1>2 DEF OneHolder, NoWrites
<1>8. StagedOnce'
  BY <1>2 DEF StagedOnce, NoWrites
<1>9. CreatedKeys'
  <2>1. ASSUME NEW e \in outbox
        PROVE  /\ stage'[e.event] = "done"
               /\ e.type = "Created" => call[e.event].key \in Keys
                                          /\ keys'[call[e.event].key] # Null
    <3>1. e.event \in Requests
      BY DEF TypeOK, OutboxRow
    <3>. QED  BY <1>2, <1>4, <3>1 DEF CreatedKeys
  <2>2. ASSUME NEW e \in tx[r].events
        PROVE  /\ stage'[e.event] = "done"
               /\ e.type = "Created" => call[e.event].key \in Keys
                                          /\ keys'[call[e.event].key] # Null
    BY <1>2, <1>3, <1>5
  <2>. QED  BY <1>2, <2>1, <2>2 DEF CreatedKeys
<1>10. KeyAppliedOnce'
  <2>1. ASSUME NEW e \in outbox, NEW f \in tx[r].events,
               e.type = "Created", f.type = "Created"
        PROVE  call[e.event].key # call[f.event].key
    BY <1>3, <1>5, <2>1 DEF CreatedKeys
  <2>2. \A e, f \in tx[r].events : e.topic = f.topic => e = f
    BY DEF StagedOnce
  <2>. QED  BY <1>2, <2>1, <2>2 DEF KeyAppliedOnce
<1>11. NoNullStatusCommitted'
  BY <1>2, <1>3 DEF NoNullStatusCommitted
<1>. QED  BY <1>6, <1>7, <1>8, <1>9, <1>10, <1>11

LEMMA Inv3Step == Inv3 /\ [Next]_vars => Inv3'
<1> SUFFICES ASSUME Inv3, [Next]_vars PROVE Inv3'
  OBVIOUS
<1>1. Inv2'
  BY Inv2Step DEF Inv3
<1> DEFINE Kept == /\ HeldKeys /\ OneHolder /\ StagedOnce /\ CreatedKeys
                   /\ KeyAppliedOnce /\ NoNullStatusCommitted
<1>2. ASSUME NEW r \in Requests, Arrive(r) \/ Progress(r) \/ RollBack(r)
      PROVE  Kept'
  BY <1>2, IdleStep, IdlesKeeps, InsertKeyStep, KeyPublishStep,
     KeyRecordStep, KeyCommitStep DEF Progress
<1>3. ASSUME UNCHANGED vars PROVE Kept'
  BY <1>3
  DEF vars, Inv3, HeldKeys, OneHolder, StagedOnce, CreatedKeys,
      KeyAppliedOnce, NoNullStatusCommitted
<1>. QED  BY <1>1, <1>2, <1>3 DEF Inv3, Next, Quiescent

(* However its retries race, fail and differ in body, an Idempotency-Key   *)
(* publishes at most one ProcessPathCreated per topic.                     *)
THEOREM KeysAppliedOnce == Spec => []KeyAppliedOnce
<1>1. Inv3 => KeyAppliedOnce
  BY DEF Inv3
<1>. QED  BY <1>1, Inv3Init, Inv3Step, PTL DEF Spec

(* No retry finds an idempotency row without a recorded outcome, so the    *)
(* middleware's 500 for such a row is unreachable.                         *)
THEOREM OutcomesRecorded == Spec => []NoNullStatusCommitted
<1>1. Inv3 => NoNullStatusCommitted
  BY DEF Inv3
<1>. QED  BY <1>1, Inv3Init, Inv3Step, PTL DEF Spec

-----------------------------------------------------------------------------
(* Answers and the topics *)

(* What a request has worked out so far, and what its key row says of it.  *)
WorkOf(r) ==
  /\ stage[r] # "done" => reply[r] = Null
  /\ stage[r] \in {"new", "insertKey", "replay", "find"} => agg[r] = Null
  /\ agg[r] # Null /\ call[r].op = "define" => agg[r] = Define(call[r].body)
  /\ stage[r] \in {"save"} \cup Topics => code[r] = SuccessCode(call[r].op)
  /\ stage[r] \in {"record", "commit"} =>
       \/ /\ agg[r] # Null /\ tx[r].row # Null
          /\ code[r] = SuccessCode(call[r].op)
       \/ /\ agg[r] = Null /\ tx[r].row = Null
          /\ call[r].op = "define" /\ code[r] \in {400, 409, 422}
  /\ tx[r].key # Null =>
       /\ tx[r].key.hash = RequestHash(r)
       /\ stage[r] = "commit" => tx[r].key.status = code[r]

(* A POST that was answered was told what the committed row of its key     *)
(* tells every retry; an acknowledged change has its events.               *)
ReplyOf(r) ==
  /\ reply[r] \notin {Null, 500} /\ call[r].op = "define" =>
       IF call[r].key = Null THEN reply[r] = 400
       ELSE /\ keys[call[r].key] # Null
            /\ reply[r] = ReplayCode(keys[call[r].key], RequestHash(r))
  /\ reply[r] = 201 => call[r].op = "define"
  /\ reply[r] \notin {Null, 500} /\ agg[r] # Null =>
       \E e \in outbox : e.event = r

(* A committed event says what its request decided, and the request was    *)
(* not refused.                                                            *)
OwnEvents ==
  \A e \in outbox :
    /\ agg[e.event] # Null
    /\ e.path = call[e.event].path
    /\ e.type = EventType(call[e.event].op)
    /\ e.payload = EventPayload(call[e.event].op, agg[e.event])
    /\ reply[e.event] \in {SuccessCode(call[e.event].op), 500}

(* A request's events are committed together: one on each topic.           *)
GroupInv ==
  /\ \A e \in outbox, t \in Topics :
       \E f \in outbox : f.event = e.event /\ f.topic = t
  /\ \A e, f \in outbox : e.event = f.event /\ e.topic = f.topic => e = f

(* The events of two requests on one path are not interleaved.             *)
GroupOrder ==
  \A e, f, e2, f2 \in outbox :
    /\ e.path = f.path /\ e.event # f.event
    /\ e2.event = e.event /\ f2.event = f.event
    /\ e.id < f.id
    => e2.id < f2.id

(* A key that records a 201 stands for a committed definition. *)
KeyTells ==
  \A k \in Keys : keys[k] # Null /\ keys[k].status = 201 =>
    \E e \in outbox :
      /\ call[e.event].op = "define" /\ call[e.event].key = k
      /\ RequestHash(e.event) = keys[k].hash

Answers == \A r \in Requests : WorkOf(r) /\ ReplyOf(r)

Inv4 == Inv3 /\ Answers /\ OwnEvents /\ GroupInv /\ GroupOrder /\ KeyTells

LEMMA Inv4Init == Init => Inv4
<1>1. Init => Answers
  BY CatalogueAssumption
  DEF Init, Answers, WorkOf, ReplyOf, NoWrites, Topics, Codes
<1>2. Init => OwnEvents /\ GroupInv /\ GroupOrder /\ KeyTells
  BY DEF Init, OwnEvents, GroupInv, GroupOrder, KeyTells
<1>. QED  BY <1>1, <1>2, Inv3Init DEF Inv4

(* A step of r that touches neither the committed events and keys nor any  *)
(* other request.                                                          *)
Private(r) ==
  /\ stage[r] # "done"
  /\ UNCHANGED <<outbox, keys>>
  /\ \A q \in Requests \ {r} :
       /\ stage'[q] = stage[q] /\ call'[q] = call[q] /\ agg'[q] = agg[q]
       /\ code'[q] = code[q] /\ tx'[q] = tx[q] /\ reply'[q] = reply[q]

LEMMA PrivateKeeps ==
  ASSUME Inv4, NEW r \in Requests, Private(r), WorkOf(r)', ReplyOf(r)'
  PROVE  Answers' /\ OwnEvents' /\ GroupInv' /\ GroupOrder' /\ KeyTells'
<1>1. \A e \in outbox : e.event \in Requests \ {r}
  BY DEF Inv4, Inv3, Inv2, Inv1, TypeOK, OutboxRow, CreatedKeys, Private
<1>2. \A q \in Requests \ {r} : WorkOf(q)' /\ ReplyOf(q)'
  BY DEF Inv4, Answers, WorkOf, ReplyOf, RequestHash, Private
<1>3. Answers'
  BY <1>2 DEF Answers
<1>4. OwnEvents'
  BY <1>1 DEF Inv4, OwnEvents, Private
<1>5. GroupInv' /\ GroupOrder'
  BY DEF Inv4, GroupInv, GroupOrder, Private
<1>6. KeyTells'
  BY <1>1 DEF Inv4, KeyTells, RequestHash, Private
<1>. QED  BY <1>3, <1>4, <1>5, <1>6

(* An answer without a commit, by a request that has decided on no         *)
(* aggregate or gives it up.                                               *)
LEMMA AnswerPrivate ==
  ASSUME Inv4, NEW r \in Requests, NEW c, Answer(r, c), stage[r] # "done",
         UNCHANGED <<outbox, keys, call, agg>>,
         \A q \in Requests \ {r} : code'[q] = code[q],
         c # 201 \/ call[r].op = "define",
         c # 500 => agg[r] = Null,
         c \notin {Null, 500} /\ call[r].op = "define" =>
           IF call[r].key = Null THEN c = 400
           ELSE /\ keys[call[r].key] # Null
                /\ c = ReplayCode(keys[call[r].key], RequestHash(r))
  PROVE  Private(r) /\ WorkOf(r)' /\ ReplyOf(r)'
<1>1. /\ stage'[r] = "done" /\ reply'[r] = c /\ tx'[r] = NoWrites
      /\ \A q \in Requests \ {r} :
           stage'[q] = stage[q] /\ tx'[q] = tx[q] /\ reply'[q] = reply[q]
  BY DEF Answer, Goto, Inv4, Inv3, Inv2, Inv1, TypeOK
<1>2. Private(r)
  BY <1>1 DEF Private
<1>3. WorkOf(r)'
  BY <1>1 DEF Inv4, Answers, WorkOf, NoWrites, Topics
<1>4. ReplyOf(r)'
  BY <1>1 DEF ReplyOf, RequestHash
<1>. QED  BY <1>2, <1>3, <1>4

LEMMA VerdictCodes ==
  ASSUME NEW c \in Call, NEW row \in Row \cup {Null},
         Verdict(c, row) # Null
  PROVE  /\ Verdict(c, row) \in Codes \ {201, 500}
         /\ c.op = "define" => Verdict(c, row) \in {400, 409, 422}
<1>1. c.op \in Ops
  BY BodyTypes
<1>2. CASE c.op = "define"
  BY <1>2 DEF Verdict, Codes
<1>3. CASE c.op # "define"
  BY <1>3 DEF Verdict, Codes
<1>. QED  BY <1>2, <1>3

LEMMA PrivateStep ==
  ASSUME Inv4, NEW r \in Requests,
         \/ Arrive(r) \/ RefuseMissingKey(r) \/ InsertKey(r) \/ Replay(r)
         \/ FindAndStop(r) \/ FindAndChange(r) \/ Save(r) \/ Publish(r)
         \/ RecordOutcome(r) \/ RollBack(r)
  PROVE  Private(r) /\ WorkOf(r)' /\ ReplyOf(r)'
<1> USE DEF Inv4, Inv3, Inv2, Inv1
<1>a. WorkOf(r) /\ ReplyOf(r)
  BY DEF Answers
<1>1. CASE Arrive(r)
  <2>1. PICK c \in Calls :
          /\ call' = [call EXCEPT ![r] = c]
          /\ Goto(r, IF c.op = "define" THEN "insertKey" ELSE "find")
    BY <1>1 DEF Arrive
  <2>2. stage[r] = "new" /\ tx[r].key = Null
    BY <1>1 DEF Arrive, KeyInv
  <2>3. /\ stage'[r] = IF c.op = "define" THEN "insertKey" ELSE "find"
        /\ \A q \in Requests \ {r} : stage'[q] = stage[q] /\ call'[q] = call[q]
        /\ UNCHANGED <<outbox, keys, agg, code, tx, reply>>
    BY <1>1, <2>1 DEF Arrive, Goto, TypeOK, tables
  <2>4. agg[r] = Null /\ reply[r] = Null
    BY <1>a, <2>2 DEF WorkOf
  <2>5. Private(r)
    BY <2>2, <2>3 DEF Private
  <2>6. WorkOf(r)'
    BY <2>2, <2>3, <2>4 DEF WorkOf, Topics
  <2>7. ReplyOf(r)'
    BY <2>3, <2>4, CatalogueAssumption DEF ReplyOf, Codes
  <2>. QED  BY <2>5, <2>6, <2>7
<1>2. CASE RefuseMissingKey(r)
  <2>1. stage[r] = "insertKey" /\ agg[r] = Null /\ Answer(r, 400)
    BY <1>2, <1>a DEF RefuseMissingKey, WorkOf
  <2>2. UNCHANGED <<outbox, keys, call, agg, code>> /\ call[r].key = Null
    BY <1>2 DEF RefuseMissingKey, tables
  <2>. QED  BY <2>1, <2>2, AnswerPrivate
<1>3. CASE InsertKey(r)
  <2>1. /\ stage[r] = "insertKey" /\ agg[r] = Null /\ reply[r] = Null
        /\ stage'[r] \in {"find", "replay"}
        /\ \A q \in Requests \ {r} : stage'[q] = stage[q] /\ tx'[q] = tx[q]
        /\ UNCHANGED <<outbox, keys, call, agg, code, reply>>
    BY <1>3, <1>a DEF InsertKey, Goto, TypeOK, WorkOf, tables
  <2>2. tx'[r].key # Null => tx'[r].key.hash = RequestHash(r)
    BY <1>3, <1>a DEF InsertKey, TypeOK, WriteSet, WorkOf
  <2>3. Private(r)
    BY <2>1 DEF Private
  <2>4. WorkOf(r)'
    BY <2>1, <2>2 DEF WorkOf, RequestHash, Topics
  <2>5. ReplyOf(r)'
    BY <2>1, CatalogueAssumption DEF ReplyOf, Codes
  <2>. QED  BY <2>3, <2>4, <2>5
<1>4. CASE Replay(r)
  <2>1. /\ stage[r] = "replay" /\ agg[r] = Null /\ call[r].op = "define"
        /\ call[r].key # Null /\ keys[call[r].key] # Null
    BY <1>4, <1>a DEF Replay, WorkOf, KeyInv
  <2>2. /\ Answer(r, ReplayCode(keys[call[r].key], RequestHash(r)))
        /\ UNCHANGED <<outbox, keys, call, agg, code>>
    BY <1>4 DEF Replay, tables
  <2>. QED  BY <2>1, <2>2, AnswerPrivate
<1>5. CASE FindAndStop(r)
  <2> DEFINE v == Verdict(call[r], paths[call[r].path])
  <2>1. /\ stage[r] = "find" /\ agg[r] = Null /\ reply[r] = Null
        /\ tx[r].row = Null
    BY <1>5, <1>a, NothingStaged DEF FindAndStop, WorkOf, Writing, Topics
  <2>2. /\ v # Null /\ v # 201 /\ v # 500
        /\ call[r].op = "define" => v \in {400, 409, 422}
    BY <1>5, BodyTypes, VerdictCodes DEF FindAndStop, TypeOK, Codes
  <2>3. /\ code'[r] = v
        /\ \A q \in Requests \ {r} : code'[q] = code[q]
        /\ UNCHANGED <<outbox, keys, call, agg>>
    BY <1>5 DEF FindAndStop, TypeOK, tables
  <2> HIDE DEF v
  <2>4. CASE call[r].op = "define"
    <3>1. /\ stage'[r] = "record"
          /\ \A q \in Requests \ {r} : stage'[q] = stage[q]
          /\ UNCHANGED <<tx, reply>>
      BY <1>5, <2>4 DEF FindAndStop, Goto, TypeOK
    <3>2. Private(r)
      BY <2>1, <2>3, <3>1 DEF Private
    <3>3. WorkOf(r)'
      BY <2>1, <2>2, <2>3, <2>4, <3>1, <1>a DEF WorkOf, RequestHash, Topics
    <3>4. ReplyOf(r)'
      BY <2>1, <3>1, CatalogueAssumption DEF ReplyOf, Codes
    <3>. QED  BY <3>2, <3>3, <3>4
  <2>5. CASE call[r].op # "define"
    <3>1. Answer(r, v)
      BY <1>5, <2>5 DEF FindAndStop, v
    <3>. QED  BY <2>1, <2>2, <2>3, <2>5, <3>1, AnswerPrivate
  <2>. QED  BY <2>4, <2>5
<1>6. CASE FindAndChange(r)
  <2>1. /\ stage[r] = "find" /\ agg[r] = Null /\ reply[r] = Null
    BY <1>6, <1>a DEF FindAndChange, WorkOf
  <2>2. /\ stage'[r] = "save"
        /\ agg'[r] = Outcome(call[r], paths[call[r].path])
        /\ code'[r] = SuccessCode(call[r].op)
        /\ \A q \in Requests \ {r} :
             stage'[q] = stage[q] /\ agg'[q] = agg[q] /\ code'[q] = code[q]
        /\ UNCHANGED <<outbox, keys, call, tx, reply>>
    BY <1>6 DEF FindAndChange, Goto, TypeOK, tables
  <2>3. Private(r)
    BY <2>1, <2>2 DEF Private
  <2>4. WorkOf(r)'
    BY <2>1, <2>2, <1>a DEF WorkOf, RequestHash, Outcome, Topics
  <2>5. ReplyOf(r)'
    BY <2>1, <2>2, CatalogueAssumption DEF ReplyOf, Codes
  <2>. QED  BY <2>3, <2>4, <2>5
<1>7. CASE Save(r)
  <2>1. /\ stage[r] = "save" /\ stage'[r] = "integration" /\ reply[r] = Null
        /\ tx'[r].key = tx[r].key
        /\ \A q \in Requests \ {r} : stage'[q] = stage[q] /\ tx'[q] = tx[q]
        /\ UNCHANGED <<outbox, keys, call, agg, code, reply>>
    BY <1>7, <1>a DEF Save, Goto, TypeOK, WriteSet, WorkOf, tables
  <2>2. Private(r)
    BY <2>1 DEF Private
  <2>3. WorkOf(r)'
    BY <2>1, <1>a DEF WorkOf, RequestHash, Topics
  <2>4. ReplyOf(r)'
    BY <2>1, CatalogueAssumption DEF ReplyOf, Codes
  <2>. QED  BY <2>2, <2>3, <2>4
<1>8. CASE Publish(r)
  <2>1. /\ stage[r] \in Topics /\ reply[r] = Null
        /\ agg[r] # Null /\ tx[r].row # Null
        /\ stage'[r] = AfterPublish(stage[r], call[r].op)
        /\ tx'[r].key = tx[r].key /\ tx'[r].row = tx[r].row
        /\ \A q \in Requests \ {r} : stage'[q] = stage[q] /\ tx'[q] = tx[q]
        /\ UNCHANGED <<outbox, keys, call, agg, code, reply>>
    BY <1>8, <1>a DEF Publish, Goto, TypeOK, WriteSet, WorkOf, StageInv, Topics
  <2>2. Private(r)
    BY <2>1 DEF Private, Topics
  <2>3. stage'[r] = "commit" => call[r].op # "define" /\ tx[r].key = Null
    BY <2>1 DEF AfterPublish, HeldKeys
  <2>4. WorkOf(r)'
    BY <2>1, <2>3, <1>a DEF WorkOf, RequestHash, AfterPublish, Topics
  <2>5. ReplyOf(r)'
    BY <2>1, CatalogueAssumption DEF ReplyOf, Codes
  <2>. QED  BY <2>2, <2>4, <2>5
<1>9. CASE RecordOutcome(r)
  <2>1. /\ stage[r] = "record" /\ tx[r].key \in KeyRow
        /\ reply[r] = Null
    BY <1>9, <1>a DEF RecordOutcome, TypeOK, WriteSet, KeyInv, Writing, WorkOf
  <2>2. /\ stage'[r] = "commit"
        /\ tx'[r].row = tx[r].row
        /\ tx'[r].key = [tx[r].key EXCEPT !.status = code[r]]
        /\ \A q \in Requests \ {r} : stage'[q] = stage[q] /\ tx'[q] = tx[q]
        /\ UNCHANGED <<outbox, keys, call, agg, code, reply>>
    BY <1>9 DEF RecordOutcome, Goto, TypeOK, WriteSet, tables
  <2>3. tx'[r].key.status = code[r] /\ tx'[r].key.hash = tx[r].key.hash
    BY <2>1, <2>2 DEF KeyRow
  <2>4. Private(r)
    BY <2>1, <2>2 DEF Private
  <2>5. tx[r].key # Null
    BY <2>1, CatalogueAssumption
  <2>6. WorkOf(r)'
    BY <2>1, <2>2, <2>3, <2>5, <1>a DEF WorkOf, RequestHash, Topics
  <2>7. ReplyOf(r)'
    BY <2>1, <2>2, CatalogueAssumption DEF ReplyOf, Codes
  <2>. QED  BY <2>4, <2>6, <2>7
<1>10. CASE RollBack(r)
  <2>1. /\ Answer(r, 500) /\ stage[r] # "done"
        /\ UNCHANGED <<outbox, keys, call, agg, code>>
    BY <1>10 DEF RollBack, tables
  <2>. QED  BY <2>1, AnswerPrivate
<1>. QED
  BY <1>1, <1>2, <1>3, <1>4, <1>5, <1>6, <1>7, <1>8, <1>9, <1>10

LEMMA CommitAnswers ==
  ASSUME Inv4, NEW r \in Requests, Commit(r)
  PROVE  Answers' /\ OwnEvents' /\ GroupInv' /\ GroupOrder' /\ KeyTells'
<1> USE DEF Inv4, Inv3, Inv2, Inv1
<1>1. PICK c \in {code[r], 500} : Answer(r, c)
  BY DEF Commit
<1>2. /\ stage[r] = "commit" /\ stage'[r] = "done" /\ reply'[r] = c
      /\ tx'[r] = NoWrites
      /\ \A q \in Requests \ {r} :
           stage'[q] = stage[q] /\ tx'[q] = tx[q] /\ reply'[q] = reply[q]
      /\ outbox' = outbox \cup tx[r].events
      /\ keys' = IF tx[r].key = Null THEN keys
                 ELSE [keys EXCEPT ![call[r].key] = tx[r].key]
      /\ UNCHANGED <<call, agg, code>>
  BY <1>1 DEF Commit, Answer, Goto, TypeOK
<1>3. /\ call[r].op \in Ops /\ call[r].key \in Keys \cup {Null}
      /\ code[r] \in Codes
  BY <1>2, BodyTypes DEF TypeOK, StageInv, Writing
<1>4. tx[r].key # Null =>
        /\ call[r].op = "define"
        /\ call[r].key \in Keys /\ keys[call[r].key] = Null
        /\ keys'[call[r].key] = tx[r].key
        /\ \A k \in Keys \ {call[r].key} : keys'[k] = keys[k]
        /\ tx[r].key.hash = RequestHash(r) /\ tx[r].key.status = code[r]
  BY <1>2, <1>3 DEF HeldKeys, KeyInv, TypeOK, Answers, WorkOf
<1>5. \A k \in Keys : keys[k] # Null => keys'[k] = keys[k]
  BY <1>2, <1>4
<1>6. \A e \in outbox : e.event \in Requests \ {r} /\ e.id \in Nat
  BY <1>2 DEF TypeOK, OutboxRow, CreatedKeys
<1>7. \A e \in tx[r].events :
        /\ tx[r].row # Null
        /\ e.event = r /\ e.id \in Nat
        /\ e.path = call[r].path /\ e.type = EventType(call[r].op)
        /\ e.payload = EventPayload(call[r].op, agg[r])
        /\ \A f \in outbox : f.path = e.path => f.id < e.id
  BY DEF EventsInv, EventsOf, StagedOnce, OrderInv, TypeOK, WriteSet, OutboxRow
<1>8. \/ /\ agg[r] # Null /\ tx[r].row # Null
         /\ code[r] = SuccessCode(call[r].op)
         /\ \A t \in Topics : \E e \in tx[r].events : e.topic = t
      \/ /\ agg[r] = Null /\ tx[r].events = {}
         /\ call[r].op = "define" /\ code[r] \in {400, 409, 422}
  <2>1. \/ agg[r] # Null /\ tx[r].row # Null /\ code[r] = SuccessCode(call[r].op)
        \/ /\ agg[r] = Null /\ tx[r].row = Null
           /\ call[r].op = "define" /\ code[r] \in {400, 409, 422}
    BY <1>2 DEF Answers, WorkOf
  <2>2. tx[r].row # Null => \A t \in Topics : \E e \in tx[r].events : e.topic = t
    BY <1>2 DEF EventsInv, EventsOf
  <2>. QED  BY <1>7, <2>1, <2>2
<1>9. Answers'
  <2>1. ASSUME NEW q \in Requests \ {r} PROVE WorkOf(q)' /\ ReplyOf(q)'
    <3>1. WorkOf(q) /\ ReplyOf(q)
      BY DEF Answers
    <3>2. WorkOf(q)'
      BY <1>2, <3>1 DEF WorkOf, RequestHash
    <3>3. reply[q] # Null => call[q].key \in Keys \cup {Null}
      <4>1. reply[q] # Null => stage[q] # "new"
        BY <3>1 DEF WorkOf
      <4>. QED  BY <4>1, BodyTypes DEF TypeOK
    <3>4. ReplyOf(q)'
      BY <1>2, <1>5, <3>1, <3>3 DEF ReplyOf, RequestHash
    <3>. QED  BY <3>2, <3>4
  <2>2. WorkOf(r)'
    BY <1>2 DEF Answers, WorkOf, NoWrites, Topics
  <2>3. ASSUME call[r].op = "define"
        PROVE  /\ call[r].key # Null /\ keys'[call[r].key] # Null
               /\ code[r] = ReplayCode(keys'[call[r].key], RequestHash(r))
    <3>1. tx[r].key # Null
      BY <1>2, <2>3 DEF KeyInv, Writing
    <3>2. call[r].key # Null /\ code[r] # Null
      BY <1>3, <3>1, CatalogueAssumption DEF KeyInv
    <3>. QED  BY <1>4, <3>1, <3>2 DEF ReplayCode
  <2>4. code[r] = 201 => call[r].op = "define"
    BY <1>8 DEF SuccessCode
  <2>5. agg[r] # Null => \E e \in outbox' : e.event = r
    <3>1. "integration" \in Topics
      BY DEF Topics
    <3>. QED  BY <1>2, <1>7, <1>8, <3>1
  <2>6. ReplyOf(r)'
    BY <1>2, <2>3, <2>4, <2>5 DEF ReplyOf, RequestHash
  <2>. QED  BY <2>1, <2>2, <2>6 DEF Answers
<1>10. OwnEvents'
  <2>1. ASSUME NEW e \in outbox
        PROVE  /\ agg'[e.event] # Null /\ e.path = call'[e.event].path
               /\ e.type = EventType(call'[e.event].op)
               /\ e.payload = EventPayload(call'[e.event].op, agg'[e.event])
               /\ reply'[e.event] \in {SuccessCode(call'[e.event].op), 500}
    BY <1>2, <1>6 DEF OwnEvents
  <2>2. ASSUME NEW e \in tx[r].events
        PROVE  /\ agg'[r] # Null
               /\ reply'[r] \in {SuccessCode(call'[r].op), 500}
    BY <1>2, <1>8
  <2>. QED  BY <1>2, <1>7, <2>1, <2>2 DEF OwnEvents
<1>11. GroupInv'
  <2>1. \A e \in outbox, t \in Topics :
          \E f \in outbox' : f.event = e.event /\ f.topic = t
    BY <1>2 DEF GroupInv
  <2>2. \A e \in tx[r].events, t \in Topics :
          \E f \in outbox' : f.event = e.event /\ f.topic = t
    BY <1>2, <1>7, <1>8
  <2>3. \A e, f \in outbox' : e.event = f.event /\ e.topic = f.topic => e = f
    BY <1>2, <1>6, <1>7 DEF GroupInv, StagedOnce
  <2>. QED  BY <1>2, <2>1, <2>2, <2>3 DEF GroupInv
<1>12. GroupOrder'
  <2> SUFFICES ASSUME NEW e \in outbox', NEW f \in outbox',
                      NEW e2 \in outbox', NEW f2 \in outbox',
                      e.path = f.path, e.event # f.event,
                      e2.event = e.event, f2.event = f.event, e.id < f.id
               PROVE  e2.id < f2.id
    BY DEF GroupOrder
  <2>1. \A g \in outbox' : g \in outbox \/ g \in tx[r].events
    BY <1>2
  <2>2. CASE e \in outbox /\ f \in outbox
    <3>1. e2 \in outbox /\ f2 \in outbox
      BY <1>6, <1>7, <2>1, <2>2
    <3>. QED  BY <2>2, <3>1 DEF GroupOrder
  <2>3. CASE e \in outbox /\ f \in tx[r].events
    <3>1. e2 \in outbox /\ f2 \in tx[r].events
      BY <1>6, <1>7, <2>1, <2>3
    <3>2. e2.path = f2.path
      BY <1>7, <2>3, <3>1 DEF OwnEvents
    <3>. QED  BY <1>7, <3>1, <3>2
  <2>4. CASE e \in tx[r].events /\ f \in outbox
    BY <1>6, <1>7, <2>4
  <2>5. CASE e \in tx[r].events /\ f \in tx[r].events
    BY <1>7, <2>5
  <2>. QED  BY <2>1, <2>2, <2>3, <2>4, <2>5
<1>13. KeyTells'
  <2>1. ASSUME NEW k \in Keys, keys'[k] # Null, keys'[k].status = 201
        PROVE  \E e \in outbox' :
                 /\ call[e.event].op = "define" /\ call[e.event].key = k
                 /\ RequestHash(e.event) = keys'[k].hash
    <3>1. CASE keys[k] # Null
      BY <1>2, <1>5, <2>1, <3>1 DEF KeyTells
    <3>2. CASE keys[k] = Null
      <4>1. tx[r].key # Null /\ k = call[r].key
        BY <1>2, <1>4, <2>1, <3>2
      <4>2. code[r] = 201
        BY <1>4, <2>1, <4>1
      <4>3. PICK e \in tx[r].events : e.topic = "integration"
        BY <1>8, <4>2 DEF Topics
      <4>. QED  BY <1>2, <1>4, <1>7, <4>1, <4>3
    <3>. QED  BY <3>1, <3>2
  <2>. QED  BY <1>2, <2>1 DEF KeyTells, RequestHash
<1>. QED  BY <1>9, <1>10, <1>11, <1>12, <1>13

LEMMA Inv4Step == Inv4 /\ [Next]_vars => Inv4'
<1> SUFFICES ASSUME Inv4, [Next]_vars PROVE Inv4'
  OBVIOUS
<1>1. Inv3'
  BY Inv3Step DEF Inv4
<1> DEFINE Kept == Answers /\ OwnEvents /\ GroupInv /\ GroupOrder /\ KeyTells
<1>2. ASSUME NEW r \in Requests, Arrive(r) \/ Progress(r) \/ RollBack(r)
      PROVE  Kept'
  BY <1>2, PrivateStep, PrivateKeeps, CommitAnswers DEF Progress
<1>3. ASSUME UNCHANGED vars PROVE Kept'
  BY <1>3
  DEF vars, Inv4, Answers, WorkOf, ReplyOf, RequestHash, OwnEvents, GroupInv,
      GroupOrder, KeyTells
<1>. QED  BY <1>1, <1>2, <1>3 DEF Inv4, Next, Quiescent

LEMMA TopicsFollow == Inv4 => TopicsAgree
<1> SUFFICES ASSUME Inv4, NEW e \in outbox, NEW t \in Topics
             PROVE  \E f \in outbox :
                      /\ f.topic = t /\ f.event = e.event
                      /\ f.path = e.path /\ f.type = e.type
                      /\ f.payload = e.payload
                      /\ \A g \in OnTopic(f.path, t) : g.event = f.event => g = f
                      /\ \A e2 \in OnTopic(e.path, e.topic),
                            f2 \in OnTopic(e.path, t) :
                           e2.event = f2.event => (e.id < e2.id <=> f.id < f2.id)
  BY DEF TopicsAgree
<1> USE DEF Inv4
<1>1. PICK f \in outbox : f.event = e.event /\ f.topic = t
  BY DEF GroupInv
<1>2. f.path = e.path /\ f.type = e.type /\ f.payload = e.payload
  BY <1>1 DEF OwnEvents
<1>3. \A g \in OnTopic(f.path, t) : g.event = f.event => g = f
  BY <1>1 DEF GroupInv, OnTopic
<1>4. ASSUME NEW e2 \in OnTopic(e.path, e.topic), NEW f2 \in OnTopic(e.path, t),
             e2.event = f2.event
      PROVE  e.id < e2.id <=> f.id < f2.id
  <2>1. /\ e2 \in outbox /\ e2.path = e.path /\ e2.topic = e.topic
        /\ f2 \in outbox /\ f2.path = e.path /\ f2.topic = t
    BY <1>4 DEF OnTopic
  <2>2. e.id \in Nat /\ e2.id \in Nat /\ f.id \in Nat /\ f2.id \in Nat
    BY <2>1 DEF Inv3, Inv2, Inv1, TypeOK, OutboxRow
  <2>3. CASE e2.event = e.event
    <3>1. \A g, h \in outbox : g.event = h.event /\ g.topic = h.topic => g = h
      BY DEF GroupInv
    <3>2. e2 = e
      BY <2>1, <2>3, <3>1
    <3>3. f2 = f
      BY <1>1, <1>4, <2>1, <2>3, <3>1
    <3>. QED  BY <2>2, <3>2, <3>3
  <2>4. CASE e2.event # e.event
    BY <1>1, <1>2, <1>4, <2>1, <2>4 DEF GroupOrder
  <2>. QED  BY <2>3, <2>4
<1>. QED  BY <1>1, <1>2, <1>3, <1>4

LEMMA RetriesFollow == Inv4 => RetriesAgree
<1> SUFFICES ASSUME Inv4, NEW r \in Requests, NEW q \in Requests,
                    reply[r] \notin {Null, 500}, reply[q] \notin {Null, 500},
                    call[r] = call[q], call[r].op = "define"
             PROVE  reply[r] = reply[q]
  BY DEF RetriesAgree
<1>1. ReplyOf(r) /\ ReplyOf(q)
  BY DEF Inv4, Answers
<1>. QED  BY <1>1 DEF ReplyOf, RequestHash

LEMMA AnswersFollow == Inv4 => AnswersHold
<1> SUFFICES ASSUME Inv4, NEW r \in Requests
    PROVE  /\ reply[r] = 201 =>
                \E e \in outbox :
                  /\ e.type = "Created" /\ call[e.event] = call[r]
                  /\ e.payload = EventPayload("define", Define(call[r].body))
           /\ reply[r] \in {200, 204} /\ agg[r] # Null =>
                \E e \in outbox : e.event = r /\ e.path = call[r].path
           /\ reply[r] \in {400, 404, 409, 422} =>
                \A e \in outbox : e.event # r
  BY DEF AnswersHold
<1> USE DEF Inv4
<1>1. WorkOf(r) /\ ReplyOf(r)
  BY DEF Answers
<1>2. Null \notin Codes
  BY CatalogueAssumption
<1>3. ASSUME reply[r] = 201
      PROVE  \E e \in outbox :
               /\ e.type = "Created" /\ call[e.event] = call[r]
               /\ e.payload = EventPayload("define", Define(call[r].body))
  <2>1. stage[r] # "new" /\ call[r] \in Call
    BY <1>1, <1>2, <1>3 DEF WorkOf, Codes, Inv3, Inv2, Inv1, TypeOK
  <2>2. /\ call[r].op = "define" /\ call[r].key \in Keys
        /\ keys[call[r].key] # Null
        /\ 201 = ReplayCode(keys[call[r].key], RequestHash(r))
    BY <1>1, <1>2, <1>3, <2>1, BodyTypes DEF ReplyOf, Codes
  <2>3. /\ keys[call[r].key].status = 201
        /\ keys[call[r].key].hash = RequestHash(r)
    BY <2>2 DEF ReplayCode
  <2>4. PICK e \in outbox : /\ call[e.event].op = "define"
                            /\ call[e.event].key = call[r].key
                            /\ RequestHash(e.event) = RequestHash(r)
    BY <2>2, <2>3 DEF KeyTells
  <2>5. e.event \in Requests /\ stage[e.event] = "done"
    BY DEF Inv3, Inv2, Inv1, TypeOK, OutboxRow, CreatedKeys
  <2>6. call[e.event] \in Call
    BY <2>5 DEF Inv3, Inv2, Inv1, TypeOK
  <2>7. call[e.event] = call[r]
    BY <2>1, <2>2, <2>4, <2>6 DEF Call, RequestHash
  <2>8. e.type = "Created" /\ agg[e.event] = Define(call[r].body)
    BY <2>4, <2>5, <2>7 DEF OwnEvents, EventType, Answers, WorkOf
  <2>9. e.payload = EventPayload("define", Define(call[r].body))
    BY <2>4, <2>8 DEF OwnEvents
  <2>. QED  BY <2>7, <2>8, <2>9
<1>4. reply[r] \in {200, 204} /\ agg[r] # Null =>
        \E e \in outbox : e.event = r /\ e.path = call[r].path
  BY <1>1, <1>2 DEF ReplyOf, OwnEvents, Codes
<1>5. reply[r] \in {400, 404, 409, 422} => \A e \in outbox : e.event # r
  BY DEF OwnEvents, SuccessCode
<1>. QED  BY <1>3, <1>4, <1>5

(* The topics never diverge: every committed event is on each topic, once, *)
(* saying the same, and any two events of a path are in the same order.    *)
THEOREM TopicsAlwaysAgree == Spec => []TopicsAgree
BY Inv4Init, Inv4Step, TopicsFollow, PTL DEF Spec

(* However attempts with one key and body race, fail and are replayed, two *)
(* of them that are answered (a 500 excepted) are answered alike.          *)
THEOREM RetriesAlwaysAgree == Spec => []RetriesAgree
BY Inv4Init, Inv4Step, RetriesFollow, PTL DEF Spec

(* No answer lies about what was committed. *)
THEOREM AnswersAlwaysHold == Spec => []AnswersHold
BY Inv4Init, Inv4Step, AnswersFollow, PTL DEF Spec

-----------------------------------------------------------------------------
(* One operator at a time *)

InFlight(r) == stage[r] \notin {"new", "done"}

OneAtATime == \A r, q \in Requests : InFlight(r) /\ InFlight(q) => r = q

(* What the request in flight has read of its path is what is stored. *)
FreshOf(r) ==
  stage[r] \in {"save"} \cup Writing /\ agg[r] # Null =>
    /\ Verdict(call[r], paths[call[r].path]) = Null
    /\ agg[r] = Outcome(call[r], paths[call[r].path])
    /\ tx[r].row \in {Null, Upsert(paths[call[r].path], agg[r])}

(* A path that was announced is stored, a deactivated one as such. *)
PathTells ==
  \A e \in outbox :
    /\ paths[e.path] # Null
    /\ e.type = "Deactivated" => paths[e.path].status = "DEACTIVATED"

SerialInv ==
  Inv4 /\ OneAtATime /\ PathTells /\ \A r \in Requests : FreshOf(r)

LEMMA SerialInit == Init => SerialInv /\ DefinedOnce /\ DeactivatedOnce
<1>1. Init => /\ OneAtATime /\ PathTells /\ DefinedOnce /\ DeactivatedOnce
              /\ \A r \in Requests : FreshOf(r)
  BY DEF Init, OneAtATime, InFlight, PathTells, FreshOf, Writing, Topics,
         DefinedOnce, DeactivatedOnce
<1>. QED  BY <1>1, Inv4Init DEF SerialInv

(* No request goes on to save a path it finds deactivated, and no POST one *)
(* it finds at all.                                                        *)
LEMMA StoppedByStatus ==
  ASSUME NEW c \in Call, NEW row, row # Null, Verdict(c, row) = Null
  PROVE  c.op # "define" /\ row.status # "DEACTIVATED"
<1>1. c.op \in Ops
  BY BodyTypes
<1>2. Null \notin {400, 409, 422, 204}
  BY CatalogueAssumption DEF Codes
<1>3. CASE c.op = "define"
  BY <1>2, <1>3 DEF Verdict, Taken
<1>4. CASE c.op = "revise"
  BY <1>2, <1>4 DEF Verdict, IsActive
<1>5. CASE c.op = "deactivate"
  BY <1>2, <1>5 DEF Verdict, IsActive
<1>. QED  BY <1>1, <1>3, <1>4, <1>5 DEF Ops

(* A commit changes nothing, or it stores and announces what its request   *)
(* decided on the row that it replaces.                                    *)
LEMMA SerialCommit ==
  ASSUME SerialInv, NEW r \in Requests, Commit(r),
         ~ UNCHANGED <<paths, outbox>>
  PROVE  LET p == call[r].path
         IN /\ call[r] \in Call /\ p \in Paths
            /\ Verdict(call[r], paths[p]) = Null
            /\ agg[r] = Outcome(call[r], paths[p]) /\ agg[r] \in Aggregate
            /\ paths[p] \in Row \cup {Null}
            /\ paths' = [paths EXCEPT ![p] = Upsert(paths[p], agg[r])]
            /\ outbox' = outbox \cup tx[r].events
            /\ \A e \in tx[r].events :
                 /\ e.event = r /\ e.path = p
                 /\ e.type = EventType(call[r].op)
                 /\ e.payload = EventPayload(call[r].op, agg[r])
<1> USE DEF SerialInv, Inv4, Inv3, Inv2, Inv1
<1> DEFINE p == call[r].path
<1>1. stage[r] = "commit" /\ call[r] \in Call /\ p \in Paths
  BY BodyTypes DEF Commit, TypeOK
<1>2. /\ outbox' = outbox \cup tx[r].events
      /\ paths' = IF tx[r].row = Null THEN paths
                  ELSE [paths EXCEPT ![p] = tx[r].row]
  BY DEF Commit
<1>3. /\ paths[p] \in Row \cup {Null} /\ agg[r] \in Aggregate \cup {Null}
  BY <1>1 DEF TypeOK
<1>4. \A e \in tx[r].events :
        /\ tx[r].row # Null
        /\ e.event = r /\ e.path = p
        /\ e.type = EventType(call[r].op)
        /\ e.payload = EventPayload(call[r].op, agg[r])
  BY DEF EventsInv, EventsOf, StagedOnce
<1>5. tx[r].row # Null
  <2>1. ASSUME tx[r].row = Null PROVE UNCHANGED <<paths, outbox>>
    BY <1>2, <1>4, <2>1
  <2>. QED  BY <2>1
<1>6. agg[r] # Null
  BY <1>5 DEF EventsInv, EventsOf
<1>7. FreshOf(r)
  OBVIOUS
<1>. QED  BY <1>1, <1>2, <1>3, <1>4, <1>5, <1>6, <1>7 DEF FreshOf, Writing

(* The request that takes a step is the one in flight. *)
LEMMA SerialStage ==
  ASSUME SerialInv, NEW r \in Requests,
         \/ Arrive(r) /\ \A q \in Requests : stage[q] \in {"new", "done"}
         \/ Progress(r) \/ RollBack(r)
  PROVE  /\ OneAtATime'
         /\ \A q \in Requests \ {r} : ~InFlight(q) /\ stage'[q] = stage[q]
<1>1. \A q \in Requests \ {r} : stage'[q] = stage[q]
  BY DEF SerialInv, Inv4, Inv3, Inv2, Inv1, TypeOK, Arrive, Progress,
         RefuseMissingKey, InsertKey, Replay, FindAndStop, FindAndChange, Save,
         Publish, RecordOutcome, Commit, RollBack, Answer, Goto
<1>2. InFlight(r) \/ \A q \in Requests : ~InFlight(q)
  BY DEF InFlight, Arrive, Progress, RefuseMissingKey, InsertKey, Replay,
         FindAndStop, FindAndChange, Save, Publish, RecordOutcome, Commit,
         RollBack, Topics
<1>3. \A q \in Requests \ {r} : ~InFlight(q)
  BY <1>2 DEF SerialInv, OneAtATime
<1>. QED  BY <1>1, <1>3 DEF OneAtATime, InFlight

LEMMA FreshStep ==
  ASSUME SerialInv, NEW r \in Requests,
         \/ Arrive(r) /\ \A q \in Requests : stage[q] \in {"new", "done"}
         \/ Progress(r) \/ RollBack(r)
  PROVE  \A q \in Requests : FreshOf(q)'
<1> USE DEF SerialInv, Inv4, Inv3, Inv2, Inv1
<1>1. ASSUME NEW q \in Requests \ {r} PROVE FreshOf(q)'
  BY <1>1, SerialStage DEF FreshOf, InFlight, Writing, Topics
<1> SUFFICES FreshOf(r)'
  BY <1>1
<1>2. ASSUME NEW c, Answer(r, c) PROVE FreshOf(r)'
  BY <1>2 DEF Answer, Goto, TypeOK, FreshOf, Writing, Topics
<1>3. CASE Arrive(r)
  <2>1. stage'[r] \in {"insertKey", "find"}
    BY <1>3 DEF Arrive, Goto, TypeOK
  <2>. QED  BY <2>1 DEF FreshOf, Writing, Topics
<1>4. CASE RefuseMissingKey(r) \/ Replay(r) \/ Commit(r) \/ RollBack(r)
  BY <1>2, <1>4 DEF RefuseMissingKey, Replay, Commit, RollBack
<1>5. CASE InsertKey(r)
  <2>1. stage'[r] \in {"find", "replay"}
    BY <1>5 DEF InsertKey, Goto, TypeOK
  <2>. QED  BY <2>1 DEF FreshOf, Writing, Topics
<1>6. CASE FindAndStop(r)
  <2>1. agg'[r] = Null
    BY <1>6 DEF FindAndStop, Answers, WorkOf
  <2>. QED  BY <2>1 DEF FreshOf
<1>7. CASE FindAndChange(r)
  <2>1. tx[r].row = Null
    BY <1>7, NothingStaged DEF FindAndChange, Writing, Topics
  <2>. QED  BY <1>7, <2>1 DEF FindAndChange, TypeOK, FreshOf, tables
<1>8. CASE Save(r)
  <2>1. stage[r] = "save" /\ tx'[r].row = Upsert(paths[call[r].path], agg[r])
        /\ UNCHANGED <<paths, call, agg>>
    BY <1>8 DEF Save, TypeOK, WriteSet, tables
  <2>. QED  BY <2>1 DEF FreshOf
<1>9. CASE Publish(r)
  <2>1. stage[r] \in Topics /\ tx'[r].row = tx[r].row
        /\ UNCHANGED <<paths, call, agg>>
    BY <1>9 DEF Publish, TypeOK, WriteSet
  <2>. QED  BY <2>1 DEF FreshOf, Writing
<1>10. CASE RecordOutcome(r)
  <2>1. stage[r] = "record" /\ tx'[r].row = tx[r].row
        /\ UNCHANGED <<paths, call, agg>>
    BY <1>10 DEF RecordOutcome, TypeOK, WriteSet, tables
  <2>. QED  BY <2>1 DEF FreshOf, Writing
<1>. QED
  BY <1>3, <1>4, <1>5, <1>6, <1>7, <1>8, <1>9, <1>10 DEF Progress

LEMMA PathTellsStep ==
  ASSUME SerialInv, [SerialNext]_vars
  PROVE  PathTells'
<1>1. CASE UNCHANGED <<paths, outbox>>
  BY <1>1 DEF SerialInv, PathTells
<1>2. ASSUME NEW r \in Requests, Commit(r), ~ UNCHANGED <<paths, outbox>>
      PROVE  PathTells'
  <2> DEFINE p == call[r].path
  <2>1. /\ call[r] \in Call /\ p \in Paths
        /\ Verdict(call[r], paths[p]) = Null
        /\ agg[r] = Outcome(call[r], paths[p]) /\ agg[r] \in Aggregate
        /\ paths[p] \in Row \cup {Null}
        /\ paths' = [paths EXCEPT ![p] = Upsert(paths[p], agg[r])]
        /\ outbox' = outbox \cup tx[r].events
        /\ \A e \in tx[r].events :
             e.path = p /\ e.type = EventType(call[r].op)
    BY <1>2, SerialCommit
  <2>2. /\ Upsert(paths[p], agg[r]) # Null
        /\ Upsert(paths[p], agg[r]).status =
              IF call[r].op = "deactivate" THEN "DEACTIVATED" ELSE "ACTIVE"
    BY <2>1, UpsertType, OutcomeType, CatalogueAssumption
  <2>3. /\ paths'[p] = Upsert(paths[p], agg[r])
        /\ \A q \in Paths \ {p} : paths'[q] = paths[q]
    BY <2>1 DEF SerialInv, Inv4, Inv3, Inv2, Inv1, TypeOK
  <2>4. ASSUME NEW e \in outbox
        PROVE  /\ paths'[e.path] # Null
               /\ e.type = "Deactivated" => paths'[e.path].status = "DEACTIVATED"
    <3>1. e.path \in Paths
      BY DEF SerialInv, Inv4, Inv3, Inv2, Inv1, TypeOK, OutboxRow
    <3>2. CASE e.path = p
      BY <2>1, <2>2, <2>3, <3>2, StoppedByStatus DEF SerialInv, PathTells
    <3>3. CASE e.path # p
      BY <2>3, <3>1, <3>3 DEF SerialInv, PathTells
    <3>. QED  BY <3>2, <3>3
  <2>5. ASSUME NEW e \in tx[r].events
        PROVE  /\ paths'[e.path] # Null
               /\ e.type = "Deactivated" => paths'[e.path].status = "DEACTIVATED"
    BY <2>1, <2>2, <2>3, BodyTypes DEF EventType, Ops
  <2>. QED  BY <2>1, <2>4, <2>5 DEF PathTells
<1>3. [Next]_vars
  BY DEF SerialNext, Next
<1>4. Inv2
  BY DEF SerialInv, Inv4, Inv3
<1>. QED  BY <1>1, <1>2, <1>3, <1>4, OnlyCommitWrites

LEMMA SerialStep == SerialInv /\ [SerialNext]_vars => SerialInv'
<1> SUFFICES ASSUME SerialInv, [SerialNext]_vars PROVE SerialInv'
  OBVIOUS
<1>1. Inv4'
  <2>1. [Next]_vars
    BY DEF SerialNext, Next
  <2>. QED  BY <2>1, Inv4Step DEF SerialInv
<1>2. PathTells'
  BY PathTellsStep
<1>3. ASSUME NEW r \in Requests,
             \/ Arrive(r) /\ \A q \in Requests : stage[q] \in {"new", "done"}
             \/ Progress(r) \/ RollBack(r)
      PROVE  OneAtATime' /\ \A q \in Requests : FreshOf(q)'
  BY <1>3, SerialStage, FreshStep
<1>4. ASSUME UNCHANGED vars PROVE OneAtATime' /\ \A q \in Requests : FreshOf(q)'
  BY <1>4 DEF vars, SerialInv, OneAtATime, InFlight, FreshOf
<1>. QED  BY <1>1, <1>2, <1>3, <1>4 DEF SerialInv, SerialNext, Quiescent

(* A committed event and one that a transaction adds to the same path are  *)
(* neither both definitions nor both deactivations.                        *)
LEMMA OnceStep ==
  SerialInv /\ DefinedOnce /\ DeactivatedOnce /\ [SerialNext]_vars
    => DefinedOnce' /\ DeactivatedOnce'
<1> SUFFICES ASSUME SerialInv, DefinedOnce, DeactivatedOnce, [SerialNext]_vars
             PROVE  DefinedOnce' /\ DeactivatedOnce'
  OBVIOUS
<1>1. CASE UNCHANGED outbox
  BY <1>1 DEF DefinedOnce, DeactivatedOnce
<1>2. ASSUME NEW r \in Requests, Commit(r), ~ UNCHANGED outbox
      PROVE  DefinedOnce' /\ DeactivatedOnce'
  <2> DEFINE p == call[r].path
  <2>1. /\ call[r] \in Call /\ p \in Paths
        /\ Verdict(call[r], paths[p]) = Null
        /\ outbox' = outbox \cup tx[r].events
        /\ \A e \in tx[r].events :
             e.path = p /\ e.type = EventType(call[r].op)
    BY <1>2, SerialCommit
  <2>2. ASSUME NEW e \in outbox, NEW f \in tx[r].events, e.path = f.path
        PROVE  f.type # "Created" /\ e.type # "Deactivated"
    <3>1. paths[p] # Null /\ call[r].op # "define"
      BY <2>1, <2>2, StoppedByStatus DEF SerialInv, PathTells
    <3>2. e.type # "Deactivated"
      BY <2>1, <2>2, <3>1, StoppedByStatus DEF SerialInv, PathTells
    <3>. QED  BY <2>1, <3>1, <3>2 DEF EventType
  <2>3. \A e, f \in tx[r].events : e.topic = f.topic => e = f
    BY DEF SerialInv, Inv4, Inv3, StagedOnce
  <2>4. \A e \in outbox' : e \in outbox \/ e \in tx[r].events
    BY <2>1
  <2>5. DefinedOnce'
    BY <2>2, <2>3, <2>4 DEF DefinedOnce
  <2>6. DeactivatedOnce'
    BY <2>2, <2>3, <2>4 DEF DeactivatedOnce
  <2>. QED  BY <2>5, <2>6
<1>3. [Next]_vars /\ Inv2
  BY DEF SerialNext, Next, SerialInv, Inv4, Inv3
<1>. QED  BY <1>1, <1>2, <1>3, OnlyCommitWrites

(* With one operator at a time a path id is defined once.                  *)
THEOREM SerialDefinedOnce == SerialSpec => []DefinedOnce
BY SerialInit, SerialStep, OnceStep, PTL DEF SerialSpec

(* With one operator at a time a path is deactivated once.                 *)
THEOREM SerialDeactivatedOnce == SerialSpec => []DeactivatedOnce
BY SerialInit, SerialStep, OnceStep, PTL DEF SerialSpec

(* With one operator at a time the row of a deactivated path never changes *)
(* again.                                                                  *)
THEOREM SerialDeactivationIsTerminal == SerialSpec => DeactivationIsTerminal
<1> DEFINE Stays == \A p \in Paths :
                      paths[p] # Null /\ paths[p].status = "DEACTIVATED"
                        => paths'[p] = paths[p]
<1>1. SerialInv /\ [SerialNext]_vars => [Stays]_paths
  <2> SUFFICES ASSUME SerialInv, [SerialNext]_vars, ~ UNCHANGED paths
               PROVE  Stays
    OBVIOUS
  <2>1. [Next]_vars /\ Inv2
    BY DEF SerialNext, Next, SerialInv, Inv4, Inv3
  <2>2. PICK r \in Requests : Commit(r)
    BY <2>1, OnlyCommitWrites
  <2>3. /\ call[r] \in Call /\ call[r].path \in Paths
        /\ Verdict(call[r], paths[call[r].path]) = Null
        /\ \A q \in Paths \ {call[r].path} : paths'[q] = paths[q]
    BY <2>2, SerialCommit DEF SerialInv, Inv4, Inv3, Inv2, Inv1, TypeOK
  <2>. QED  BY <2>3, StoppedByStatus
<1>. QED
  BY <1>1, SerialInit, SerialStep, PTL DEF SerialSpec, DeactivationIsTerminal

(* A revision that is not a no-op changes the row, unless the row cannot   *)
(* hold its cycle time.                                                    *)
LEMMA RevisionShows ==
  ASSUME NEW c \in Call, NEW row \in Row, c.op = "revise",
         Verdict(c, row) = Null
  PROVE  \/ Upsert(row, Outcome(c, row)) # row
         \/ FromInterval(ToInterval(Outcome(c, row).cycle)) # Outcome(c, row).cycle
<1> DEFINE a == Outcome(c, row)
<1>1. c.body.terms \in Terms /\ c.body.cycle \in Nat
  BY CyclesAssumption DEF Call, Body
<1>2. /\ a.terms = c.body.terms /\ a.cycle = c.body.cycle
      /\ a \in Aggregate
  BY OutcomeType DEF Outcome, Revise, Rehydrate
<1>3. ~ SameTerms(Rehydrate(row), c.body)
  BY CatalogueAssumption DEF Verdict, Codes
<1>4. row.terms # c.body.terms \/ FromInterval(row.micros) # c.body.cycle
  BY <1>3 DEF SameTerms, Rehydrate
<1>5. /\ Upsert(row, a).terms = a.terms
      /\ Upsert(row, a).micros = ToInterval(a.cycle)
  BY <1>2, UpsertType
<1> HIDE DEF a
<1>6. \/ Upsert(row, a) # row \/ FromInterval(ToInterval(a.cycle)) # a.cycle
  BY <1>2, <1>4, <1>5
<1>. QED  BY <1>6 DEF a

(* With one operator at a time a ProcessPathUpdated means a changed row,   *)
(* unless the row cannot hold the cycle time it carries.                   *)
THEOREM SerialUpdatesChange == SerialSpec => UpdatedMeansChanged
<1> DEFINE Shows ==
      \A e \in outbox' \ outbox :
        e.type = "Updated" =>
          \/ paths'[e.path] # paths[e.path]
          \/ FromInterval(ToInterval(e.payload.cycle)) # e.payload.cycle
<1>1. SerialInv /\ [SerialNext]_vars => [Shows]_<<outbox, paths>>
  <2> SUFFICES ASSUME SerialInv, [SerialNext]_vars,
                      ~ UNCHANGED <<outbox, paths>>
               PROVE  Shows
    OBVIOUS
  <2>1. [Next]_vars /\ Inv2
    BY DEF SerialNext, Next, SerialInv, Inv4, Inv3
  <2>2. PICK r \in Requests : Commit(r)
    BY <2>1, OnlyCommitWrites
  <2> DEFINE p == call[r].path
  <2>3. /\ call[r] \in Call /\ p \in Paths
        /\ Verdict(call[r], paths[p]) = Null
        /\ agg[r] = Outcome(call[r], paths[p])
        /\ paths[p] \in Row \cup {Null}
        /\ paths' = [paths EXCEPT ![p] = Upsert(paths[p], agg[r])]
        /\ outbox' = outbox \cup tx[r].events
        /\ \A e \in tx[r].events :
             /\ e.path = p /\ e.type = EventType(call[r].op)
             /\ e.payload = EventPayload(call[r].op, agg[r])
    BY <2>2, SerialCommit
  <2>4. paths'[p] = Upsert(paths[p], agg[r])
    BY <2>3 DEF SerialInv, Inv4, Inv3, Inv2, Inv1, TypeOK
  <2>5. ASSUME NEW e \in tx[r].events, e.type = "Updated"
        PROVE  \/ paths'[e.path] # paths[e.path]
               \/ FromInterval(ToInterval(e.payload.cycle)) # e.payload.cycle
    <3>1. call[r].op = "revise"
      BY <2>3, <2>5, BodyTypes DEF EventType, Ops
    <3>2. paths[p] \in Row
      BY <2>3, <3>1, CatalogueAssumption DEF Verdict, Codes
    <3>3. e.payload.cycle = agg[r].cycle
      BY <2>3, <3>1 DEF EventPayload
    <3>. QED  BY <2>3, <2>4, <3>1, <3>2, <3>3, RevisionShows
  <2>. QED  BY <2>3, <2>5
<1>. QED
  BY <1>1, SerialInit, SerialStep, PTL DEF SerialSpec, UpdatedMeansChanged
=============================================================================
