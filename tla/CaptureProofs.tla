--------------------------- MODULE CaptureProofs ---------------------------
(***************************************************************************)
(* What Capture promises, for every set of migrations.                     *)
(***************************************************************************)
EXTENDS Capture, SequenceTheorems, TLAPS

(***************************************************************************)
(* The inductive invariant.  FateKnown and SuccessMeansLanded are about    *)
(* what the client wrote down; to be inductive they need where the loop is *)
(* and what the server may have done that the client has not heard of.     *)
(***************************************************************************)

\* Until the loop ends, nothing has failed.
CleanSoFar ==
  pc # "done" => /\ success /\ ~timedOut
                 /\ \A n \in 1 .. Len(stmts) : ~Failed(stmts[n])

\* Where the loop is tells what kind of statement it is at.
AtStatement ==
  /\ pc \in {"exec", "lock", "commit"} => i <= Len(script) /\ Current \in Transactional
  /\ pc = "direct" => i <= Len(script) /\ Current \in Direct
  /\ pc = "setup" => i = 1
  /\ poisoned => pc = "commit"

\* The server has done every statement the loop is past, and at most one
\* more: the current one, unseen, when the link went down under it.
Unseen == i \in landed

ServerDid ==
  /\ \A k \in 1 .. Len(script) : k < i /\ Runs(script[k]) => k \in landed
  /\ \A k \in landed : k <= i /\ Runs(script[k])
  /\ Unseen => /\ link = "down" /\ ~poisoned
               /\ pc \in {"direct", "commit", "done"}

\* Every record but a failed one is of a statement the loop is past; a failed
\* one is the last, of the statement the loop stopped at.
Recorded ==
  /\ \A n \in 1 .. Len(stmts) :
       /\ ~Failed(stmts[n]) => stmts[n].at < i
       /\ Failed(stmts[n]) => n = Len(stmts) /\ stmts[n].at = i /\ i <= Len(script)
       /\ stmts[n].cut => stmts[n].err = NoError
  /\ pc = "done" =>
       \/ success /\ ~timedOut /\ i > Len(script)
          /\ \A n \in 1 .. Len(stmts) : ~Failed(stmts[n])
       \/ /\ stmts # <<>> /\ Runs(Current)
          /\ timedOut = stmts[Len(stmts)].cut /\ success = timedOut
          /\ Failed(stmts[Len(stmts)])
          /\ Unseen => stmts[Len(stmts)].err = "EXEC"

IInv == TypeOK /\ CleanSoFar /\ AtStatement /\ ServerDid /\ Recorded
-----------------------------------------------------------------------------
StatementRecord == [at : 1 .. Len(script), err : ErrCodes, cut : BOOLEAN]

\* The records of a capture are records.
LEMMA RecordTypes ==
  ASSUME TypeOK
  PROVE  \A n \in 1 .. Len(stmts) : stmts[n] \in StatementRecord
  BY ElementOfSeq DEF TypeOK, StatementRecord

\* What every use of Conclude does to the types, whatever the result was.
LEMMA ConcludeTypes ==
  ASSUME TypeOK, i <= Len(script), NEW err \in ErrCodes, Conclude(err)
  PROVE  /\ Statement(err) \in StatementRecord
         /\ stmts' \in Seq(StatementRecord)
         /\ Len(stmts') = Len(stmts) + 1
         /\ \A n \in 1 .. Len(stmts) : stmts'[n] = stmts[n]
         /\ stmts'[Len(stmts) + 1] = Statement(err)
         /\ Len(stmts) \in Nat /\ Len(script) \in Nat
         /\ script' = script /\ ceiling' = ceiling
         /\ pc' \in Locations /\ i' \in 1 .. Len(script) + 1
         /\ success' \in BOOLEAN /\ timedOut' \in BOOLEAN /\ poisoned' = FALSE
  <1>1. Len(script) \in Nat
    BY ScriptsAssumption DEF TypeOK
  <1>2. Statement(err) \in StatementRecord
    BY <1>1 DEF Statement, StatementRecord, IsCut, TypeOK, ErrCodes, NoError
  <1>3. stmts \in Seq(StatementRecord)
    BY DEF TypeOK, StatementRecord
  <1>4. stmts' = Append(stmts, Statement(err))
    BY DEF Conclude
  <1>5. /\ script' = script /\ ceiling' = ceiling /\ poisoned' = FALSE
        /\ pc' \in Locations /\ i' \in 1 .. Len(script) + 1
    BY <1>1 DEF Conclude, Locations, TypeOK
  <1>6. success' \in BOOLEAN /\ timedOut' \in BOOLEAN
    BY DEF Conclude, IsCut, TypeOK
  <1>7. QED
    BY <1>1, <1>2, <1>3, <1>4, <1>5, <1>6, AppendProperties

\* A statement that succeeded: the loop moves on, and the statement has landed
\* if it is one that runs.
LEMMA ConcludeSucceeds ==
  ASSUME IInv, pc # "done", i <= Len(script), Conclude(NoError), ~Unseen,
         link' = link, session' \in {"none", "own", "ceiling"},
         Runs(Current) => landed' = landed \union {i},
         ~Runs(Current) => landed' = landed
  PROVE  IInv'
  <1> USE DEF IInv
  <1>1. NoError \in ErrCodes
    BY DEF ErrCodes
  <1>2. /\ stmts' \in Seq(StatementRecord)
        /\ Len(stmts') = Len(stmts) + 1
        /\ \A n \in 1 .. Len(stmts) : stmts'[n] = stmts[n]
        /\ stmts'[Len(stmts) + 1] = Statement(NoError)
        /\ Len(stmts) \in Nat /\ Len(script) \in Nat
        /\ script' = script /\ ceiling' = ceiling
        /\ success' \in BOOLEAN /\ timedOut' \in BOOLEAN /\ poisoned' = FALSE
    BY <1>1, ConcludeTypes
  <1>3. IsCut(NoError) = FALSE
    BY DEF IsCut, NoError, QueryCanceled, TypeOK
  <1>4. /\ Statement(NoError) = [at |-> i, err |-> NoError, cut |-> FALSE]
        /\ success' = success /\ timedOut' = timedOut
        /\ pc' = "loop" /\ i' = i + 1
    <2>1. Statement(NoError) = [at |-> i, err |-> NoError, cut |-> FALSE]
      BY <1>3 DEF Statement
    <2>2. success' = success /\ timedOut' = timedOut
      BY <1>3 DEF Conclude, TypeOK
    <2>3. pc' = "loop" /\ i' = i + 1
      BY DEF Conclude
    <2>4. QED
      BY <2>1, <2>2, <2>3
  <1>5. i \in 1 .. Len(script)
    BY <1>2 DEF TypeOK
  <1>13. /\ landed' \subseteq landed \union {i} /\ landed \subseteq landed'
         /\ landed' \subseteq 1 .. Len(script)
    <2>1. landed \subseteq 1 .. Len(script)
      BY DEF TypeOK
    <2>2. CASE Runs(Current)
      BY <2>1, <2>2, <1>5
    <2>3. CASE ~Runs(Current)
      BY <2>1, <2>3
    <2>4. QED
      BY <2>2, <2>3
  <1>14. \A k \in landed : k \in 1 .. Len(script) /\ k <= i /\ Runs(script[k])
    BY DEF ServerDid, TypeOK
  <1>6. TypeOK'
    <2>1. stmts' \in Seq([at : 1 .. Len(script'), err : ErrCodes, cut : BOOLEAN])
      BY <1>2 DEF StatementRecord
    <2>2. pc' \in Locations /\ i' \in 1 .. Len(script') + 1
      BY <1>2, <1>4, <1>5 DEF Locations
    <2>3. QED
      BY <1>2, <1>4, <1>13, <2>1, <2>2 DEF TypeOK
  <1>7. ~Failed(stmts'[Len(stmts) + 1])
    BY <1>2, <1>4 DEF Failed
  <1>8. CleanSoFar'
    BY <1>2, <1>4, <1>7 DEF CleanSoFar, Failed
  <1>9. AtStatement'
    BY <1>2, <1>4 DEF AtStatement
  <1>10. ServerDid'
    <2>1. \A k \in landed' : k \in 1 .. Len(script) /\ k <= i
      BY <1>5, <1>13, <1>14
    <2>2. \A k \in 1 .. Len(script) : k < i + 1 /\ Runs(script[k]) => k \in landed'
      BY <1>5 DEF ServerDid, Current
    <2>3. \A k \in landed' : Runs(script[k])
      <3>1. CASE Runs(Current)
        BY <3>1, <1>13, <1>14 DEF Current
      <3>2. CASE ~Runs(Current)
        BY <3>2, <1>14
      <3>3. QED
        BY <3>1, <3>2
    <2>4. QED
      BY <1>2, <1>4, <1>5, <2>1, <2>2, <2>3 DEF ServerDid, Unseen
  <1>11. Recorded'
    <2>1. \A n \in 1 .. Len(stmts) : ~Failed(stmts[n]) /\ stmts[n].at < i
      BY DEF CleanSoFar, Recorded
    <2>2. \A n \in 1 .. Len(stmts) : stmts[n].at \in 1 .. Len(script)
      BY RecordTypes DEF StatementRecord
    <2>3. \A n \in 1 .. Len(stmts') : ~Failed(stmts'[n]) /\ stmts'[n].at < i + 1
                                     /\ ~stmts'[n].cut
      <3> SUFFICES ASSUME NEW n \in 1 .. Len(stmts')
                   PROVE  ~Failed(stmts'[n]) /\ stmts'[n].at < i + 1
        BY DEF Failed
      <3>1. CASE n \in 1 .. Len(stmts)
        <4>1. stmts'[n] = stmts[n]
          BY <1>2, <3>1
        <4>2. stmts[n].at < i + 1
          BY <1>5, <2>1, <2>2, <3>1
        <4> QED  BY <2>1, <3>1, <4>1, <4>2
      <3>2. CASE n = Len(stmts) + 1
        <4>1. stmts'[n].at = i
          BY <1>2, <1>4, <3>2
        <4> QED  BY <1>5, <1>7, <3>2, <4>1
      <3> QED  BY <1>2, <3>1, <3>2
    <2>4. QED
      BY <1>4, <2>3 DEF Recorded, Failed
  <1>12. QED
    BY <1>6, <1>8, <1>9, <1>10, <1>11

\* A statement that failed or was cut off: the loop stops at it.
LEMMA ConcludeStops ==
  ASSUME IInv, pc # "done", i <= Len(script), Runs(Current),
         NEW err \in ErrCodes \ {NoError}, Conclude(err),
         Unseen => err = "EXEC", UNCHANGED server
  PROVE  IInv'
  <1> USE DEF IInv
  <1>2. /\ stmts' \in Seq(StatementRecord)
        /\ Len(stmts') = Len(stmts) + 1
        /\ \A n \in 1 .. Len(stmts) : stmts'[n] = stmts[n]
        /\ stmts'[Len(stmts) + 1] = Statement(err)
        /\ Len(stmts) \in Nat /\ Len(script) \in Nat
        /\ script' = script /\ ceiling' = ceiling
        /\ success' \in BOOLEAN /\ timedOut' \in BOOLEAN /\ poisoned' = FALSE
    BY ConcludeTypes
  <1>4. /\ pc' = "done" /\ i' = i
        /\ timedOut' = IsCut(err) /\ success' = IsCut(err)
        /\ link' = link /\ session' = session /\ landed' = landed
    BY DEF Conclude, CleanSoFar, server, IsCut, TypeOK
  <1>5. i \in 1 .. Len(script)
    BY <1>2 DEF TypeOK
  <1>6. TypeOK'
    BY <1>2, <1>4, <1>5 DEF TypeOK, StatementRecord, Locations
  <1>7. /\ Statement(err).at = i /\ Statement(err).cut = IsCut(err)
        /\ Statement(err).err = IF IsCut(err) THEN NoError ELSE err
        /\ Failed(Statement(err))
    BY DEF Statement, Failed, IsCut, TypeOK
  <1>8. CleanSoFar' /\ AtStatement'
    BY <1>2, <1>4 DEF CleanSoFar, AtStatement
  <1>10. ServerDid'
    BY <1>2, <1>4, <1>5 DEF ServerDid, Unseen, TypeOK
  <1>11. Recorded'
    <2>1. \A n \in 1 .. Len(stmts) : ~Failed(stmts[n]) /\ stmts[n].at < i
      BY DEF CleanSoFar, Recorded
    <2>2. \A n \in 1 .. Len(stmts) : ~Failed(stmts'[n]) /\ stmts'[n].at < i
                                    /\ ~stmts'[n].cut
      BY <1>2, <2>1 DEF Failed
    <2>3. stmts' # <<>>
      BY <1>2
    <2>4. Runs(Current)'
      BY <1>2, <1>4 DEF Current
    <2>5. Unseen' => Statement(err).err = "EXEC"
      BY <1>4, <1>7 DEF Unseen, IsCut, QueryCanceled
    <2>6. \A n \in 1 .. Len(stmts') :
            /\ ~Failed(stmts'[n]) => stmts'[n].at < i'
            /\ Failed(stmts'[n]) => n = Len(stmts') /\ stmts'[n].at = i' /\ i' <= Len(script')
            /\ stmts'[n].cut => stmts'[n].err = NoError
      <3> SUFFICES ASSUME NEW n \in 1 .. Len(stmts') PROVE
            /\ ~Failed(stmts'[n]) => stmts'[n].at < i'
            /\ Failed(stmts'[n]) => n = Len(stmts') /\ stmts'[n].at = i' /\ i' <= Len(script')
            /\ stmts'[n].cut => stmts'[n].err = NoError
        OBVIOUS
      <3>1. CASE n \in 1 .. Len(stmts)
        BY <3>1, <2>2, <1>4
      <3>2. CASE n = Len(stmts) + 1
        BY <3>2, <1>2, <1>4, <1>5, <1>7
      <3>3. QED
        BY <3>1, <3>2, <1>2
    <2>7. /\ timedOut' = stmts'[Len(stmts')].cut /\ success' = timedOut'
          /\ Failed(stmts'[Len(stmts')])
          /\ Unseen' => stmts'[Len(stmts')].err = "EXEC"
      BY <1>2, <1>4, <1>7, <2>5
    <2>8. QED
      BY <1>4, <2>3, <2>4, <2>6, <2>7 DEF Recorded, Failed
  <1>12. QED
    BY <1>6, <1>8, <1>10, <1>11
\* A step that only moves the client to another place of the same statement.
LEMMA GotoKeeps ==
  ASSUME IInv, NEW loc \in Locations \ {"setup", "loop", "done"}, Goto(loc), UNCHANGED server,
         pc # "done", i <= Len(script), ~Unseen, ~poisoned,
         loc \in {"exec", "lock"} => Current \in Transactional,
         loc = "direct" => Current \in Direct,
         loc # "commit"
  PROVE  IInv'
  BY DEF IInv, TypeOK, CleanSoFar, AtStatement, ServerDid, Recorded, Unseen,
         Goto, server, Current, Failed, Locations

\* Nothing that runs is also recorded without running.
LEMMA KindsApart ==
  /\ \A k \in Transactional \union Direct : Runs(k) /\ k \notin TxControl /\ k \notin Blank
  /\ \A k \in TxControl \union Blank : ~Runs(k)
  BY DEF Runs, Transactional, Direct, TxControl, Blank

LEMMA InitIInv == Init => IInv
  <1> SUFFICES ASSUME Init PROVE IInv
    OBVIOUS
  <1>1. Len(script) \in Nat
    BY ScriptsAssumption DEF Init
  <1>2. stmts = <<>> /\ Len(stmts) = 0 /\ landed = {} /\ i = 1 /\ pc = "setup"
    BY DEF Init
  <1>3. TypeOK
    <2>1. stmts \in Seq([at : 1 .. Len(script), err : ErrCodes, cut : BOOLEAN])
      BY <1>2, EmptySeq
    <2>2. landed \subseteq 1 .. Len(script) /\ i \in 1 .. Len(script) + 1
      BY <1>1, <1>2
    <2>3. QED
      BY <2>1, <2>2 DEF Init, TypeOK, Locations
  <1>4. CleanSoFar /\ AtStatement
    BY <1>2 DEF Init, CleanSoFar, AtStatement
  <1>5. ServerDid
    BY <1>1, <1>2 DEF ServerDid, Unseen
  <1>6. Recorded
    BY <1>2 DEF Recorded
  <1>7. QED
    BY <1>3, <1>4, <1>5, <1>6 DEF IInv

LEMMA NextIInv == IInv /\ [Next]_vars => IInv'
  <1> SUFFICES ASSUME IInv, [Next]_vars PROVE IInv'
    OBVIOUS
  <1> USE DEF IInv
  <1>0. Len(script) \in Nat /\ i \in 1 .. Len(script) + 1
    BY ScriptsAssumption DEF TypeOK
  <1>1. CASE SetCeiling
    <2>1. /\ pc = "setup" /\ pc' = "loop" /\ ceiling' \in BOOLEAN
          /\ session' \in {"none", "own", "ceiling"}
          /\ UNCHANGED <<script, i, stmts, success, timedOut, poisoned, link, landed>>
      BY <1>1 DEF SetCeiling, TypeOK
    <2>2. TypeOK'
      BY <2>1 DEF TypeOK, Locations
    <2>3. CleanSoFar' /\ AtStatement' /\ ServerDid' /\ Recorded'
      BY <2>1 DEF CleanSoFar, AtStatement, ServerDid, Recorded, Unseen, Failed
    <2>4. QED
      BY <2>2, <2>3
  <1>2. CASE SkipBlank
    <2>1. /\ i \in 1 .. Len(script) /\ i' = i + 1 /\ ~Runs(script[i])
          /\ pc = "loop" /\ ~Unseen
          /\ UNCHANGED <<script, pc, ceiling, stmts, success, timedOut, poisoned, server>>
      BY <1>2, <1>0, KindsApart DEF SkipBlank, Current, ServerDid, Unseen
    <2>2. TypeOK' /\ CleanSoFar' /\ AtStatement'
      BY <2>1, <1>0 DEF TypeOK, CleanSoFar, AtStatement, Failed, server
    <2>3. ServerDid'
      BY <2>1, <1>0 DEF ServerDid, Unseen, server, TypeOK
    <2>4. \A n \in 1 .. Len(stmts) : stmts[n].at \in Nat
      BY RecordTypes, <1>0 DEF StatementRecord
    <2>5. Recorded'
      BY <2>1, <2>4, <1>0 DEF Recorded, CleanSoFar, Failed
    <2>6. QED
      BY <2>2, <2>3, <2>5
  <1>3. CASE RecordTxControl
    <2>1. ~Runs(Current) /\ ~Unseen
      BY <1>3, KindsApart DEF RecordTxControl, ServerDid, Unseen
    <2>2. QED
      BY <1>3, <2>1, ConcludeSucceeds DEF RecordTxControl, server, TypeOK
  <1>4. CASE Begin
    <2>1. ~Unseen /\ ~poisoned /\ pc # "done" /\ i <= Len(script)
          /\ Current \in Transactional /\ Runs(Current) /\ UNCHANGED server
      BY <1>4, KindsApart DEF Begin, ServerDid, AtStatement, Unseen
    <2>2. CASE Goto("exec")
      BY <2>1, <2>2, GotoKeeps DEF Locations
    <2>3. CASE Conclude("TXBEGIN")
      BY <2>1, <2>3, ConcludeStops DEF ErrCodes, LinkErrors, NoError
    <2>4. QED
      BY <1>4, <2>2, <2>3 DEF Begin
  <1>5. CASE SendDirect
    <2>1. ~Unseen /\ ~poisoned
      BY <1>5 DEF SendDirect, ServerDid, AtStatement, Unseen
    <2>2. QED
      BY <1>5, <2>1, GotoKeeps DEF SendDirect, Locations
  <1>6. CASE AllApplied
    BY <1>6, <1>0 DEF AllApplied, Goto, server, TypeOK, CleanSoFar, AtStatement,
          ServerDid, Recorded, Unseen, Failed, Current, Locations
  <1>7. CASE ExecSucceeds
    <2>1. ~Unseen /\ ~poisoned /\ Current \in Transactional /\ i <= Len(script)
      BY <1>7 DEF ExecSucceeds, ServerDid, AtStatement, Unseen
    <2>2. QED
      BY <1>7, <2>1, GotoKeeps DEF ExecSucceeds, Locations
  <1>8. CASE ReadLock
    BY <1>8 DEF ReadLock, server, TypeOK, CleanSoFar, AtStatement, ServerDid, Recorded,
          Unseen, Failed, Current, Locations
  <1>9. CASE CommitSucceeds
    <2>1. ~Unseen /\ i <= Len(script) /\ Runs(Current) /\ pc # "done"
      BY <1>9, KindsApart DEF CommitSucceeds, ServerDid, AtStatement, Unseen
    <2>2. session' \in {"none", "own", "ceiling"}
      BY <1>9 DEF CommitSucceeds, TypeOK
    <2>3. QED
      BY <1>9, <2>1, <2>2, ConcludeSucceeds DEF CommitSucceeds
  <1>10. CASE CommitRollsBack
    <2>1. i <= Len(script) /\ Runs(Current) /\ pc # "done"
      BY <1>10, KindsApart DEF CommitRollsBack, AtStatement
    <2>2. QED
      BY <1>10, <2>1, ConcludeStops DEF CommitRollsBack, ErrCodes, LinkErrors, NoError
  <1>11. CASE DirectSucceeds
    <2>1. ~Unseen /\ i <= Len(script) /\ Runs(Current) /\ pc # "done"
      BY <1>11, KindsApart DEF DirectSucceeds, ServerDid, AtStatement, Unseen
    <2>2. session' \in {"none", "own", "ceiling"}
      BY <1>11 DEF DirectSucceeds, TypeOK
    <2>3. QED
      BY <1>11, <2>1, <2>2, ConcludeSucceeds DEF DirectSucceeds
  <1>12. ASSUME InFlight
         PROVE  i <= Len(script) /\ Runs(Current) /\ pc # "done" /\ (link = "up" => ~Unseen)
    BY <1>12, KindsApart DEF InFlight, AtStatement, ServerDid, Unseen
  <1>13. CASE Refused
    BY <1>13, <1>12, ConcludeStops DEF Refused, ErrCodes, ServerErrors, NoError
  <1>14. CASE TimerFires
    BY <1>14, <1>12, ConcludeStops DEF TimerFires, ErrCodes, QueryCanceled, NoError
  <1>15. CASE Cancelled
    BY <1>15, <1>12, ConcludeStops DEF Cancelled, ErrCodes, QueryCanceled, NoError
  <1>16. CASE Sever
    <2>1. /\ pc # "done" /\ link' = "down" /\ UNCHANGED <<client, session>> /\ ~Unseen
          /\ landed' = landed \/ (MayLandUnseen /\ landed' = landed \union {i})
      BY <1>16 DEF Sever, ServerDid, Unseen
    <2>2. CASE landed' = landed
      BY <2>1, <2>2 DEF client, TypeOK, CleanSoFar, AtStatement, ServerDid, Recorded,
            Unseen, Failed, Current
    <2>3. CASE MayLandUnseen /\ landed' = landed \union {i}
      <3>1. i \in 1 .. Len(script) /\ Runs(script[i]) /\ pc \in {"direct", "commit"} /\ ~poisoned
        BY <2>3, <1>0, KindsApart DEF MayLandUnseen, AtStatement, Current
      <3>2. TypeOK' /\ CleanSoFar' /\ AtStatement' /\ Recorded'
        BY <2>1, <2>3, <3>1, <1>0 DEF client, TypeOK, CleanSoFar, AtStatement, Recorded, Failed, Current
      <3>3. ServerDid'
        BY <2>1, <2>3, <3>1, <1>0 DEF client, ServerDid, Unseen, TypeOK
      <3>4. QED
        BY <3>2, <3>3
    <2>4. QED
      BY <2>1, <2>2, <2>3
  <1>17. CASE LinkFails
    <2>1. i <= Len(script) /\ Runs(Current) /\ pc # "done"
      BY <1>17, KindsApart DEF LinkFails, AtStatement
    <2>2. QED
      BY <1>17, <2>1, ConcludeStops DEF LinkFails, ErrCodes, LinkErrors, NoError
  <1>18. CASE UNCHANGED vars
    BY <1>18 DEF vars, TypeOK, CleanSoFar, AtStatement, ServerDid, Recorded, Unseen,
          Failed, Current
  <1>19. QED
    BY <1>1, <1>2, <1>3, <1>4, <1>5, <1>6, <1>7, <1>8, <1>9, <1>10, <1>11, <1>13, <1>14,
       <1>15, <1>16, <1>17, <1>18 DEF Next, Returned
-----------------------------------------------------------------------------
(* The theorems *)

\* IInv is an invariant, and with it each property below.
THEOREM Invariance == Spec => []IInv
  BY InitIInv, NextIInv, PTL DEF Spec

\* Every variable keeps its type, for every set of migrations.
THEOREM TypeCorrect == Spec => []TypeOK
  <1>1. IInv => TypeOK
    BY DEF IInv
  <1>2. QED
    BY <1>1, Invariance, PTL

\* The capture tells the fate of every statement but one the driver lost the
\* server under.
THEOREM CaptureTellsFate == Spec => []FateKnown
  <1>1. IInv => FateKnown
    <2> SUFFICES ASSUME IInv, NEW n \in 1 .. Len(stmts)
                 PROVE  /\ Failed(stmts[n]) => n = Len(stmts)
                        /\ Runs(script[stmts[n].at]) =>
                             \/ Failed(stmts[n]) = (stmts[n].at \notin landed)
                             \/ stmts[n].err = "EXEC" /\ link = "down"
      BY DEF FateKnown
    <2> USE DEF IInv
    <2>1. stmts[n].at \in 1 .. Len(script) /\ stmts[n].cut \in BOOLEAN
      BY RecordTypes DEF StatementRecord
    <2>2. Failed(stmts[n]) => n = Len(stmts) /\ stmts[n].at = i
      BY DEF Recorded
    <2>3. CASE ~Failed(stmts[n])
      <3>1. stmts[n].at < i
        BY <2>3 DEF Recorded
      <3>2. Runs(script[stmts[n].at]) => stmts[n].at \in landed
        BY <2>1, <3>1 DEF ServerDid
      <3>3. QED
        BY <2>3, <3>2 DEF Failed
    <2>4. CASE Failed(stmts[n])
      <3>1. pc = "done"
        BY <2>4 DEF CleanSoFar
      <3>2. i \in landed => stmts[n].err = "EXEC" /\ link = "down"
        BY <2>2, <2>4, <3>1 DEF Recorded, ServerDid, Unseen
      <3>3. QED
        BY <2>2, <2>4, <3>2 DEF Failed
    <2>5. QED
      BY <2>3, <2>4
  <1>2. QED
    BY <1>1, Invariance, PTL

\* A reported success has every statement of the migration durable.
THEOREM SuccessIsReal == Spec => []SuccessMeansLanded
  <1>1. IInv => SuccessMeansLanded
    <2> SUFFICES ASSUME IInv, pc = "done", success, ~timedOut,
                        NEW k \in 1 .. Len(script), Runs(script[k])
                 PROVE  k \in landed
      BY DEF SuccessMeansLanded
    <2>1. i > Len(script)
      BY DEF IInv, Recorded
    <2>2. i \in Nat /\ Len(script) \in Nat
      BY ScriptsAssumption DEF IInv, TypeOK
    <2>3. QED
      BY <2>1, <2>2 DEF IInv, ServerDid
  <1>2. QED
    BY <1>1, Invariance, PTL

\* A timeout and a rejection exclude each other, and each has its statement.
THEOREM TimeoutIsThirdOutcome == Spec => []ThirdOutcome
  <1>1. IInv => ThirdOutcome
    <2> SUFFICES ASSUME IInv PROVE ThirdOutcome
      OBVIOUS
    <2> USE DEF IInv
    <2>1. Len(stmts) \in Nat /\ success \in BOOLEAN /\ timedOut \in BOOLEAN
      BY DEF TypeOK
    <2>2. \A n \in 1 .. Len(stmts) : stmts[n].cut \in BOOLEAN
      BY RecordTypes DEF StatementRecord
    <2>3. CASE pc # "done"
      BY <2>1, <2>3 DEF CleanSoFar, ThirdOutcome, Failed
    <2>4. CASE pc = "done" /\ success /\ ~timedOut
      BY <2>1, <2>4 DEF Recorded, ThirdOutcome, Failed
    <2>5. CASE pc = "done" /\ ~(success /\ ~timedOut)
      <3>1. /\ stmts # <<>> /\ timedOut = stmts[Len(stmts)].cut /\ success = timedOut
            /\ Failed(stmts[Len(stmts)])
        BY <2>5 DEF Recorded
      <3>2. Len(stmts) \in 1 .. Len(stmts)
        BY <2>1, <3>1 DEF TypeOK
      <3>3. \A n \in 1 .. Len(stmts) : n # Len(stmts) => ~Failed(stmts[n])
        BY DEF Recorded
      <3>4. \A n \in 1 .. Len(stmts) : stmts[n].cut => stmts[n].err = NoError
        BY DEF Recorded
      <3>5. QED
        BY <2>1, <2>2, <3>1, <3>2, <3>3, <3>4 DEF ThirdOutcome, Failed
    <2>6. QED
      BY <2>3, <2>4, <2>5
  <1>2. QED
    BY <1>1, Invariance, PTL
-----------------------------------------------------------------------------
(* The refinement: every step is a step of Application or changes nothing   *)
(* Application can see.                                                     *)

Mapped == <<Todo, landed, Outcome>>

LEMMA RunningUntilDone ==
  /\ pc # "done" => Outcome = "running"
  /\ pc' # "done" => Outcome' = "running"
  BY DEF Outcome

\* The current statement takes effect: it is the next one to.
LEMMA LandingMaps ==
  ASSUME IInv, i <= Len(script), Runs(Current), ~Unseen, pc # "done",
         script' = script, landed' = landed \union {i}, pc' # "done"
  PROVE  App!ANext
  <1>1. Len(script) \in Nat /\ i \in 1 .. Len(script)
    BY ScriptsAssumption DEF IInv, TypeOK
  <1>2. i \in Todo \ landed
    BY <1>1 DEF Todo, Unseen, Current
  <1>3. \A j \in Todo : j < i => j \in landed
    BY DEF Todo, IInv, ServerDid
  <1>4. Todo' = Todo
    BY DEF Todo
  <1>5. App!TakeEffect(i)
    BY <1>2, <1>3, <1>4, RunningUntilDone DEF App!TakeEffect
  <1>6. QED
    BY <1>2, <1>5 DEF App!ANext

\* The loop stops at a failed statement: "rejected" and "cut" are only said of
\* one that did not land.
LEMMA StoppingMaps ==
  ASSUME IInv, pc # "done", i <= Len(script), Runs(Current),
         NEW err \in ErrCodes \ {NoError}, Conclude(err),
         Unseen => err = "EXEC", UNCHANGED server
  PROVE  App!ANext
  <1> USE DEF IInv
  <1>1. Len(script) \in Nat /\ i \in 1 .. Len(script)
    BY ScriptsAssumption DEF TypeOK
  <1>2. /\ Len(stmts') = Len(stmts) + 1
        /\ stmts'[Len(stmts) + 1] = Statement(err)
        /\ script' = script
    BY ConcludeTypes
  <1>3. /\ pc' = "done" /\ landed' = landed
        /\ timedOut' = IsCut(err) /\ success' = IsCut(err)
    BY DEF Conclude, CleanSoFar, server, IsCut, TypeOK
  <1>4. ~IsCut(err) => stmts'[Len(stmts')].err = err
    BY <1>2 DEF Statement
  <1>5. Outcome' = IF IsCut(err) THEN "cut" ELSE IF err \in LinkErrors THEN "lost" ELSE "rejected"
    BY <1>3, <1>4 DEF Outcome, LinkErrors
  <1>6. Todo' = Todo
    BY <1>2 DEF Todo
  <1>7. Outcome' \in {"rejected", "cut"} => landed # Todo
    <2>1. i \in Todo
      BY <1>1 DEF Todo, Current
    <2>2. err = "EXEC" => Outcome' = "lost"
      BY <1>5 DEF IsCut, QueryCanceled, LinkErrors
    <2>3. QED
      BY <2>1, <2>2 DEF Unseen
  <1>8. App!Stop(Outcome')
    BY <1>3, <1>5, <1>6, <1>7, RunningUntilDone DEF App!Stop
  <1>9. Outcome' \in App!Outcomes \ {"running"}
    BY <1>5 DEF App!Outcomes
  <1>10. QED
    BY <1>8, <1>9 DEF App!ANext

LEMMA StepMaps == IInv /\ [Next]_vars => [App!ANext]_Mapped
  <1> SUFFICES ASSUME IInv, [Next]_vars PROVE App!ANext \/ UNCHANGED Mapped
    OBVIOUS
  <1> USE DEF IInv
  <1>1. ASSUME script' = script, landed' = landed, pc # "done", pc' # "done"
        PROVE  UNCHANGED Mapped
    BY <1>1, RunningUntilDone DEF Mapped, Todo
  <1>2. CASE SetCeiling \/ SkipBlank \/ SendDirect \/ ExecSucceeds \/ ReadLock
    BY <1>2, <1>1 DEF SetCeiling, SkipBlank, SendDirect, ExecSucceeds, ReadLock, Goto, server
  <1>3. CASE RecordTxControl
    BY <1>3, <1>1 DEF RecordTxControl, Conclude, server
  <1>4. CASE Begin
    <2>1. CASE Goto("exec")
      BY <1>4, <2>1, <1>1 DEF Begin, Goto, server
    <2>2. CASE Conclude("TXBEGIN")
      <3>1. ~Unseen /\ Runs(Current) /\ pc # "done"
        BY <1>4, KindsApart DEF Begin, ServerDid, Unseen
      <3>2. QED
        BY <1>4, <2>2, <3>1, StoppingMaps DEF Begin, ErrCodes, LinkErrors, NoError
    <2>3. QED
      BY <1>4, <2>1, <2>2 DEF Begin
  <1>5. CASE AllApplied
    <2>1. pc = "loop" /\ pc' = "done" /\ i > Len(script) /\ UNCHANGED <<script, landed, success, timedOut>>
      BY <1>5 DEF AllApplied, Goto, server
    <2>2. Outcome' = "complete"
      BY <2>1 DEF Outcome, CleanSoFar
    <2>3. landed = Todo
      <3>1. Len(script) \in Nat /\ i \in Nat /\ landed \subseteq 1 .. Len(script)
        BY ScriptsAssumption DEF TypeOK
      <3>2. \A k \in 1 .. Len(script) : Runs(script[k]) => k \in landed
        BY <2>1, <3>1 DEF ServerDid
      <3>3. \A k \in landed : Runs(script[k])
        BY DEF ServerDid
      <3>4. QED
        BY <3>1, <3>2, <3>3 DEF Todo
    <2>4. Todo' = Todo
      BY <2>1 DEF Todo
    <2>5. App!Stop("complete")
      BY <2>1, <2>2, <2>3, <2>4, RunningUntilDone DEF App!Stop
    <2>6. QED
      BY <2>5 DEF App!ANext, App!Outcomes
  <1>6. CASE CommitSucceeds \/ DirectSucceeds
    <2>1. /\ ~Unseen /\ i <= Len(script) /\ Runs(Current) /\ pc # "done"
          /\ script' = script /\ landed' = landed \union {i} /\ pc' # "done"
      BY <1>6, KindsApart DEF CommitSucceeds, DirectSucceeds, Conclude, ServerDid,
            AtStatement, Unseen
    <2>2. QED
      BY <2>1, LandingMaps
  <1>7. CASE CommitRollsBack \/ LinkFails
    <2>1. /\ i <= Len(script) /\ Runs(Current) /\ pc # "done"
          /\ Conclude("EXEC") /\ UNCHANGED server
      BY <1>7, KindsApart DEF CommitRollsBack, LinkFails, AtStatement
    <2>2. QED
      BY <2>1, StoppingMaps DEF ErrCodes, LinkErrors, NoError
  <1>8. CASE Refused \/ TimerFires \/ Cancelled
    <2>1. /\ i <= Len(script) /\ Runs(Current) /\ pc # "done" /\ ~Unseen /\ UNCHANGED server
      BY <1>8, KindsApart DEF Refused, TimerFires, Cancelled, InFlight, AtStatement,
            ServerDid, Unseen
    <2>2. \E err \in ErrCodes \ {NoError} : Conclude(err)
      BY <1>8 DEF Refused, TimerFires, Cancelled, ErrCodes, ServerErrors, QueryCanceled, NoError
    <2>3. QED
      BY <2>1, <2>2, StoppingMaps
  <1>9. CASE Sever
    <2>1. CASE landed' = landed
      BY <1>9, <2>1, <1>1 DEF Sever, client
    <2>2. CASE MayLandUnseen /\ landed' = landed \union {i}
      <3>1. /\ ~Unseen /\ i <= Len(script) /\ Runs(Current) /\ pc # "done"
            /\ script' = script /\ pc' # "done"
        BY <1>9, <2>2, KindsApart DEF Sever, client, MayLandUnseen, AtStatement,
              ServerDid, Unseen
      <3>2. QED
        BY <2>2, <3>1, LandingMaps
    <2>3. QED
      BY <1>9, <2>1, <2>2 DEF Sever
  <1>10. CASE UNCHANGED vars
    BY <1>10 DEF vars, Mapped, Todo, Outcome
  <1>11. QED
    BY <1>2, <1>3, <1>4, <1>5, <1>6, <1>7, <1>8, <1>9, <1>10 DEF Next, Returned

\* The Go loop implements Application: statements take effect in order, once,
\* and the outcome is only ever what Application allows to be said.
THEOREM Refinement == Spec => ImplementsApplication
  <1>1. Init => App!AInit
    <2> SUFFICES ASSUME Init PROVE App!AInit
      OBVIOUS
    <2>1. Todo \subseteq Nat
      BY DEF Todo
    <2>2. Outcome = "running" /\ landed = {}
      BY RunningUntilDone DEF Init
    <2>3. QED
      BY <2>1, <2>2 DEF App!AInit
  <1>2. IInv /\ [Next]_vars => [App!ANext]_App!avars
    BY StepMaps DEF Mapped, App!avars
  <1>3. QED
    BY <1>1, <1>2, Invariance, PTL DEF Spec, ImplementsApplication, App!ASpec
=============================================================================
