------------------------------- MODULE EngineProofs -------------------------------
(***********************************************************************************)
(* Theorems about the timeline engine, the tool executor and the ways in from      *)
(* outside: for every command set that honours the EditCommand contract            *)
(* (core/EditCommand.hpp:38-70), every project, any number of callers, commands    *)
(* and invocations, and every history bound; for any clients of the endpoint,      *)
(* configurations, limits and timeouts; for any users, providers, keys and lock    *)
(* durations of the accounts.                                                      *)
(*                                                                                 *)
(* The engine is correct only together with that contract: undo() and redo()       *)
(* check nothing. The inductive invariant HistoryInv therefore carries, next to    *)
(* HistoryExact, the fact that every command on the redo history may still be      *)
(* applied to the project it will meet.                                            *)
(*                                                                                 *)
(* The edit commands keep the contract because each captures what it overwrites    *)
(* before it writes: put back, the capture leads to the earlier document,          *)
(* whatever that held (GoesBack, one lemma a command), and no command reads the    *)
(* capture when it is applied (Again). Only two ask something of their caller      *)
(* (MayApply).                                                                     *)
(*                                                                                 *)
(* A ripple trim works on one angle of a group after the other. As no two share a  *)
(* track and each keeps its place among the others, the walk over them is a        *)
(* statement about the tracks: those of the angles done so far are trimmed, the    *)
(* others are what they were (AnglesRippled).                                      *)
(*                                                                                 *)
(* rollback() only counts: it calls undo() as often as an Apply was heard. That    *)
(* this returns the engine to where the invocation found it takes an invariant     *)
(* that follows the found history through the evictions of record() and through    *)
(* the rollback itself.                                                            *)
(*                                                                                 *)
(* An identifier is the number of sessions minted when it was; that the live ones  *)
(* are among those (Minted) is what makes a new one different from all of them.    *)
(* The limit on refused credentials rests on what the gate remembers of each       *)
(* source (Watched): all refusals since the last admission that are within the     *)
(* window, at the end of its failures, or a block that none of them is as young    *)
(* as.                                                                             *)
(*                                                                                 *)
(* A lock holds because the rejected logins that it counts are the last ones and   *)
(* the one before them is a lock's duration old (LockKnows). A key is sent to a    *)
(* provider only after that provider accepted it, for the store is written after   *)
(* the answer that accepts it.                                                     *)
(***********************************************************************************)
EXTENDS ToolCalls, McpEndpoint, Accounts, EditPromises, SequenceLemmas

-----------------------------------------------------------------------------------
(* The engine. *)

CONSTANT Legal(_, _)   \* c may be applied to p: MayApply of the edit commands

(* What a command must be able to do after it was undone, and after it was applied.*)
Repeats(c, before, after) == Legal(c, before) /\ Redoes(c, before, after)

Reverses(c, after, before) ==
  LET r == Revert(c, after) IN
  /\ r.ok /\ r.project = before /\ r.cmd \in Commands
  /\ Repeats(r.cmd, before, after)

(* The EditCommand contract.  A legal call that succeeds can be reverted exactly,  *)
(* and reapplied with the same effect; a call that fails leaves the project alone. *)
Contract ==
  /\ Initial \subseteq Projects
  /\ \A p \in Projects : \A c \in Offered(p) : c \in Commands /\ Legal(c, p)
  /\ \A p \in Projects, c \in Commands :
       Legal(c, p) => LET r == Apply(c, p) IN
         /\ r.project \in Projects /\ r.cmd \in Commands
         /\ r.ok => Reverses(r.cmd, r.project, p)

-----------------------------------------------------------------------------------
(* Both histories have the same shape.  Entry i of commands h links document d[i] to  *)
(* its neighbour towards the present: d[i + 1], or the present document x for the  *)
(* newest entry.                                                                   *)
Link(dir, c, near, far) ==
  IF dir = "undo" THEN Reverses(c, near, far) ELSE Repeats(c, near, far)

Chain(dir, h, d, x) ==
  \A i \in 1..Len(h) : Link(dir, h[i], IF i = Len(h) THEN x ELSE d[i + 1], d[i])

AllValid(d) == \A i \in 1..Len(d) : Invariants(d[i])

(* The inductive invariant.                                                        *)
HistoryInv ==
  /\ TypeOK
  /\ HistoryBounded
  /\ ProjectValid
  /\ AllValid(past) /\ AllValid(future)
  /\ Chain("undo", undo, past, project)
  /\ Chain("redo", redo, future, project)

LEMMA BoundIsPositive == Bound \in Nat \ {0}
  BY CapacityAssumption DEF Bound

(* A final segment of a sequence.                                                  *)
LEMMA SegmentFacts ==
  ASSUME NEW S, NEW s \in Seq(S), NEW m \in Nat \ {0}, m <= Len(s) + 1
  PROVE  /\ SubSeq(s, m, Len(s)) \in Seq(S)
         /\ Len(SubSeq(s, m, Len(s))) = Len(s) + 1 - m
         /\ \A i \in 1..(Len(s) + 1 - m) : SubSeq(s, m, Len(s))[i] = s[m + i - 1]
<1>1. Len(s) \in Nat
  BY LenProperties
<1>2. \A i \in m..Len(s) : s[i] \in S
  BY <1>1, ElementOfSeq
<1>3. CASE m <= Len(s)
  BY <1>1, <1>2, <1>3, SubSeqProperties
<1>4. CASE m = Len(s) + 1
  BY <1>1, <1>2, <1>4, SubSeqProperties
<1>5. QED
  BY <1>1, <1>3, <1>4

(* Dropping the oldest elements keeps the others, aligned at the end.              *)
LEMMA NewestFacts ==
  ASSUME NEW S, NEW s \in Seq(S)
  PROVE  /\ Newest(s) \in Seq(S)
         /\ Len(s) \in Nat
         /\ Len(Newest(s)) = IF Len(s) > Bound THEN Bound ELSE Len(s)
         /\ \A i \in 1..Len(Newest(s)) : Newest(s)[i] = s[i + (Len(s) - Len(Newest(s)))]
<1>1. Len(s) \in Nat /\ Bound \in Nat \ {0}
  BY LenProperties, BoundIsPositive
<1>2. CASE Len(s) > Bound
  <2> DEFINE m == Len(s) - Bound + 1
  <2>1. m \in Nat \ {0} /\ m <= Len(s) + 1 /\ Len(s) + 1 - m = Bound
    BY <1>1, <1>2
  <2>2. Newest(s) = SubSeq(s, m, Len(s))
    BY <1>2 DEF Newest, History!Newest
  <2>3. /\ Newest(s) \in Seq(S)
        /\ Len(Newest(s)) = Bound
        /\ \A i \in 1..Bound : Newest(s)[i] = s[m + i - 1]
    <3> HIDE DEF m
    <3> QED BY <2>1, <2>2, SegmentFacts
  <2>4. \A i \in 1..Bound : m + i - 1 = i + (Len(s) - Bound)
    BY <1>1
  <2>5. QED
    <3> HIDE DEF m
    <3> QED BY <1>1, <1>2, <2>3, <2>4
<1>3. CASE ~(Len(s) > Bound)
  <2>1. Newest(s) = SubSeq(s, 1, Len(s))
    BY <1>3 DEF Newest, History!Newest
  <2>2. /\ Newest(s) \in Seq(S)
        /\ Len(Newest(s)) = Len(s)
        /\ \A i \in 1..Len(s) : Newest(s)[i] = s[i]
    BY <1>1, <2>1, SegmentFacts
  <2>3. QED
    BY <1>1, <1>3, <2>2
<1>4. QED
  BY <1>2, <1>3

LEMMA ButLastFacts ==
  ASSUME NEW S, NEW s \in Seq(S), s # <<>>
  PROVE  /\ Len(s) \in Nat \ {0}
         /\ ButLast(s) \in Seq(S)
         /\ Len(ButLast(s)) = Len(s) - 1
         /\ \A i \in 1..(Len(s) - 1) : ButLast(s)[i] = s[i]
<1>1. Len(s) \in Nat \ {0}
  BY EmptySeq
<1>2. \A i \in 1..(Len(s) - 1) : s[i] \in S
  BY <1>1, ElementOfSeq
<1> DEFINE n == Len(s) - 1
<1>3. n \in Nat /\ ButLast(s) = SubSeq(s, 1, n)
  BY <1>1 DEF ButLast, History!ButLast
<1>4. /\ SubSeq(s, 1, n) \in Seq(S)
      /\ Len(SubSeq(s, 1, n)) = n
      /\ \A i \in 1..n : SubSeq(s, 1, n)[i] = s[i]
  <2>1. \A i \in 1..n : s[i] \in S
    BY <1>2
  <2> HIDE DEF n
  <2>2. CASE n = 0
    BY <1>3, <2>1, <2>2, SubSeqProperties
  <2>3. CASE n # 0
    BY <1>3, <2>1, <2>3, SubSeqProperties
  <2>4. QED
    BY <2>2, <2>3
<1>5. QED
  BY <1>1, <1>3, <1>4

LEMMA AppendFacts ==
  ASSUME NEW S, NEW s \in Seq(S), NEW e \in S
  PROVE  /\ Len(s) \in Nat
         /\ Append(s, e) \in Seq(S)
         /\ Len(Append(s, e)) = Len(s) + 1
         /\ \A i \in 1..Len(s) : Append(s, e)[i] = s[i]
         /\ Append(s, e)[Len(s) + 1] = e
  OBVIOUS

-----------------------------------------------------------------------------------
(* Chains under the three ways the engine changes a history: a command is added,  *)
(* the newest one is taken off, the oldest ones are dropped.                       *)
LEMMA ChainPush ==
  ASSUME NEW dir, NEW h \in Seq(Commands), NEW d \in Seq(Projects), Len(d) = Len(h),
         NEW x \in Projects, NEW c \in Commands, NEW y,
         Chain(dir, h, d, x), Link(dir, c, y, x)
  PROVE  Chain(dir, Append(h, c), Append(d, x), y)
<1>1. /\ Len(h) \in Nat /\ Len(Append(h, c)) = Len(h) + 1
      /\ \A i \in 1..Len(h) : Append(h, c)[i] = h[i]
      /\ Append(h, c)[Len(h) + 1] = c
  BY AppendFacts
<1>2. /\ \A i \in 1..Len(h) : Append(d, x)[i] = d[i]
      /\ Append(d, x)[Len(h) + 1] = x
  BY AppendFacts
<1>3. SUFFICES ASSUME NEW i \in 1..(Len(h) + 1)
               PROVE  Link(dir, Append(h, c)[i],
                           IF i = Len(h) + 1 THEN y ELSE Append(d, x)[i + 1], Append(d, x)[i])
  BY <1>1 DEF Chain
<1>4. CASE i = Len(h) + 1
  BY <1>1, <1>2, <1>4
<1>5. CASE i = Len(h)
  BY <1>1, <1>2, <1>5 DEF Chain
<1>6. CASE i \in 1..(Len(h) - 1)
  BY <1>1, <1>2, <1>6 DEF Chain
<1>7. QED
  BY <1>1, <1>4, <1>5, <1>6

LEMMA ChainPop ==
  ASSUME NEW dir, NEW h \in Seq(Commands), NEW d \in Seq(Projects), Len(d) = Len(h),
         NEW x, h # <<>>, Chain(dir, h, d, x)
  PROVE  /\ Link(dir, Top(h), x, Top(d))
         /\ Chain(dir, ButLast(h), ButLast(d), Top(d))
<1>1. d # <<>>
  BY EmptySeq
<1>2. /\ Len(h) \in Nat \ {0}
      /\ Len(ButLast(h)) = Len(h) - 1
      /\ \A i \in 1..(Len(h) - 1) : ButLast(h)[i] = h[i]
  BY ButLastFacts
<1>3. \A i \in 1..(Len(h) - 1) : ButLast(d)[i] = d[i]
  BY <1>1, ButLastFacts
<1>4. Link(dir, Top(h), x, Top(d))
  BY <1>2 DEF Chain, Top
<1>5. ASSUME NEW i \in 1..(Len(h) - 1)
      PROVE  Link(dir, ButLast(h)[i],
                  IF i = Len(h) - 1 THEN Top(d) ELSE ButLast(d)[i + 1], ButLast(d)[i])
  <2>1. CASE i = Len(h) - 1
    BY <1>2, <1>3, <2>1 DEF Chain, Top
  <2>2. CASE i # Len(h) - 1
    BY <1>2, <1>3, <2>2 DEF Chain
  <2>3. QED
    BY <2>1, <2>2
<1>6. QED
  BY <1>2, <1>4, <1>5 DEF Chain

LEMMA ChainNewest ==
  ASSUME NEW dir, NEW h \in Seq(Commands), NEW d \in Seq(Projects), Len(d) = Len(h),
         NEW x, Chain(dir, h, d, x)
  PROVE  Chain(dir, Newest(h), Newest(d), x)
<1> DEFINE n == Len(Newest(h))
           k == Len(h) - n
<1>1. /\ Len(h) \in Nat /\ n = (IF Len(h) > Bound THEN Bound ELSE Len(h))
      /\ \A i \in 1..n : Newest(h)[i] = h[i + k]
  BY NewestFacts
<1>2. Len(Newest(d)) = n /\ \A i \in 1..n : Newest(d)[i] = d[i + k]
  <2>1. /\ Len(Newest(d)) = IF Len(d) > Bound THEN Bound ELSE Len(d)
        /\ \A i \in 1..Len(Newest(d)) : Newest(d)[i] = d[i + (Len(d) - Len(Newest(d)))]
    BY NewestFacts
  <2>2. QED
    BY <1>1, <2>1
<1>3. n \in Nat /\ k \in Nat /\ n + k = Len(h)
  BY <1>1, BoundIsPositive
<1> HIDE DEF n, k
<1>4. SUFFICES ASSUME NEW i \in 1..n
               PROVE  Link(dir, Newest(h)[i], IF i = n THEN x ELSE Newest(d)[i + 1], Newest(d)[i])
  BY DEF Chain, n
<1>5. /\ i + k \in 1..Len(h) /\ (i = n <=> i + k = Len(h))
      /\ Newest(h)[i] = h[i + k] /\ Newest(d)[i] = d[i + k]
      /\ i # n => Newest(d)[i + 1] = d[(i + k) + 1]
  BY SMTT(30), <1>1, <1>2, <1>3
<1>6. QED
  BY <1>5 DEF Chain

LEMMA ValidPush ==
  ASSUME NEW d \in Seq(Projects), NEW x \in Projects, AllValid(d), Invariants(x)
  PROVE  AllValid(Append(d, x))
  BY AppendFacts DEF AllValid

LEMMA ValidPop ==
  ASSUME NEW d \in Seq(Projects), d # <<>>, AllValid(d)
  PROVE  Invariants(Top(d)) /\ AllValid(ButLast(d))
  BY ButLastFacts DEF AllValid, Top

LEMMA ValidNewest ==
  ASSUME NEW d \in Seq(Projects), AllValid(d)
  PROVE  AllValid(Newest(d))
<1>1. /\ Len(d) \in Nat /\ Len(Newest(d)) = (IF Len(d) > Bound THEN Bound ELSE Len(d))
      /\ \A i \in 1..Len(Newest(d)) : Newest(d)[i] = d[i + (Len(d) - Len(Newest(d)))]
  BY NewestFacts
<1>2. SUFFICES ASSUME NEW i \in 1..Len(Newest(d)) PROVE Invariants(Newest(d)[i])
  BY DEF AllValid
<1>3. i + (Len(d) - Len(Newest(d))) \in 1..Len(d)
  BY <1>1, BoundIsPositive
<1>4. QED
  BY <1>1, <1>3 DEF AllValid

(* A history whose operations all go through apply and revert stays typed.         *)
LEMMA TopInSeq ==
  ASSUME NEW S, NEW s \in Seq(S), s # <<>>
  PROVE  Top(s) \in S
  BY EmptySeq, ElementOfSeq DEF Top

LEMMA ReplyTyped ==
  ASSUME NEW o \in Outcomes, NEW g \in Origins
  PROVE  Reply(o, g) \in [outcome : Outcomes, origin : Origins]
  BY DEF Reply

-----------------------------------------------------------------------------------
LEMMA InitHistory ==
  ASSUME Contract, Init
  PROVE  HistoryInv
<1>1. TypeOK
  <2>1. project \in Projects
    BY DEF Init, Contract
  <2>2. reply \in [outcome : Outcomes, origin : Origins]
    BY DEF Init, Reply, Outcomes, Origins
  <2>3. QED
    BY <2>1, <2>2, EmptySeq DEF Init, TypeOK
<1>2. HistoryBounded
  BY EmptySeq, BoundIsPositive DEF Init, HistoryBounded
<1>3. AllValid(past) /\ AllValid(future)
  BY EmptySeq DEF Init, AllValid
<1>4. Chain("undo", undo, past, project) /\ Chain("redo", redo, future, project)
  BY EmptySeq DEF Init, Chain
<1>5. QED
  BY <1>1, <1>2, <1>3, <1>4 DEF Init, HistoryInv, ProjectValid

LEMMA StepApplyOk ==
  ASSUME Contract, HistoryInv, NEW c \in Offered(project), ApplyOk(c)
  PROVE  HistoryInv'
<1> DEFINE r == Apply(c, project)
<1>1. /\ project \in Projects /\ undo \in Seq(Commands) /\ past \in Seq(Projects)
      /\ Len(past) = Len(undo)
  BY DEF HistoryInv, TypeOK
<1>2. r.project \in Projects /\ r.cmd \in Commands /\ Reverses(r.cmd, r.project, project)
  BY <1>1 DEF Contract, ApplyOk
<1>3. /\ project' = r.project /\ undo' = Newest(Append(undo, r.cmd)) /\ redo' = <<>>
      /\ past' = Newest(Append(past, project)) /\ future' = <<>>
      /\ reply' = Reply("applied", "Apply") /\ Invariants(r.project)
  BY DEF ApplyOk
<1> HIDE DEF r
<1>4. /\ Append(undo, r.cmd) \in Seq(Commands) /\ Append(past, project) \in Seq(Projects)
      /\ Len(Append(past, project)) = Len(Append(undo, r.cmd))
  BY <1>1, <1>2, AppendFacts
<1>5. /\ undo' \in Seq(Commands) /\ past' \in Seq(Projects)
      /\ Len(past') = Len(undo') /\ Len(undo') \in Nat /\ Len(undo') <= Bound
  <2>1. /\ Newest(Append(undo, r.cmd)) \in Seq(Commands)
        /\ Len(Append(undo, r.cmd)) \in Nat
        /\ Len(Newest(Append(undo, r.cmd))) =
             IF Len(Append(undo, r.cmd)) > Bound THEN Bound ELSE Len(Append(undo, r.cmd))
    BY <1>4, NewestFacts
  <2>2. /\ Newest(Append(past, project)) \in Seq(Projects)
        /\ Len(Newest(Append(past, project))) =
             IF Len(Append(past, project)) > Bound THEN Bound ELSE Len(Append(past, project))
    BY <1>4, NewestFacts
  <2>3. QED
    BY <1>3, <1>4, <2>1, <2>2, BoundIsPositive
<1>6. TypeOK'
  <2>1. reply' \in [outcome : Outcomes, origin : Origins]
    BY <1>3, ReplyTyped DEF Outcomes, Origins
  <2>2. redo' \in Seq(Commands) /\ future' \in Seq(Projects) /\ Len(future') = Len(redo')
    BY <1>3, EmptySeq
  <2>3. QED
    BY <1>2, <1>3, <1>5, <2>1, <2>2 DEF TypeOK
<1>7. HistoryBounded'
  BY <1>3, <1>5, EmptySeq DEF HistoryBounded, Bound
<1>8. ProjectValid'
  BY <1>3 DEF ProjectValid
<1>9. AllValid(past)' /\ AllValid(future)'
  <2>1. AllValid(Append(past, project))
    BY <1>1, ValidPush DEF HistoryInv, ProjectValid
  <2>2. AllValid(past')
    BY <1>3, <1>4, <2>1, ValidNewest
  <2>3. AllValid(future')
    BY <1>3, EmptySeq DEF AllValid
  <2>4. QED
    BY <2>2, <2>3 DEF AllValid
<1>10. Chain("undo", undo, past, project)'
  <2>1. Link("undo", r.cmd, r.project, project)
    BY <1>2 DEF Link
  <2>2. Chain("undo", Append(undo, r.cmd), Append(past, project), r.project)
    BY <1>1, <1>2, <2>1, ChainPush DEF HistoryInv
  <2>3. Chain("undo", undo', past', project')
    BY <1>3, <1>4, <2>2, ChainNewest
  <2>4. QED
    BY <2>3 DEF Chain
<1>11. Chain("redo", redo, future, project)'
  BY <1>3, EmptySeq DEF Chain
<1>12. QED
  BY <1>6, <1>7, <1>8, <1>9, <1>10, <1>11 DEF HistoryInv

LEMMA StepUndo ==
  ASSUME Contract, HistoryInv, Undo
  PROVE  HistoryInv'
<1> DEFINE r == Revert(Top(undo), project)
<1>1. /\ project \in Projects /\ undo \in Seq(Commands) /\ past \in Seq(Projects)
      /\ redo \in Seq(Commands) /\ future \in Seq(Projects)
      /\ Len(past) = Len(undo) /\ Len(future) = Len(redo)
      /\ undo # <<>> /\ past # <<>>
  BY EmptySeq DEF HistoryInv, TypeOK, Undo
<1>2. /\ Reverses(Top(undo), project, Top(past))
      /\ Chain("undo", ButLast(undo), ButLast(past), Top(past))
  BY <1>1, ChainPop DEF HistoryInv, Link
<1>3. /\ r.ok /\ r.project = Top(past) /\ r.cmd \in Commands
      /\ Repeats(r.cmd, Top(past), project)
  BY <1>2 DEF Reverses
<1>4. /\ project' = Top(past) /\ undo' = ButLast(undo) /\ past' = ButLast(past)
      /\ redo' = Append(redo, r.cmd) /\ future' = Append(future, project)
      /\ reply' = Reply("applied", "Undo")
  BY <1>3 DEF Undo
<1> HIDE DEF r
<1>5. Top(past) \in Projects
  BY <1>1, TopInSeq
<1>6. /\ Len(undo) \in Nat \ {0} /\ undo' \in Seq(Commands) /\ Len(undo') = Len(undo) - 1
      /\ past' \in Seq(Projects) /\ Len(past') = Len(undo) - 1
  BY <1>1, <1>4, ButLastFacts
<1>7. /\ Len(redo) \in Nat /\ redo' \in Seq(Commands) /\ Len(redo') = Len(redo) + 1
      /\ future' \in Seq(Projects) /\ Len(future') = Len(redo) + 1
  BY <1>1, <1>3, <1>4, AppendFacts
<1>8. TypeOK'
  <2>1. reply' \in [outcome : Outcomes, origin : Origins]
    BY <1>4, ReplyTyped DEF Outcomes, Origins
  <2>2. QED
    BY <1>4, <1>5, <1>6, <1>7, <2>1 DEF TypeOK
<1>9. HistoryBounded'
  BY <1>6, <1>7, BoundIsPositive DEF HistoryInv, HistoryBounded, Bound
<1>10. ProjectValid' /\ AllValid(past)' /\ AllValid(future)'
  <2>1. Invariants(Top(past)) /\ AllValid(ButLast(past))
    BY <1>1, ValidPop DEF HistoryInv
  <2>2. AllValid(Append(future, project))
    BY <1>1, ValidPush DEF HistoryInv, ProjectValid
  <2>3. QED
    BY <1>4, <2>1, <2>2 DEF ProjectValid, AllValid
<1>11. Chain("undo", undo, past, project)'
  BY <1>2, <1>4 DEF Chain
<1>12. Chain("redo", redo, future, project)'
  <2>1. Link("redo", r.cmd, Top(past), project)
    BY <1>3 DEF Link
  <2>2. Chain("redo", Append(redo, r.cmd), Append(future, project), Top(past))
    BY <1>1, <1>3, <2>1, ChainPush DEF HistoryInv
  <2>3. QED
    BY <1>4, <2>2 DEF Chain
<1>13. QED
  BY <1>8, <1>9, <1>10, <1>11, <1>12 DEF HistoryInv

LEMMA StepRedo ==
  ASSUME Contract, HistoryInv, Redo
  PROVE  HistoryInv'
<1> DEFINE r == Apply(Top(redo), project)
<1>1. /\ project \in Projects /\ undo \in Seq(Commands) /\ past \in Seq(Projects)
      /\ redo \in Seq(Commands) /\ future \in Seq(Projects)
      /\ Len(past) = Len(undo) /\ Len(future) = Len(redo)
      /\ redo # <<>> /\ future # <<>>
  BY EmptySeq DEF HistoryInv, TypeOK, Redo
<1>2. /\ Repeats(Top(redo), project, Top(future))
      /\ Chain("redo", ButLast(redo), ButLast(future), Top(future))
  BY <1>1, ChainPop DEF HistoryInv, Link
<1>3. r.ok /\ r.project = Top(future) /\ Legal(Top(redo), project)
  BY <1>2 DEF Repeats, Redoes
<1>4. r.cmd \in Commands /\ Reverses(r.cmd, Top(future), project)
  <2>1. Top(redo) \in Commands
    BY <1>1, TopInSeq
  <2>2. QED
    BY <1>1, <1>3, <2>1 DEF Contract
<1>5. /\ project' = Top(future) /\ redo' = ButLast(redo) /\ future' = ButLast(future)
      /\ undo' = Append(undo, r.cmd) /\ past' = Append(past, project)
      /\ reply' = Reply("applied", "Redo")
  BY <1>3 DEF Redo
<1> HIDE DEF r
<1>6. Top(future) \in Projects
  BY <1>1, TopInSeq
<1>7. /\ Len(redo) \in Nat \ {0} /\ redo' \in Seq(Commands) /\ Len(redo') = Len(redo) - 1
      /\ future' \in Seq(Projects) /\ Len(future') = Len(redo) - 1
  BY <1>1, <1>5, ButLastFacts
<1>8. /\ Len(undo) \in Nat /\ undo' \in Seq(Commands) /\ Len(undo') = Len(undo) + 1
      /\ past' \in Seq(Projects) /\ Len(past') = Len(undo) + 1
  BY <1>1, <1>4, <1>5, AppendFacts
<1>9. TypeOK'
  <2>1. reply' \in [outcome : Outcomes, origin : Origins]
    BY <1>5, ReplyTyped DEF Outcomes, Origins
  <2>2. QED
    BY <1>5, <1>6, <1>7, <1>8, <2>1 DEF TypeOK
<1>10. HistoryBounded'
  BY <1>7, <1>8, BoundIsPositive DEF HistoryInv, HistoryBounded, Bound
<1>11. ProjectValid' /\ AllValid(past)' /\ AllValid(future)'
  <2>1. Invariants(Top(future)) /\ AllValid(ButLast(future))
    BY <1>1, ValidPop DEF HistoryInv
  <2>2. AllValid(Append(past, project))
    BY <1>1, ValidPush DEF HistoryInv, ProjectValid
  <2>3. QED
    BY <1>5, <2>1, <2>2 DEF ProjectValid, AllValid
<1>12. Chain("redo", redo, future, project)'
  BY <1>2, <1>5 DEF Chain
<1>13. Chain("undo", undo, past, project)'
  <2>1. Link("undo", r.cmd, Top(future), project)
    BY <1>4 DEF Link
  <2>2. Chain("undo", Append(undo, r.cmd), Append(past, project), Top(future))
    BY <1>1, <1>4, <2>1, ChainPush DEF HistoryInv
  <2>3. QED
    BY <1>5, <2>2 DEF Chain
<1>14. QED
  BY <1>9, <1>10, <1>11, <1>12, <1>13 DEF HistoryInv

LEMMA StepReset ==
  ASSUME Contract, HistoryInv, NEW p \in Initial, Reset(p)
  PROVE  HistoryInv'
<1>1. /\ project' = p /\ undo' = <<>> /\ redo' = <<>> /\ past' = <<>> /\ future' = <<>>
      /\ reply' = Reply("applied", "Reset") /\ Invariants(p) /\ p \in Projects
  BY DEF Reset, Contract
<1>2. TypeOK'
  BY <1>1, EmptySeq, ReplyTyped DEF TypeOK, Outcomes, Origins
<1>3. HistoryBounded'
  BY <1>1, EmptySeq, BoundIsPositive DEF HistoryBounded, Bound
<1>4. AllValid(past)' /\ AllValid(future)'
  BY <1>1, EmptySeq DEF AllValid
<1>5. Chain("undo", undo, past, project)' /\ Chain("redo", redo, future, project)'
  BY <1>1, EmptySeq DEF Chain
<1>6. QED
  BY <1>1, <1>2, <1>3, <1>4, <1>5 DEF HistoryInv, ProjectValid

(* Calls that only answer.                                                         *)
LEMMA StepAnswer ==
  ASSUME HistoryInv, UNCHANGED <<project, undo, redo, past, future>>,
         reply' \in [outcome : Outcomes, origin : Origins]
  PROVE  HistoryInv'
  BY DEF HistoryInv, TypeOK, HistoryBounded, Bound, ProjectValid, AllValid, Chain

LEMMA NextHistory ==
  ASSUME Contract, HistoryInv, [Next]_vars
  PROVE  HistoryInv'
<1>1. ASSUME NEW c \in Offered(project), ApplyOk(c) PROVE HistoryInv'
  BY <1>1, StepApplyOk
<1>2. ASSUME NEW c \in Offered(project), ApplyRejected(c) PROVE HistoryInv'
  BY <1>2, StepAnswer, ReplyTyped DEF ApplyRejected, Outcomes, Origins, Silent
<1>3. CASE Undo
  BY <1>3, StepUndo
<1>4. CASE Redo
  BY <1>4, StepRedo
<1>5. CASE NothingToDo
  BY <1>5, StepAnswer, ReplyTyped DEF NothingToDo, Outcomes, Origins, Silent
<1>6. ASSUME NEW p \in Initial, Reset(p) PROVE HistoryInv'
  BY <1>6, StepReset
<1>7. ASSUME NEW p \in Initial, ResetRefused(p) PROVE HistoryInv'
  BY <1>7, StepAnswer, ReplyTyped DEF ResetRefused, Outcomes, Origins, Silent
<1>8. CASE UNCHANGED vars
  BY <1>8, StepAnswer DEF vars, HistoryInv, TypeOK
<1>9. QED
  BY <1>1, <1>2, <1>3, <1>4, <1>5, <1>6, <1>7, <1>8 DEF Next, Edit, Walk, Load

-----------------------------------------------------------------------------------
(* The engine's state is inductively typed, bounded, valid and chained: whatever  *)
(* sequence of apply, undo, redo and reset TimelineEngine.cpp is asked for, the   *)
(* two histories describe how to walk away from the project and back to it.       *)
THEOREM EngineInvariant ==
  ASSUME Contract
  PROVE  Spec => []HistoryInv
<1>1. Init => HistoryInv
  BY InitHistory
<1>2. HistoryInv /\ [Next]_vars => HistoryInv'
  BY NextHistory
<1>3. QED
  BY <1>1, <1>2, PTL DEF Spec

(* The histories only ever hold command objects, in step with the projects they   *)
(* came from (UndoRedoStack.cpp).                                                  *)
THEOREM EngineTyped ==
  ASSUME Contract
  PROVE  Spec => []TypeOK
<1>1. HistoryInv => TypeOK
  BY DEF HistoryInv
<1>2. QED
  BY <1>1, EngineInvariant, PTL

(* undo() and redo() never run checkTimelineInvariants, and need not: the project *)
(* satisfies it after every call.                                                  *)
THEOREM EngineValid ==
  ASSUME Contract
  PROVE  Spec => []ProjectValid
<1>1. HistoryInv => ProjectValid
  BY DEF HistoryInv
<1>2. QED
  BY <1>1, EngineInvariant, PTL

(* restoreToUndo() appends without record()'s bound, and the undo history still   *)
(* never outgrows it.                                                              *)
THEOREM EngineBounded ==
  ASSUME Contract
  PROVE  Spec => []HistoryBounded
<1>1. HistoryInv => HistoryBounded
  BY DEF HistoryInv
<1>2. QED
  BY <1>1, EngineInvariant, PTL

(* Every undo returns exactly the project the command was applied to, every redo  *)
(* exactly the project that was undone, at any depth of the histories.            *)
THEOREM EngineExact ==
  ASSUME Contract
  PROVE  Spec => []HistoryExact
<1>1. HistoryInv => HistoryExact
  <2>1. SUFFICES ASSUME HistoryInv PROVE HistoryExact
    OBVIOUS
  <2>2. \A i \in 1..Len(undo) : Undoes(undo[i], After(i), past[i])
    BY <2>1 DEF HistoryInv, Chain, Link, Reverses, Repeats, Redoes, Undoes, After
  <2>3. \A i \in 1..Len(redo) : Redoes(redo[i], Before(i), future[i])
    BY <2>1 DEF HistoryInv, Chain, Link, Repeats, Before
  <2>4. QED
    BY <2>2, <2>3 DEF HistoryExact
<1>2. QED
  BY <1>1, EngineInvariant, PTL

-----------------------------------------------------------------------------------
(* What one undo and one redo do to the document, once the histories are chained. *)
LEMMA UndoReturns ==
  ASSUME HistoryInv, Undo
  PROVE  /\ past # <<>> /\ reply' = Reply("applied", "Undo")
         /\ project' = Top(past) /\ past' = ButLast(past) /\ future' = Append(future, project)
<1>1. undo \in Seq(Commands) /\ past \in Seq(Projects) /\ Len(past) = Len(undo) /\ undo # <<>>
  BY DEF HistoryInv, TypeOK, Undo
<1>2. Reverses(Top(undo), project, Top(past))
  BY <1>1, ChainPop DEF HistoryInv, Link
<1>3. QED
  BY <1>1, <1>2, EmptySeq DEF Undo, Reverses

LEMMA RedoReturns ==
  ASSUME HistoryInv, Redo
  PROVE  /\ future # <<>> /\ reply' = Reply("applied", "Redo")
         /\ project' = Top(future) /\ future' = ButLast(future) /\ past' = Append(past, project)
<1>1. redo \in Seq(Commands) /\ future \in Seq(Projects) /\ Len(future) = Len(redo) /\ redo # <<>>
  BY DEF HistoryInv, TypeOK, Redo
<1>2. Repeats(Top(redo), project, Top(future))
  BY <1>1, ChainPop DEF HistoryInv, Link
<1>3. QED
  BY <1>1, <1>2, EmptySeq DEF Redo, Repeats, Redoes

(* A call that reports a failure, or nothing to do, has changed neither the       *)
(* project nor the histories: TimelineEngine.cpp restores the project only in     *)
(* apply(), so for undo() and redo() this rests on the chains.                     *)
THEOREM EngineRefusals ==
  ASSUME Contract
  PROVE  Spec => RefusedChangesNothing
<1>1. ASSUME HistoryInv, [Next]_vars
      PROVE  [reply'.outcome # "applied" => UNCHANGED <<project, past, future>>]_vars
  <2>1. ASSUME NEW c \in Offered(project), ApplyOk(c) PROVE reply'.outcome = "applied"
    BY <2>1 DEF ApplyOk, Reply
  <2>2. CASE Undo
    BY <1>1, <2>2, UndoReturns DEF Reply
  <2>3. CASE Redo
    BY <1>1, <2>3, RedoReturns DEF Reply
  <2>4. ASSUME NEW p \in Initial, Reset(p) PROVE reply'.outcome = "applied"
    BY <2>4 DEF Reset, Reply
  <2>5. QED
    BY <1>1, <2>1, <2>2, <2>3, <2>4 DEF Next, Edit, Walk, Load, ApplyRejected, NothingToDo, ResetRefused
<1>2. QED
  BY <1>1, EngineInvariant, PTL DEF Spec, RefusedChangesNothing

(* The engine is an implementation of the linear history, commands and captured   *)
(* state forgotten.                                                                *)
THEOREM EngineImplementsHistory ==
  ASSUME Contract
  PROVE  Spec => ImplementsHistory
<1>1. Init => History!HistoryInit
  <2>1. Init /\ Contract => project \in Projects /\ Invariants(project)
    BY DEF Init, Contract
  <2>2. QED
    BY <2>1 DEF Init, History!HistoryInit
<1>2. ASSUME HistoryInv, HistoryInv', [Next]_vars
      PROVE  [History!HistoryNext]_(History!hvars)
  <2>1. project' \in {p \in Projects : Invariants(p)}
    BY <1>2 DEF HistoryInv, TypeOK, ProjectValid
  <2>2. ASSUME NEW c \in Offered(project), ApplyOk(c) PROVE History!Edit
    BY <2>1, <2>2 DEF ApplyOk, Newest, History!Edit
  <2>3. ASSUME Undo PROVE History!StepBack
    BY <1>2, <2>3, UndoReturns DEF History!StepBack, Top, ButLast
  <2>4. ASSUME Redo PROVE History!StepForward
    BY <1>2, <2>4, RedoReturns DEF History!StepForward, Top, ButLast
  <2>5. ASSUME NEW p \in Initial, Reset(p) PROVE History!Replace
    BY <2>1, <2>5 DEF Reset, History!Replace
  <2>6. CASE UNCHANGED <<project, past, future>>
    BY <2>6 DEF History!hvars
  <2>7. QED
    BY <1>2, <2>2, <2>3, <2>4, <2>5, <2>6
       DEF Next, Edit, Walk, Load, History!HistoryNext, ApplyRejected, NothingToDo, ResetRefused, vars
<1>3. QED
  BY <1>1, <1>2, EngineInvariant, PTL DEF Spec, ImplementsHistory, History!HistorySpec

-----------------------------------------------------------------------------------
(* The edit commands. *)

CONSTANT Data   \* names, kinds, wordings, looks and settings: what is only compared

(* The documents. A track is known by its identifier.                              *)
AnyText == [kind : Data, words : Data, style : Data]
AnyClip == [id : Data, asset : Data, start : Int, in : Int, out : Int, trans : Int,
            speed : Nat \ {0}, look : Data, text : AnyText]
AnyTrack == [id : Data, kind : Data, muted : BOOLEAN, clips : Seq(AnyClip)]
AnyMarker == [id : Data, at : Int]
AnySettings == [{"fps", "canvas", "colorSpace"} -> Data]
AnyDocument == [tracks : Seq(AnyTrack), assets : Seq(Data), groups : Seq(Seq(Data)),
                markers : Seq(AnyMarker), settings : AnySettings]

TracksApart(tracks) == \A s, t \in DOMAIN tracks : tracks[s].id = tracks[t].id => s = t

Documents == {p \in AnyDocument : TracksApart(p.tracks)}

LEMMA DocumentFields ==
  ASSUME NEW p \in Documents
  PROVE  /\ p.tracks \in Seq(AnyTrack) /\ TracksApart(p.tracks)
         /\ Len(p.tracks) \in Nat /\ DOMAIN p.tracks = 1..Len(p.tracks)
         /\ \A t \in DOMAIN p.tracks :
              /\ p.tracks[t] \in AnyTrack /\ p.tracks[t].id \in Data
              /\ p.tracks[t].clips \in Seq(AnyClip)
              /\ Len(p.tracks[t].clips) \in Nat
              /\ DOMAIN p.tracks[t].clips = 1..Len(p.tracks[t].clips)
              /\ \A i \in DOMAIN p.tracks[t].clips : p.tracks[t].clips[i] \in AnyClip
<1>1. p.tracks \in Seq(AnyTrack) /\ TracksApart(p.tracks)
  BY DEF Documents, AnyDocument
<1>2. Len(p.tracks) \in Nat /\ DOMAIN p.tracks = 1..Len(p.tracks)
  BY <1>1
<1>3. ASSUME NEW t \in DOMAIN p.tracks
      PROVE  /\ p.tracks[t] \in AnyTrack /\ p.tracks[t].id \in Data
             /\ p.tracks[t].clips \in Seq(AnyClip)
  <2>1. p.tracks[t] \in AnyTrack
    BY <1>1
  <2>2. QED
    BY <2>1 DEF AnyTrack
<1>4. \A s \in Seq(AnyClip) : Len(s) \in Nat /\ DOMAIN s = 1..Len(s) /\ \A i \in DOMAIN s : s[i] \in AnyClip
  OBVIOUS
<1>5. QED
  BY <1>1, <1>2, <1>3, <1>4

(* Other tracks in their place.                                                    *)
LEMMA TracksSet ==
  ASSUME NEW p \in Documents, NEW tracks \in Seq(AnyTrack), TracksApart(tracks)
  PROVE  /\ [p EXCEPT !.tracks = tracks] \in Documents
         /\ [p EXCEPT !.tracks = tracks].tracks = tracks
         /\ [[p EXCEPT !.tracks = tracks] EXCEPT !.tracks = p.tracks] = p
         /\ \A more : [[p EXCEPT !.tracks = tracks] EXCEPT !.tracks = more] = [p EXCEPT !.tracks = more]
BY DEF Documents, AnyDocument

LEMMA TrackFound ==
  ASSUME NEW p \in Documents
  PROVE  /\ \A t \in DOMAIN p.tracks : FindTrack(p, p.tracks[t].id) = t /\ p.tracks[t].id \in TrackIds(p)
         /\ \A id \in TrackIds(p) : FindTrack(p, id) \in DOMAIN p.tracks /\ p.tracks[FindTrack(p, id)].id = id
<1>1. ASSUME NEW id \in TrackIds(p)
      PROVE  FindTrack(p, id) \in DOMAIN p.tracks /\ p.tracks[FindTrack(p, id)].id = id
  BY DEF TrackIds, FindTrack
<1>2. ASSUME NEW t \in DOMAIN p.tracks
      PROVE  FindTrack(p, p.tracks[t].id) = t /\ p.tracks[t].id \in TrackIds(p)
  <2>1. p.tracks[t].id \in TrackIds(p)
    BY DEF TrackIds
  <2>2. QED
    BY <1>1, <2>1, DocumentFields DEF TracksApart
<1>3. QED
  BY <1>1, <1>2

(* Other clips on one track.                                                       *)
LEMMA ClipsSet ==
  ASSUME NEW p \in Documents, NEW t \in DOMAIN p.tracks, NEW clips \in Seq(AnyClip)
  PROVE  /\ SetClips(p, t, clips) \in Documents
         /\ DOMAIN SetClips(p, t, clips).tracks = DOMAIN p.tracks
         /\ SetClips(p, t, clips).tracks[t].clips = clips
         /\ \A s \in DOMAIN p.tracks : /\ SetClips(p, t, clips).tracks[s].id = p.tracks[s].id
                                       /\ s # t => SetClips(p, t, clips).tracks[s] = p.tracks[s]
         /\ TrackIds(SetClips(p, t, clips)) = TrackIds(p)
         /\ \A id : FindTrack(SetClips(p, t, clips), id) = FindTrack(p, id)
         /\ \A more : SetClips(SetClips(p, t, clips), t, more) = SetClips(p, t, more)
         /\ SetClips(p, t, p.tracks[t].clips) = p
<1> DEFINE q == SetClips(p, t, clips)
           new == [p.tracks EXCEPT ![t] = [p.tracks[t] EXCEPT !.clips = clips]]
<1>1. /\ p.tracks \in Seq(AnyTrack) /\ TracksApart(p.tracks) /\ p.tracks[t] \in AnyTrack
      /\ DOMAIN p.tracks = 1..Len(p.tracks) /\ Len(p.tracks) \in Nat
  BY DocumentFields
<1>2. \A more : SetClips(p, t, more) = [p EXCEPT !.tracks = [p.tracks EXCEPT ![t] = [p.tracks[t] EXCEPT !.clips = more]]]
  BY DEF SetClips
<1>3. [p.tracks[t] EXCEPT !.clips = clips] \in AnyTrack /\ [p.tracks[t] EXCEPT !.clips = clips].id = p.tracks[t].id
      /\ [p.tracks[t] EXCEPT !.clips = clips].clips = clips
  BY <1>1 DEF AnyTrack
<1>4. /\ new \in Seq(AnyTrack) /\ DOMAIN new = DOMAIN p.tracks /\ new[t] = [p.tracks[t] EXCEPT !.clips = clips]
      /\ \A s \in DOMAIN p.tracks : s # t => new[s] = p.tracks[s]
  BY <1>1, <1>3
<1>5. \A s \in DOMAIN p.tracks : new[s].id = p.tracks[s].id
  BY <1>3, <1>4
<1>6. TracksApart(new)
  BY <1>1, <1>4, <1>5 DEF TracksApart
<1> HIDE DEF new
<1>7. q = [p EXCEPT !.tracks = new]
  BY <1>2 DEF new
<1> HIDE DEF q
<1>8. q \in Documents /\ q.tracks = new
  <2>1. [p EXCEPT !.tracks = new] \in Documents /\ [p EXCEPT !.tracks = new].tracks = new
    BY <1>4, <1>6, TracksSet
  <2>2. QED
    BY <1>7, <2>1
<1>9. TrackIds(q) = TrackIds(p)
  BY <1>4, <1>5, <1>8 DEF TrackIds
<1>10. \A id : FindTrack(q, id) = FindTrack(p, id)
  <2>1. ASSUME NEW id PROVE {s \in DOMAIN q.tracks : q.tracks[s].id = id} = {s \in DOMAIN p.tracks : p.tracks[s].id = id}
    BY <1>4, <1>5, <1>8
  <2>2. \A d, id : FindTrack(d, id) = CHOOSE s : s \in {s2 \in DOMAIN d.tracks : d.tracks[s2].id = id}
    BY DEF FindTrack
  <2>3. QED
    BY <2>1, <2>2
<1>11. ASSUME NEW more PROVE SetClips(q, t, more) = SetClips(p, t, more)
  <2>1. SetClips(q, t, more) = [q EXCEPT !.tracks = [q.tracks EXCEPT ![t] = [q.tracks[t] EXCEPT !.clips = more]]]
    BY DEF SetClips
  <2>2. [q.tracks[t] EXCEPT !.clips = more] = [p.tracks[t] EXCEPT !.clips = more]
    BY <1>1, <1>4, <1>8 DEF AnyTrack
  <2>3. [q.tracks EXCEPT ![t] = [q.tracks[t] EXCEPT !.clips = more]] = [p.tracks EXCEPT ![t] = [p.tracks[t] EXCEPT !.clips = more]]
    BY <1>1, <1>8, <2>2 DEF new
  <2> DEFINE z == [p.tracks EXCEPT ![t] = [p.tracks[t] EXCEPT !.clips = more]]
  <2>5. SetClips(q, t, more) = [q EXCEPT !.tracks = z] /\ SetClips(p, t, more) = [p EXCEPT !.tracks = z]
    BY <1>2, <2>1, <2>3
  <2> HIDE DEF z
  <2>4. [[p EXCEPT !.tracks = new] EXCEPT !.tracks = z] = [p EXCEPT !.tracks = z]
    BY DEF Documents, AnyDocument
  <2>6. QED
    BY <1>7, <2>4, <2>5
<1>12. SetClips(p, t, p.tracks[t].clips) = p
  <2>1. [p.tracks[t] EXCEPT !.clips = p.tracks[t].clips] = p.tracks[t]
    BY <1>1 DEF AnyTrack
  <2>2. [p.tracks EXCEPT ![t] = p.tracks[t]] = p.tracks
    BY <1>1
  <2>3. [p EXCEPT !.tracks = p.tracks] = p
    BY DEF Documents, AnyDocument
  <2>4. QED
    BY <1>2, <2>1, <2>2, <2>3
<1>13. QED
  BY <1>3, <1>4, <1>5, <1>8, <1>9, <1>10, <1>11, <1>12 DEF q

-----------------------------------------------------------------------------------
(* Where a clip is.                                                                *)
LEMMA Places ==
  ASSUME NEW p \in Documents, NEW id
  PROVE  /\ \A at \in ClipPlaces(p, id) :
              /\ at = <<at[1], at[2]>> /\ at[1] \in DOMAIN p.tracks /\ at[2] \in DOMAIN p.tracks[at[1]].clips
              /\ at[1] \in Nat /\ at[2] \in Nat
              /\ ClipAt(p, at) \in AnyClip /\ ClipAt(p, at).id = id
         /\ \A t \in DOMAIN p.tracks : \A i \in DOMAIN p.tracks[t].clips :
              p.tracks[t].clips[i].id = id => <<t, i>> \in ClipPlaces(p, id)
<1>1. ASSUME NEW at \in ClipPlaces(p, id)
      PROVE  /\ at = <<at[1], at[2]>> /\ at[1] \in DOMAIN p.tracks /\ at[2] \in DOMAIN p.tracks[at[1]].clips
             /\ p.tracks[at[1]].clips[at[2]].id = id
  BY DEF ClipPlaces
<1>2. ASSUME NEW at \in ClipPlaces(p, id)
      PROVE  at[1] \in Nat /\ at[2] \in Nat /\ ClipAt(p, at) \in AnyClip
  BY <1>1, DocumentFields DEF ClipAt
<1>3. ASSUME NEW t \in DOMAIN p.tracks, NEW i \in DOMAIN p.tracks[t].clips, p.tracks[t].clips[i].id = id
      PROVE  <<t, i>> \in ClipPlaces(p, id)
  BY <1>3 DEF ClipPlaces
<1>4. QED
  BY <1>1, <1>2, <1>3 DEF ClipAt

LEMMA ClipFound ==
  ASSUME NEW p \in Documents, NEW id, ClipPlaces(p, id) # {}
  PROVE  FindClip(p, id) \in ClipPlaces(p, id)
<1> DEFINE P == ClipPlaces(p, id)
           rows == {at[1] : at \in P}
<1>1. \A at \in P : at = <<at[1], at[2]>> /\ at[1] \in Nat /\ at[2] \in Nat
  BY Places
<1> HIDE DEF P
<1>2. rows \in SUBSET Nat /\ rows # {}
  BY <1>1 DEF P
<1>3. PICK t \in rows : \A k \in rows : t <= k
  BY <1>2, LeastOf
<1> DEFINE columns == {at[2] : at \in {b \in P : b[1] = t}}
<1>4. columns \in SUBSET Nat /\ columns # {}
  BY <1>1, <1>3
<1>5. PICK i \in columns : \A k \in columns : i <= k
  <2> HIDE DEF columns
  <2>1. QED
    BY <1>4, LeastOf
<1>6. PICK at \in P : at[1] = t /\ at[2] = i
  BY <1>5
<1>7. \A b \in P : at[1] < b[1] \/ (at[1] = b[1] /\ at[2] <= b[2])
  <2>1. ASSUME NEW b \in P PROVE at[1] < b[1] \/ (at[1] = b[1] /\ at[2] <= b[2])
    <3>1. t <= b[1] /\ t \in Nat /\ b[1] \in Nat
      BY <1>1, <1>2, <1>3
    <3>2. b[1] = t => i <= b[2]
      BY <1>5
    <3>3. QED
      BY <1>6, <3>1, <3>2
  <2>2. QED
    BY <2>1
<1>8. QED
  BY <1>7 DEF FindClip, P

(* Another clip in the place of one.                                               *)
Exchanged(p, at, clip) ==
  /\ SetClip(p, at, clip) \in Documents
  /\ ClipAt(SetClip(p, at, clip), at) = clip
  /\ SetClip(p, at, ClipAt(p, at)) = p
  /\ \A more : SetClip(SetClip(p, at, clip), at, more) = SetClip(p, at, more)
  /\ \A x : ClipPlaces(SetClip(p, at, clip), x) = ClipPlaces(p, x)
  /\ \A x : FindClip(SetClip(p, at, clip), x) = FindClip(p, x)
  /\ SetClip(p, at, clip).tracks[at[1]].clips = [p.tracks[at[1]].clips EXCEPT ![at[2]] = clip]
  /\ \A t \in DOMAIN p.tracks : \A i : \/ <<t, i>> = at
                                        \/ SetClip(p, at, clip).tracks[t].clips[i] = p.tracks[t].clips[i]

LEMMA ClipSet ==
  ASSUME NEW p \in Documents, NEW id, NEW at \in ClipPlaces(p, id), NEW clip \in AnyClip, clip.id = id
  PROVE  Exchanged(p, at, clip)
<1> DEFINE t == at[1]
           i == at[2]
           clips == p.tracks[t].clips
           q == SetClip(p, at, clip)
           new == [clips EXCEPT ![i] = clip]
<1>1. /\ at = <<t, i>> /\ t \in DOMAIN p.tracks /\ i \in DOMAIN clips /\ ClipAt(p, at) = clips[i]
      /\ clips[i].id = id
  BY Places DEF ClipAt
<1>2. clips \in Seq(AnyClip)
  BY <1>1, DocumentFields
<1>3. \A d, more : SetClip(d, at, more) = SetClips(d, t, [d.tracks[t].clips EXCEPT ![i] = more])
  BY DEF SetClip, SetClips
<1> HIDE DEF t, i, clips
<1>4. /\ new \in Seq(AnyClip) /\ DOMAIN new = DOMAIN clips /\ new[i] = clip
      /\ \A k : k # i => new[k] = clips[k]
      /\ \A k \in DOMAIN clips : new[k].id = clips[k].id
  <2>1. new \in Seq(AnyClip) /\ DOMAIN new = DOMAIN clips
    BY <1>1, <1>2
  <2>2. new[i] = clip /\ \A k : k # i => new[k] = clips[k]
    BY <1>1
  <2>3. QED
    BY <1>1, <2>1, <2>2
<1> HIDE DEF new
<1>5. q = SetClips(p, t, new)
  BY <1>3 DEF new, clips
<1> HIDE DEF q
<1>6. /\ q \in Documents /\ DOMAIN q.tracks = DOMAIN p.tracks /\ q.tracks[t].clips = new
      /\ \A s \in DOMAIN p.tracks : s # t => q.tracks[s] = p.tracks[s]
      /\ \A more : SetClips(q, t, more) = SetClips(p, t, more)
      /\ SetClips(p, t, p.tracks[t].clips) = p
  BY <1>1, <1>4, <1>5, ClipsSet
<1>7. ClipAt(q, at) = clip
  BY <1>4, <1>6 DEF ClipAt, t, i
<1>8. SetClip(p, at, ClipAt(p, at)) = p
  <2>1. [clips EXCEPT ![i] = clips[i]] = clips
    BY <1>1, <1>2
  <2>2. QED
    BY <1>1, <1>3, <1>6, <2>1 DEF clips
<1>9. ASSUME NEW more PROVE SetClip(q, at, more) = SetClip(p, at, more)
  <2>1. [new EXCEPT ![i] = more] = [clips EXCEPT ![i] = more]
    BY <1>1, <1>2 DEF new
  <2>2. SetClip(q, at, more) = SetClips(q, t, [clips EXCEPT ![i] = more])
    BY <1>3, <1>6, <2>1
  <2>3. QED
    BY <1>3, <1>6, <2>2 DEF clips
<1>10. ASSUME NEW x PROVE ClipPlaces(q, x) = ClipPlaces(p, x)
  <2>1. \A s \in DOMAIN p.tracks : DOMAIN q.tracks[s].clips = DOMAIN p.tracks[s].clips
    BY <1>4, <1>6 DEF clips
  <2>2. \A s \in DOMAIN p.tracks : \A k \in DOMAIN p.tracks[s].clips : q.tracks[s].clips[k].id = p.tracks[s].clips[k].id
    BY <1>4, <1>6 DEF clips
  <2>3. \A b : b \in ClipPlaces(q, x) => b \in ClipPlaces(p, x)
    <3>1. SUFFICES ASSUME NEW b \in ClipPlaces(q, x) PROVE b \in ClipPlaces(p, x)
      OBVIOUS
    <3>2. b = <<b[1], b[2]>> /\ b[1] \in DOMAIN q.tracks /\ b[2] \in DOMAIN q.tracks[b[1]].clips
          /\ q.tracks[b[1]].clips[b[2]].id = x
      BY <1>6, Places DEF ClipAt
    <3>3. QED
      BY <1>6, <2>1, <2>2, <3>2, Places
  <2>4. \A b : b \in ClipPlaces(p, x) => b \in ClipPlaces(q, x)
    <3>1. SUFFICES ASSUME NEW b \in ClipPlaces(p, x) PROVE b \in ClipPlaces(q, x)
      OBVIOUS
    <3>2. b = <<b[1], b[2]>> /\ b[1] \in DOMAIN p.tracks /\ b[2] \in DOMAIN p.tracks[b[1]].clips
          /\ p.tracks[b[1]].clips[b[2]].id = x
      BY Places DEF ClipAt
    <3>3. QED
      BY <1>6, <2>1, <2>2, <3>2, Places
  <2>5. QED
    BY <2>3, <2>4
<1>11. \A x : FindClip(q, x) = FindClip(p, x)
  BY <1>10 DEF FindClip
<1>12. \A s \in DOMAIN p.tracks : \A k : <<s, k>> = at \/ q.tracks[s].clips[k] = p.tracks[s].clips[k]
  BY <1>1, <1>4, <1>6 DEF clips
<1>13. QED
  BY <1>6, <1>7, <1>8, <1>9, <1>10, <1>11, <1>12 DEF q, t, i, new, clips, Exchanged

-----------------------------------------------------------------------------------
(* The command objects: what each may have captured, and the calls by their names. *)
Placement == [clip : Data, look : Data]

Captures ==
       {NotApplied, [held |-> TRUE]}
  \cup [held : {TRUE}, assetAdded : BOOLEAN]
  \cup [held : {TRUE}, track : Data, clips : Seq(AnyClip)]
  \cup [held : {TRUE}, track : Data, index : Nat, clip : AnyClip]
  \cup [held : {TRUE}, in : Int, out : Int, start : Int]
  \cup [held : {TRUE}, tracks : Seq(AnyTrack)]
  \cup [held : {TRUE}, look : Data, speed : Nat \ {0}]
  \cup [held : {TRUE}, look : Data]
  \cup [held : {TRUE}, prior : Seq(Placement)]
  \cup [held : {TRUE}, length : Int]
  \cup [held : {TRUE}, index : Nat, removed : AnyTrack]
  \cup [held : {TRUE}, muted : BOOLEAN]
  \cup [held : {TRUE}, index : Nat, marker : AnyMarker]
  \cup [held : {TRUE}, words : Data]
  \cup [held : {TRUE}, text : AnyText]
  \cup [held : {TRUE}, settings : AnySettings]

Given(S) == {{}} \cup {{x} : x \in S}   \* an optional argument

ClipAdds == [op : {"AddClip"}, track : Data, clip : AnyClip, cap : Captures]
OfClips == [op : {"DeleteClip", "RippleDelete", "CloseGap"}, clip : Data, cap : Captures]
Moves == [op : {"MoveClip"}, clip : Data, start : Int, cap : Captures]
Trims == [op : {"TrimClip", "RippleTrim"}, clip : Data, edge : {"start", "end"}, boundary : Int, cap : Captures]
Splits == [op : {"SplitClip"}, clip : Data, playhead : Int, right : Data, cap : Captures]
Reorders == [op : {"ReorderClips"}, track : Data, order : Seq(Data), cap : Captures]
Speeds == [op : {"SetClipProperties"}, clip : Data, look : Data, speed : Nat \ {0}, cap : Captures]
Looks == [op : {"SetClipProperty"}, clip : Data, look : Data, cap : Captures]
Layouts == [op : {"SetClipTransforms"}, placements : Seq(Placement), cap : Captures]
Transitions == [op : {"SetTransition"}, clip : Data, length : Int, cap : Captures]
TrackAdds == [op : {"AddTrack"}, track : Data, kind : Data, cap : Captures]
TrackRemoves == [op : {"RemoveTrack"}, track : Data, cap : Captures]
Mutes == [op : {"SetTrackMuted"}, track : Data, muted : BOOLEAN, cap : Captures]
MarkerAdds == [op : {"AddMarker"}, marker : AnyMarker, cap : Captures]
MarkerRemoves == [op : {"RemoveMarker"}, marker : Data, cap : Captures]
Wordings == [op : {"SetTextContent", "SetCaptionText"}, clip : Data, words : Data, cap : Captures]
Styles == [op : {"SetTextStyle"}, clip : Data, style : Data, cap : Captures]
Retimes == [op : {"RetimeCaptionCue"}, clip : Data, start : Given(Int), length : Given(Int), cap : Captures]
SettingsCalls == [op : {"SetProjectSettings"}, cap : Captures,
                  set : UNION {[names -> Data] : names \in SUBSET {"fps", "canvas", "colorSpace"}}]

EditCommands ==
  ClipAdds \cup OfClips \cup Moves \cup Trims \cup Splits \cup Reorders \cup Speeds \cup Looks \cup Layouts
    \cup Transitions \cup TrackAdds \cup TrackRemoves \cup Mutes \cup MarkerAdds \cup MarkerRemoves
    \cup Wordings \cup Styles \cup Retimes \cup SettingsCalls

LEMMA Recaptured ==
  ASSUME NEW c \in EditCommands, NEW x \in Captures
  PROVE  [c EXCEPT !.cap = x] \in EditCommands
<1> DEFINE d == [c EXCEPT !.cap = x]
<1> HIDE DEF Captures
<1>1. /\ c \in ClipAdds => d \in ClipAdds
      /\ c \in OfClips => d \in OfClips
      /\ c \in Moves => d \in Moves
      /\ c \in Trims => d \in Trims
      /\ c \in Splits => d \in Splits
  BY DEF ClipAdds, OfClips, Moves, Trims, Splits
<1>2. /\ c \in Reorders => d \in Reorders
      /\ c \in Speeds => d \in Speeds
      /\ c \in Looks => d \in Looks
      /\ c \in Layouts => d \in Layouts
      /\ c \in Transitions => d \in Transitions
  BY DEF Reorders, Speeds, Looks, Layouts, Transitions
<1>3. /\ c \in TrackAdds => d \in TrackAdds
      /\ c \in TrackRemoves => d \in TrackRemoves
      /\ c \in Mutes => d \in Mutes
      /\ c \in MarkerAdds => d \in MarkerAdds
      /\ c \in MarkerRemoves => d \in MarkerRemoves
  BY DEF TrackAdds, TrackRemoves, Mutes, MarkerAdds, MarkerRemoves
<1>4. /\ c \in Wordings => d \in Wordings
      /\ c \in Styles => d \in Styles
      /\ c \in Retimes => d \in Retimes
      /\ c \in SettingsCalls => d \in SettingsCalls
  BY DEF Wordings, Styles, Retimes, SettingsCalls
<1> HIDE DEF d
<1>5. QED
  BY <1>1, <1>2, <1>3, <1>4 DEF EditCommands, d

LEMMA CommandParts ==
  ASSUME NEW c \in EditCommands
  PROVE  /\ c.cap \in Captures /\ [c EXCEPT !.cap = c.cap] = c
         /\ \A x : /\ [c EXCEPT !.cap = x].cap = x
                   /\ \A y : [[c EXCEPT !.cap = x] EXCEPT !.cap = y] = [c EXCEPT !.cap = y]
<1> DEFINE Parts == /\ c.cap \in Captures /\ [c EXCEPT !.cap = c.cap] = c
                    /\ \A x : /\ [c EXCEPT !.cap = x].cap = x
                              /\ \A y : [[c EXCEPT !.cap = x] EXCEPT !.cap = y] = [c EXCEPT !.cap = y]
<1> HIDE DEF Captures
<1>1. c \in ClipAdds \cup OfClips \cup Moves \cup Trims \cup Splits => Parts
  BY DEF ClipAdds, OfClips, Moves, Trims, Splits
<1>2. c \in Reorders \cup Speeds \cup Looks \cup Layouts \cup Transitions => Parts
  BY DEF Reorders, Speeds, Looks, Layouts, Transitions
<1>3. c \in TrackAdds \cup TrackRemoves \cup Mutes \cup MarkerAdds \cup MarkerRemoves => Parts
  BY DEF TrackAdds, TrackRemoves, Mutes, MarkerAdds, MarkerRemoves
<1>4. c \in Wordings \cup Styles \cup Retimes \cup SettingsCalls => Parts
  BY DEF Wordings, Styles, Retimes, SettingsCalls
<1> HIDE DEF Parts
<1>5. Parts
  BY <1>1, <1>2, <1>3, <1>4 DEF EditCommands
<1>6. QED
  BY <1>5 DEF Parts

-----------------------------------------------------------------------------------
(* What a command owes: its call leaves a document and the same command with       *)
(* another capture; and if it succeeded, reverting leads back.                     *)
LeavesDocument(c, r) == r.project \in Documents /\ \E x \in Captures : r.cmd = [c EXCEPT !.cap = x]

Back(c, p, u) == u.ok /\ u.project = p /\ \E x \in Captures : u.cmd = [c EXCEPT !.cap = x]

Honours(c, p, r, u) == LeavesDocument(c, r) /\ (r.ok => Back(c, p, u))

LEMMA RefusalHonours ==
  ASSUME NEW p \in Documents, NEW c \in EditCommands, NEW u
  PROVE  /\ Honours(c, p, Refused(p, c), u)
         /\ \A x \in Captures : Honours(c, p, Refused(p, [c EXCEPT !.cap = x]), u)
<1>1. c.cap \in Captures /\ [c EXCEPT !.cap = c.cap] = c
  BY CommandParts
<1>2. QED
  BY <1>1 DEF Honours, LeavesDocument, Refused

LEMMA SetAndReset ==
  ASSUME NEW p \in Documents, NEW c \in EditCommands, NEW id, ClipPlaces(p, id) # {},
         NEW clip \in AnyClip, clip.id = id, NEW x \in Captures, NEW q, q = SetClip(p, FindClip(p, id), clip)
  PROVE  /\ LeavesDocument(c, Done(q, [c EXCEPT !.cap = x]))
         /\ ClipPlaces(q, id) # {} /\ ClipAt(q, FindClip(q, id)) = clip
         /\ Back(c, p, Done(SetClip(q, FindClip(q, id), ClipAt(p, FindClip(p, id))), [c EXCEPT !.cap = x]))
<1> DEFINE at == FindClip(p, id)
           old == ClipAt(p, at)
<1>1. at \in ClipPlaces(p, id)
  BY ClipFound
<1>2. old \in AnyClip
  BY <1>1, Places
<1>5. q = SetClip(p, at, clip)
  OBVIOUS
<1> HIDE DEF at
<1>3. /\ q \in Documents /\ ClipAt(q, at) = clip /\ SetClip(p, at, old) = p
      /\ SetClip(q, at, old) = SetClip(p, at, old)
      /\ ClipPlaces(q, id) = ClipPlaces(p, id) /\ FindClip(q, id) = at
  <2>1. /\ q \in Documents /\ ClipAt(q, at) = clip /\ SetClip(p, at, old) = p
        /\ SetClip(q, at, old) = SetClip(p, at, old)
        /\ ClipPlaces(q, id) = ClipPlaces(p, id) /\ FindClip(q, id) = FindClip(p, id)
    <3>1. /\ SetClip(p, at, clip) \in Documents
          /\ ClipAt(SetClip(p, at, clip), at) = clip
          /\ SetClip(p, at, ClipAt(p, at)) = p
          /\ \A more : SetClip(SetClip(p, at, clip), at, more) = SetClip(p, at, more)
          /\ \A y : ClipPlaces(SetClip(p, at, clip), y) = ClipPlaces(p, y)
          /\ \A y : FindClip(SetClip(p, at, clip), y) = FindClip(p, y)
      <4>1. Exchanged(p, at, clip)
        BY <1>1, ClipSet
      <4>2. QED
        BY <4>1 DEF Exchanged
    <3>2. QED
      BY <1>5, <3>1
  <2>2. QED
    BY <2>1 DEF at
<1>4. QED
  BY <1>3 DEF LeavesDocument, Back, Done, at

LEMMA TheClip ==
  ASSUME NEW p \in Documents, NEW id, ClipPlaces(p, id) # {}
  PROVE  ClipAt(p, FindClip(p, id)) \in AnyClip /\ ClipAt(p, FindClip(p, id)).id = id
BY ClipFound, Places

-----------------------------------------------------------------------------------
(* Commands that change one clip in its place.                                     *)
LEMMA LookGoesBack ==
  ASSUME NEW p \in Documents, NEW c \in Looks, NEW r, r = ApplySetClipProperty(c, p)
  PROVE  Honours(c, p, r, RevertSetClipProperty(r.cmd, r.project))
<1> DEFINE old == ClipAt(p, FindClip(p, c.clip))
           clip == [old EXCEPT !.look = c.look]
           x == [held |-> TRUE, look |-> old.look]
           d == [c EXCEPT !.cap = x]
           q == SetClip(p, FindClip(p, c.clip), clip)
<1>1. c \in EditCommands
  BY DEF EditCommands
<1>2. CASE ClipPlaces(p, c.clip) = {}
  BY <1>1, <1>2, RefusalHonours DEF ApplySetClipProperty
<1>3. CASE ClipPlaces(p, c.clip) # {}
  <2>1. old \in AnyClip /\ old.id = c.clip
    BY <1>3, TheClip
  <2>2. r = Done(q, d)
    BY <1>3 DEF ApplySetClipProperty
  <2> HIDE DEF old
  <2>3. clip \in AnyClip /\ clip.id = c.clip /\ [clip EXCEPT !.look = x.look] = old
    BY <2>1 DEF AnyClip, Looks
  <2>4. x \in Captures
    BY <2>1 DEF Captures, AnyClip
  <2>5. d.cap = x /\ d.clip = c.clip /\ x.held
    BY DEF Looks
  <2> HIDE DEF clip, x, d, q
  <2>6. /\ LeavesDocument(c, Done(q, d)) /\ ClipPlaces(q, c.clip) # {} /\ ClipAt(q, FindClip(q, c.clip)) = clip
        /\ Back(c, p, Done(SetClip(q, FindClip(q, c.clip), old), d))
    BY <1>1, <1>3, <2>3, <2>4, SetAndReset DEF q, d, old
  <2>7. RevertSetClipProperty(d, q) = Done(SetClip(q, FindClip(q, c.clip), old), d)
    BY <2>3, <2>5, <2>6 DEF RevertSetClipProperty
  <2>8. r.cmd = d /\ r.project = q
    BY <2>2 DEF Done
  <2>9. QED
    BY <2>2, <2>6, <2>7, <2>8 DEF Honours
<1>4. QED
  BY <1>2, <1>3

LEMMA SpeedGoesBack ==
  ASSUME NEW p \in Documents, NEW c \in Speeds, NEW r, r = ApplySetClipProperties(c, p)
  PROVE  Honours(c, p, r, RevertSetClipProperties(r.cmd, r.project))
<1> DEFINE old == ClipAt(p, FindClip(p, c.clip))
           clip == [old EXCEPT !.look = c.look, !.speed = c.speed]
           x == [held |-> TRUE, look |-> old.look, speed |-> old.speed]
           d == [c EXCEPT !.cap = x]
           q == SetClip(p, FindClip(p, c.clip), clip)
           G == ClipPlaces(p, c.clip) # {} /\ TrackOrdered(q.tracks[FindClip(p, c.clip)[1]].clips)
<1>1. c \in EditCommands /\ NotApplied \in Captures
  BY DEF EditCommands, Captures
<1>2. CASE ~G
  <2>1. r = Refused(p, c) \/ r = Refused(p, [c EXCEPT !.cap = NotApplied])
    BY <1>2 DEF ApplySetClipProperties
  <2>2. QED
    BY <1>1, <2>1, RefusalHonours
<1>3. CASE G
  <2>1. old \in AnyClip /\ old.id = c.clip /\ ClipPlaces(p, c.clip) # {}
    BY <1>3, TheClip
  <2>2. r = Done(q, d)
    BY <1>3 DEF ApplySetClipProperties
  <2> HIDE DEF old
  <2>3. clip \in AnyClip /\ clip.id = c.clip /\ [clip EXCEPT !.look = x.look, !.speed = x.speed] = old
    BY <2>1 DEF AnyClip, Speeds
  <2>4. x \in Captures
    BY <2>1 DEF Captures, AnyClip
  <2>5. d.cap = x /\ d.clip = c.clip /\ x.held
    BY DEF Speeds
  <2> HIDE DEF clip, x, d, q
  <2>6. /\ LeavesDocument(c, Done(q, d)) /\ ClipPlaces(q, c.clip) # {} /\ ClipAt(q, FindClip(q, c.clip)) = clip
        /\ Back(c, p, Done(SetClip(q, FindClip(q, c.clip), old), d))
    BY <1>1, <2>1, <2>3, <2>4, SetAndReset DEF q, d, old
  <2>7. RevertSetClipProperties(d, q) = Done(SetClip(q, FindClip(q, c.clip), old), d)
    BY <2>1, <2>3, <2>5, <2>6 DEF RevertSetClipProperties
  <2>8. r.cmd = d /\ r.project = q
    BY <2>2 DEF Done
  <2>9. QED
    BY <2>2, <2>6, <2>7, <2>8 DEF Honours
<1>4. QED
  BY <1>2, <1>3

LEMMA TransitionGoesBack ==
  ASSUME NEW p \in Documents, NEW c \in Transitions, NEW r, r = ApplySetTransition(c, p)
  PROVE  Honours(c, p, r, RevertSetTransition(r.cmd, r.project))
<1> DEFINE old == ClipAt(p, FindClip(p, c.clip))
           clip == [old EXCEPT !.trans = c.length]
           x == [held |-> TRUE, length |-> old.trans]
           d == [c EXCEPT !.cap = x]
           q == SetClip(p, FindClip(p, c.clip), clip)
           G == ClipPlaces(p, c.clip) # {}
<1>1. c \in EditCommands /\ NotApplied \in Captures
  BY DEF EditCommands, Captures
<1>2. CASE ~G
  <2>1. r = Refused(p, c)
    BY <1>2 DEF ApplySetTransition
  <2>2. QED
    BY <1>1, <2>1, RefusalHonours
<1>3. CASE G
  <2>1. old \in AnyClip /\ old.id = c.clip /\ ClipPlaces(p, c.clip) # {}
    BY <1>3, TheClip
  <2>2. r = Done(q, d)
    BY <1>3 DEF ApplySetTransition
  <2> HIDE DEF old
  <2>3. clip \in AnyClip /\ clip.id = c.clip /\ [clip EXCEPT !.trans = x.length] = old
    BY <2>1 DEF AnyClip, Transitions
  <2>4. x \in Captures
    BY <2>1 DEF Captures, AnyClip
  <2>5. d.cap = x /\ d.clip = c.clip /\ x.held
    BY DEF Transitions
  <2> HIDE DEF clip, x, d, q
  <2>6. /\ LeavesDocument(c, Done(q, d)) /\ ClipPlaces(q, c.clip) # {} /\ ClipAt(q, FindClip(q, c.clip)) = clip
        /\ Back(c, p, Done(SetClip(q, FindClip(q, c.clip), old), d))
    BY <1>1, <2>1, <2>3, <2>4, SetAndReset DEF q, d, old
  <2>7. RevertSetTransition(d, q) = Done(SetClip(q, FindClip(q, c.clip), old), d)
    BY <2>1, <2>3, <2>5, <2>6 DEF RevertSetTransition
  <2>8. r.cmd = d /\ r.project = q
    BY <2>2 DEF Done
  <2>9. QED
    BY <2>2, <2>6, <2>7, <2>8 DEF Honours
<1>4. QED
  BY <1>2, <1>3

SpanChanged(clip, new) ==
  /\ new \in AnyClip /\ new.id = clip.id
  /\ [new EXCEPT !.in = clip.in, !.out = clip.out, !.start = clip.start] = clip

LEMMA Trimmed ==
  ASSUME NEW clip \in AnyClip, NEW edge \in {"start", "end"}, NEW boundary \in Int
  PROVE  SpanChanged(clip, TrimmedClip(clip, edge, boundary))
<1>1. \A a, b \in Int : Max({a, b}) \in Int
  BY DEF Max
<1>2. OneFrame(clip.speed) \in Int
  BY <1>1, FrameAssumption DEF OneFrame, SourceDeltaForTimeline, AnyClip
<1>3. \A value, lo, hi \in Int : Clamp(value, lo, hi) \in Int
  BY DEF Clamp
<1> DEFINE min == OneFrame(clip.speed)
           newIn == Clamp(boundary, 0, clip.out - min)
           newOut == Clamp(boundary, clip.in + min, SourceLength)
           newStart == Max({0, clip.start + newIn - clip.in})
<1>4. clip.in \in Int /\ clip.out \in Int /\ clip.start \in Int
  BY DEF AnyClip
<1>9. SourceLength \in Int
  BY FrameAssumption
<1>5. newIn \in Int /\ newOut \in Int
  <2> HIDE DEF min
  <2>1. min \in Int
    BY <1>2 DEF min
  <2>2. clip.out - min \in Int /\ clip.in + min \in Int
    BY <1>4, <2>1
  <2>3. QED
    <3>1. Clamp(boundary, 0, clip.out - min) \in Int
      <4> DEFINE hi == clip.out - min
      <4>1. hi \in Int /\ 0 \in Int
        BY <2>2
      <4> HIDE DEF hi
      <4>2. Clamp(boundary, 0, hi) \in Int
        BY <1>3, <4>1
      <4>3. QED
        BY <4>2 DEF hi
    <3>2. Clamp(boundary, clip.in + min, SourceLength) \in Int
      BY <1>3, <1>9, <2>2
    <3>3. QED
      BY <3>1, <3>2
<1> HIDE DEF newIn
<1>6. newStart \in Int
  BY <1>1, <1>4, <1>5
<1>7. TrimmedClip(clip, edge, boundary) =
        IF edge = "end" THEN [clip EXCEPT !.out = newOut] ELSE [clip EXCEPT !.in = newIn, !.start = newStart]
  BY DEF TrimmedClip, newIn
<1> HIDE DEF newOut, newStart
<1>8. QED
  BY <1>5, <1>6, <1>7 DEF AnyClip, SpanChanged

LEMMA TrimGoesBack ==
  ASSUME NEW p \in Documents, NEW c \in Trims, NEW r, r = ApplyTrimClip(c, p)
  PROVE  Honours(c, p, r, RevertTrimClip(r.cmd, r.project))
<1> DEFINE old == ClipAt(p, FindClip(p, c.clip))
           clip == TrimmedClip(old, c.edge, c.boundary)
           x == [held |-> TRUE, in |-> old.in, out |-> old.out, start |-> old.start]
           d == [c EXCEPT !.cap = x]
           q == SetClip(p, FindClip(p, c.clip), clip)
           G == ClipPlaces(p, c.clip) # {} /\ TrimFits(old, c.edge)
<1>1. c \in EditCommands /\ NotApplied \in Captures
  BY DEF EditCommands, Captures
<1>2. CASE ~G
  <2>1. r = Refused(p, c)
    BY <1>2 DEF ApplyTrimClip
  <2>2. QED
    BY <1>1, <2>1, RefusalHonours
<1>3. CASE G
  <2>1. old \in AnyClip /\ old.id = c.clip /\ ClipPlaces(p, c.clip) # {}
    BY <1>3, TheClip
  <2>2. r = Done(q, d)
    BY <1>3 DEF ApplyTrimClip
  <2> HIDE DEF old
  <2>c. c.edge \in {"start", "end"} /\ c.boundary \in Int
    BY DEF Trims
  <2>d. clip \in AnyClip /\ clip.id = old.id
        /\ [clip EXCEPT !.in = old.in, !.out = old.out, !.start = old.start] = old
    <3>1. SpanChanged(old, clip)
      BY <2>1, <2>c, Trimmed
    <3>2. QED
      BY <3>1 DEF SpanChanged
  <2> HIDE DEF clip
  <2>e. x.in = old.in /\ x.out = old.out /\ x.start = old.start
    OBVIOUS
  <2> HIDE DEF x
  <2>3. clip \in AnyClip /\ clip.id = c.clip /\ [clip EXCEPT !.in = x.in, !.out = x.out, !.start = x.start] = old
    BY <2>1, <2>d, <2>e
  <2> USE DEF x
  <2>4. x \in Captures
    BY <2>1 DEF Captures, AnyClip
  <2>5. d.cap = x /\ d.clip = c.clip /\ x.held
    BY DEF Trims
  <2> HIDE DEF clip, x, d, q
  <2>6. /\ LeavesDocument(c, Done(q, d)) /\ ClipPlaces(q, c.clip) # {} /\ ClipAt(q, FindClip(q, c.clip)) = clip
        /\ Back(c, p, Done(SetClip(q, FindClip(q, c.clip), old), d))
    BY <1>1, <2>1, <2>3, <2>4, SetAndReset DEF q, d, old
  <2>7. RevertTrimClip(d, q) = Done(SetClip(q, FindClip(q, c.clip), old), d)
    BY <2>1, <2>3, <2>5, <2>6 DEF RevertTrimClip
  <2>8. r.cmd = d /\ r.project = q
    BY <2>2 DEF Done
  <2>9. QED
    BY <2>2, <2>6, <2>7, <2>8 DEF Honours
<1>4. QED
  BY <1>2, <1>3

LEMMA WordsGoBack ==
  ASSUME NEW p \in Documents, NEW c \in Wordings, NEW r, r = ApplySetTextContent(c, p)
  PROVE  Honours(c, p, r, RevertSetTextContent(r.cmd, r.project))
<1> DEFINE old == ClipAt(p, FindClip(p, c.clip))
           clip == [old EXCEPT !.text.words = c.words]
           x == [held |-> TRUE, words |-> old.text.words]
           d == [c EXCEPT !.cap = x]
           q == SetClip(p, FindClip(p, c.clip), clip)
           G == ClipPlaces(p, c.clip) # {} /\ IsTextClip(old)
<1>1. c \in EditCommands /\ NotApplied \in Captures
  BY DEF EditCommands, Captures
<1>2. CASE ~G
  <2>1. r = Refused(p, c)
    BY <1>2 DEF ApplySetTextContent
  <2>2. QED
    BY <1>1, <2>1, RefusalHonours
<1>3. CASE G
  <2>1. old \in AnyClip /\ old.id = c.clip /\ ClipPlaces(p, c.clip) # {}
    BY <1>3, TheClip
  <2>2. r = Done(q, d)
    BY <1>3 DEF ApplySetTextContent
  <2> HIDE DEF old
  <2>3. clip \in AnyClip /\ clip.id = c.clip /\ [clip EXCEPT !.text.words = x.words] = old
    BY <2>1 DEF AnyClip, Wordings, AnyText
  <2>a. clip.text.kind = old.text.kind
    BY <2>1 DEF AnyClip, AnyText
  <2>b. IsTextClip(clip)
    BY <1>3, <2>a DEF IsTextClip, old
  <2>4. x \in Captures
    BY <2>1 DEF Captures, AnyClip, AnyText
  <2>5. d.cap = x /\ d.clip = c.clip /\ x.held
    BY DEF Wordings
  <2> HIDE DEF clip, x, d, q
  <2>6. /\ LeavesDocument(c, Done(q, d)) /\ ClipPlaces(q, c.clip) # {} /\ ClipAt(q, FindClip(q, c.clip)) = clip
        /\ Back(c, p, Done(SetClip(q, FindClip(q, c.clip), old), d))
    BY <1>1, <2>1, <2>3, <2>4, SetAndReset DEF q, d, old
  <2>7. RevertSetTextContent(d, q) = Done(SetClip(q, FindClip(q, c.clip), old), d)
    BY <2>1, <2>3, <2>5, <2>6, <2>b DEF RevertSetTextContent
  <2>8. r.cmd = d /\ r.project = q
    BY <2>2 DEF Done
  <2>9. QED
    BY <2>2, <2>6, <2>7, <2>8 DEF Honours
<1>4. QED
  BY <1>2, <1>3

LEMMA CueWordsGoBack ==
  ASSUME NEW p \in Documents, NEW c \in Wordings, NEW r, r = ApplySetCaptionText(c, p)
  PROVE  Honours(c, p, r, RevertSetCaptionText(r.cmd, r.project))
<1> DEFINE old == ClipAt(p, FindClip(p, c.clip))
           clip == [old EXCEPT !.text.words = c.words]
           x == [held |-> TRUE, words |-> old.text.words]
           d == [c EXCEPT !.cap = x]
           q == SetClip(p, FindClip(p, c.clip), clip)
           G == ClipPlaces(p, c.clip) # {} /\ IsCaptionCue(old) /\ c.words # ""
<1>1. c \in EditCommands /\ NotApplied \in Captures
  BY DEF EditCommands, Captures
<1>2. CASE ~G
  <2>1. r = Refused(p, c)
    BY <1>2 DEF ApplySetCaptionText
  <2>2. QED
    BY <1>1, <2>1, RefusalHonours
<1>3. CASE G
  <2>1. old \in AnyClip /\ old.id = c.clip /\ ClipPlaces(p, c.clip) # {}
    BY <1>3, TheClip
  <2>2. r = Done(q, d)
    BY <1>3 DEF ApplySetCaptionText
  <2> HIDE DEF old
  <2>3. clip \in AnyClip /\ clip.id = c.clip /\ [clip EXCEPT !.text.words = x.words] = old
    BY <2>1 DEF AnyClip, Wordings, AnyText
  <2>a. clip.text.kind = old.text.kind
    BY <2>1 DEF AnyClip, AnyText
  <2>b. IsCaptionCue(clip)
    BY <1>3, <2>a DEF IsCaptionCue, old
  <2>4. x \in Captures
    BY <2>1 DEF Captures, AnyClip, AnyText
  <2>5. d.cap = x /\ d.clip = c.clip /\ x.held
    BY DEF Wordings
  <2> HIDE DEF clip, x, d, q
  <2>6. /\ LeavesDocument(c, Done(q, d)) /\ ClipPlaces(q, c.clip) # {} /\ ClipAt(q, FindClip(q, c.clip)) = clip
        /\ Back(c, p, Done(SetClip(q, FindClip(q, c.clip), old), d))
    BY <1>1, <2>1, <2>3, <2>4, SetAndReset DEF q, d, old
  <2>7. RevertSetCaptionText(d, q) = Done(SetClip(q, FindClip(q, c.clip), old), d)
    BY <2>1, <2>3, <2>5, <2>6, <2>b DEF RevertSetCaptionText
  <2>8. r.cmd = d /\ r.project = q
    BY <2>2 DEF Done
  <2>9. QED
    BY <2>2, <2>6, <2>7, <2>8 DEF Honours
<1>4. QED
  BY <1>2, <1>3

LEMMA StyleGoesBack ==
  ASSUME NEW p \in Documents, NEW c \in Styles, NEW r, r = ApplySetTextStyle(c, p)
  PROVE  Honours(c, p, r, RevertSetTextStyle(r.cmd, r.project))
<1> DEFINE old == ClipAt(p, FindClip(p, c.clip))
           clip == [old EXCEPT !.text.style = c.style]
           x == [held |-> TRUE, text |-> old.text]
           d == [c EXCEPT !.cap = x]
           q == SetClip(p, FindClip(p, c.clip), clip)
           G == ClipPlaces(p, c.clip) # {} /\ IsTextClip(old) /\ ValidStyle(c.style)
<1>1. c \in EditCommands /\ NotApplied \in Captures
  BY DEF EditCommands, Captures
<1>2. CASE ~G
  <2>1. r = Refused(p, c)
    BY <1>2 DEF ApplySetTextStyle
  <2>2. QED
    BY <1>1, <2>1, RefusalHonours
<1>3. CASE G
  <2>1. old \in AnyClip /\ old.id = c.clip /\ ClipPlaces(p, c.clip) # {}
    BY <1>3, TheClip
  <2>2. r = Done(q, d)
    BY <1>3 DEF ApplySetTextStyle
  <2> HIDE DEF old
  <2>3. clip \in AnyClip /\ clip.id = c.clip /\ [clip EXCEPT !.text = x.text] = old
    BY <2>1 DEF AnyClip, Styles, AnyText
  <2>a. clip.text.kind = old.text.kind
    BY <2>1 DEF AnyClip, AnyText
  <2>b. IsTextClip(clip)
    BY <1>3, <2>a DEF IsTextClip, old
  <2>4. x \in Captures
    BY <2>1 DEF Captures, AnyClip
  <2>5. d.cap = x /\ d.clip = c.clip /\ x.held
    BY DEF Styles
  <2> HIDE DEF clip, x, d, q
  <2>6. /\ LeavesDocument(c, Done(q, d)) /\ ClipPlaces(q, c.clip) # {} /\ ClipAt(q, FindClip(q, c.clip)) = clip
        /\ Back(c, p, Done(SetClip(q, FindClip(q, c.clip), old), d))
    BY <1>1, <2>1, <2>3, <2>4, SetAndReset DEF q, d, old
  <2>7. RevertSetTextStyle(d, q) = Done(SetClip(q, FindClip(q, c.clip), old), d)
    BY <2>1, <2>3, <2>5, <2>6, <2>b DEF RevertSetTextStyle
  <2>8. r.cmd = d /\ r.project = q
    BY <2>2 DEF Done
  <2>9. QED
    BY <2>2, <2>6, <2>7, <2>8 DEF Honours
<1>4. QED
  BY <1>2, <1>3

-----------------------------------------------------------------------------------
(* Commands that rewrite one track.                                                *)
LEMMA TrackRestored ==
  ASSUME NEW p \in Documents, NEW c \in EditCommands, NEW t \in DOMAIN p.tracks, NEW clips \in Seq(AnyClip),
         NEW q, q = SetClips(p, t, clips), NEW d, d = CapturingClips(c, p, t)
  PROVE  Honours(c, p, Done(q, d), RevertTrack(d, q)) /\ Honours(c, p, Refused(p, d), RevertTrack(d, p))
<1> DEFINE id == p.tracks[t].id
           old == p.tracks[t].clips
           x == [held |-> TRUE, track |-> id, clips |-> old]
<1>1. id \in Data /\ old \in Seq(AnyClip)
  BY DocumentFields
<1>2. x \in Captures /\ x.held /\ x.track = id /\ x.clips = old
  BY <1>1 DEF Captures
<1>3. d = [c EXCEPT !.cap = x]
  BY DEF CapturingClips
<1>4. /\ q \in Documents /\ TrackIds(q) = TrackIds(p) /\ FindTrack(q, id) = FindTrack(p, id)
      /\ SetClips(q, t, old) = SetClips(p, t, old) /\ SetClips(p, t, old) = p
  BY ClipsSet
<1>5. FindTrack(p, id) = t /\ id \in TrackIds(p)
  BY TrackFound
<1> HIDE DEF id, old, x
<1>6. d.cap = x
  BY <1>3, CommandParts
<1>7. RevertTrack(d, q) = Done(p, d)
  BY <1>2, <1>4, <1>5, <1>6 DEF RevertTrack
<1>8. Honours(c, p, Refused(p, d), RevertTrack(d, p))
  BY <1>2, <1>3, RefusalHonours
<1>9. Honours(c, p, Done(q, d), RevertTrack(d, q))
  BY <1>2, <1>3, <1>4, <1>7 DEF Honours, LeavesDocument, Back, Done
<1>10. QED
  BY <1>8, <1>9

LEMMA RewriteGoesBack ==
  ASSUME NEW p \in Documents, NEW c \in EditCommands, NEW t \in DOMAIN p.tracks, NEW clips \in Seq(AnyClip),
         NEW r, r = RewriteTrack(c, p, t, clips)
  PROVE  Honours(c, p, r, RevertTrack(r.cmd, r.project))
<1> DEFINE q == SetClips(p, t, clips)
           d == CapturingClips(c, p, t)
<1>1. r = Done(q, d) \/ r = Refused(p, d)
  BY DEF RewriteTrack
<1>2. Honours(c, p, Done(q, d), RevertTrack(d, q)) /\ Honours(c, p, Refused(p, d), RevertTrack(d, p))
  BY TrackRestored
<1> HIDE DEF q, d
<1>3. r = Done(q, d) => r.cmd = d /\ r.project = q
  BY DEF Done
<1>4. r = Refused(p, d) => r.cmd = d /\ r.project = p
  BY DEF Refused
<1>5. QED
  BY <1>1, <1>2, <1>3, <1>4

LEMMA Lasting ==
  ASSUME NEW clip \in AnyClip
  PROVE  Duration(clip) \in Int /\ End(clip) \in Int /\ clip.start \in Int /\ clip.trans \in Int
<1>1. clip.in \in Int /\ clip.out \in Int /\ clip.start \in Int /\ clip.trans \in Int /\ clip.speed \in Nat \ {0}
  BY DEF AnyClip
<1>2. \A a \in Int, b \in Nat \ {0} : a \div b \in Int
  OBVIOUS
<1>3. 4 * (clip.out - clip.in) + clip.speed \in Int /\ 2 * clip.speed \in Nat \ {0}
  BY <1>1
<1>4. Duration(clip) \in Int
  <2> DEFINE a == 4 * (clip.out - clip.in) + clip.speed
             b == 2 * clip.speed
  <2>1. Duration(clip) = a \div b
    BY DEF Duration, TimelineLengthForSource
  <2>2. a \in Int /\ b \in Nat \ {0}
    BY <1>3
  <2> HIDE DEF a, b
  <2>3. QED
    BY <1>2, <2>1, <2>2
<1>5. QED
  BY <1>1, <1>4 DEF End

LEMMA Restarted ==
  ASSUME NEW clip \in AnyClip, NEW start \in Int
  PROVE  [clip EXCEPT !.start = start] \in AnyClip /\ clip.start \in Int
BY DEF AnyClip

LEMMA Shifted ==
  ASSUME NEW clips \in Seq(AnyClip), NEW k \in Int, NEW delta \in Int
  PROVE  ShiftFrom(clips, k, delta) \in Seq(AnyClip) /\ Len(ShiftFrom(clips, k, delta)) = Len(clips)
<1> DEFINE new == ShiftFrom(clips, k, delta)
<1>1. ASSUME NEW i \in 1..Len(clips) PROVE new[i] \in AnyClip
  <2>1. clips[i] \in AnyClip
    OBVIOUS
  <2>2. [clips[i] EXCEPT !.start = @ + delta] \in AnyClip
    <3> DEFINE clip == clips[i]
    <3>1. clip \in AnyClip
      BY <2>1
    <3> HIDE DEF clip
    <3>2. clip.start + delta \in Int
      BY <3>1 DEF AnyClip
    <3>3. [clip EXCEPT !.start = clip.start + delta] \in AnyClip
      BY <3>1, <3>2, Restarted
    <3>4. QED
      BY <3>3 DEF clip
  <2>3. new[i] = IF i >= k THEN [clips[i] EXCEPT !.start = @ + delta] ELSE clips[i]
    BY DEF ShiftFrom
  <2> HIDE DEF new
  <2>4. QED
    BY <2>1, <2>2, <2>3
<1>2. new = [i \in 1..Len(clips) |-> new[i]]
  BY DEF ShiftFrom
<1> HIDE DEF new
<1>3. [i \in 1..Len(clips) |-> new[i]] \in Seq(AnyClip) /\ Len([i \in 1..Len(clips) |-> new[i]]) = Len(clips)
  BY <1>1
<1>4. QED
  BY <1>2, <1>3 DEF new

LEMMA FewAhead ==
  ASSUME NEW n \in Nat, NEW T \in SUBSET (1..n)
  PROVE  Cardinality(T) \in Nat /\ Cardinality(T) <= n
<1>1. IsFiniteSet(1..n) /\ Cardinality(1..n) = n
  BY FS_Interval
<1>2. QED
  BY <1>1, FS_Subset, FS_CardinalityType

LEMMA MovedTyped ==
  ASSUME NEW clips \in Seq(AnyClip), NEW i \in DOMAIN clips, NEW start \in Int
  PROVE  MovedClip(clips, i, start) \in Seq(AnyClip)
<1> DEFINE rest == RemoveAt(clips, i)
           ahead == {k \in DOMAIN rest : rest[k].start < start \/ (rest[k].start = start /\ k < i)}
           clip == [clips[i] EXCEPT !.start = start]
           place == Cardinality(ahead) + 1
<1>1. i \in 1..Len(clips) /\ clip \in AnyClip
  <2>1. i \in 1..Len(clips) /\ clips[i] \in AnyClip
    OBVIOUS
  <2>2. QED
    BY <2>1, Restarted
<1>2. rest \in Seq(AnyClip)
  BY <1>1, TakenOut
<1> HIDE DEF rest
<1>3. Len(rest) \in Nat /\ ahead \in SUBSET (1..Len(rest))
  BY <1>2
<1>4. MovedClip(clips, i, start) = InsertAt(rest, place, clip)
  BY DEF MovedClip, rest
<1> HIDE DEF ahead, clip
<1>5. place \in 1..Len(rest) + 1
  BY <1>3, FewAhead
<1> HIDE DEF place
<1>6. QED
  BY <1>1, <1>2, <1>4, <1>5, PutBack

LEMMA MoveGoesBack ==
  ASSUME NEW p \in Documents, NEW c \in Moves, NEW r, r = ApplyMoveClip(c, p)
  PROVE  Honours(c, p, r, RevertTrack(r.cmd, r.project))
<1> DEFINE at == FindClip(p, c.clip)
           clips == MovedClip(p.tracks[at[1]].clips, at[2], c.start)
<1>1. c \in EditCommands /\ c.start \in Int
  BY DEF EditCommands, Moves
<1>2. CASE ClipPlaces(p, c.clip) = {} \/ c.start < 0
  <2>1. r = Refused(p, c)
    BY <1>2 DEF ApplyMoveClip
  <2>2. QED
    BY <1>1, <2>1, RefusalHonours
<1>3. CASE ~(ClipPlaces(p, c.clip) = {} \/ c.start < 0)
  <2>1. at[1] \in DOMAIN p.tracks /\ at[2] \in DOMAIN p.tracks[at[1]].clips
    BY <1>3, ClipFound, Places
  <2>2. r = RewriteTrack(c, p, at[1], clips)
    BY <1>3 DEF ApplyMoveClip
  <2> HIDE DEF at
  <2>3. clips \in Seq(AnyClip)
    BY <1>1, <2>1, DocumentFields, MovedTyped
  <2>4. QED
    BY <1>1, <2>1, <2>2, <2>3, RewriteGoesBack
<1>4. QED
  BY <1>2, <1>3

LEMMA RippleDeleteGoesBack ==
  ASSUME NEW p \in Documents, NEW c \in OfClips, NEW r, r = ApplyRippleDelete(c, p)
  PROVE  Honours(c, p, r, RevertTrack(r.cmd, r.project))
<1> DEFINE at == FindClip(p, c.clip)
           rest == RemoveAt(p.tracks[at[1]].clips, at[2])
           delta == -Duration(ClipAt(p, at))
<1>1. c \in EditCommands
  BY DEF EditCommands
<1>2. CASE ClipPlaces(p, c.clip) = {}
  <2>1. r = Refused(p, c)
    BY <1>2 DEF ApplyRippleDelete
  <2>2. QED
    BY <1>1, <2>1, RefusalHonours
<1>3. CASE ClipPlaces(p, c.clip) # {}
  <2>1. /\ at[1] \in DOMAIN p.tracks /\ at[2] \in DOMAIN p.tracks[at[1]].clips /\ at[2] \in Nat
        /\ ClipAt(p, at) \in AnyClip
    BY <1>3, ClipFound, Places
  <2>2. r = RewriteTrack(c, p, at[1], ShiftFrom(rest, at[2], delta))
    BY <1>3 DEF ApplyRippleDelete
  <2>3. delta \in Int
    BY <2>1, Lasting
  <2> HIDE DEF at, delta
  <2>4. p.tracks[at[1]].clips \in Seq(AnyClip) /\ at[2] \in 1..Len(p.tracks[at[1]].clips) /\ at[2] \in Int
    BY <2>1, DocumentFields
  <2>5. rest \in Seq(AnyClip)
    BY <2>4, TakenOut
  <2> HIDE DEF rest
  <2>6. ShiftFrom(rest, at[2], delta) \in Seq(AnyClip)
    BY <2>3, <2>4, <2>5, Shifted
  <2>7. QED
    BY <1>1, <2>1, <2>2, <2>6, RewriteGoesBack
<1>4. QED
  BY <1>2, <1>3

LEMMA CloseGapGoesBack ==
  ASSUME NEW p \in Documents, NEW c \in OfClips, NEW r, r = ApplyCloseGap(c, p)
  PROVE  Honours(c, p, r, RevertTrack(r.cmd, r.project))
<1> DEFINE at == FindClip(p, c.clip)
           clips == p.tracks[at[1]].clips
           gap == clips[at[2] + 1].start - End(clips[at[2]])
           new == ShiftFrom(clips, at[2] + 1, -gap)
<1>1. c \in EditCommands
  BY DEF EditCommands
<1>2. r = Refused(p, c) \/ (ClipPlaces(p, c.clip) # {} /\ at[2] # Len(clips) /\ r = RewriteTrack(c, p, at[1], new))
  BY DEF ApplyCloseGap
<1>3. CASE r = Refused(p, c)
  BY <1>1, <1>3, RefusalHonours
<1>4. CASE ClipPlaces(p, c.clip) # {} /\ at[2] # Len(clips) /\ r = RewriteTrack(c, p, at[1], new)
  <2>1. at[1] \in DOMAIN p.tracks /\ at[2] \in DOMAIN clips /\ at[2] \in Nat
    BY <1>4, ClipFound, Places
  <2> HIDE DEF at
  <2>2. clips \in Seq(AnyClip)
    BY <2>1, DocumentFields
  <2> HIDE DEF clips
  <2>3. clips[at[2]] \in AnyClip /\ clips[at[2] + 1] \in AnyClip /\ at[2] + 1 \in Int
    BY <1>4, <2>1, <2>2
  <2>4. -gap \in Int
    BY <2>3, Lasting
  <2> HIDE DEF gap
  <2>5. new \in Seq(AnyClip)
    BY <2>2, <2>3, <2>4, Shifted
  <2>6. QED
    BY <1>1, <1>4, <2>1, <2>5, RewriteGoesBack
<1>5. QED
  BY <1>2, <1>3, <1>4

-----------------------------------------------------------------------------------
(* Commands that take clips out of a track or put them in.                         *)
LEMMA ClipsReset ==
  ASSUME NEW p \in Documents, NEW c \in EditCommands, NEW t \in DOMAIN p.tracks, NEW clips \in Seq(AnyClip),
         NEW x \in Captures, NEW q, q = SetClips(p, t, clips), NEW d, d = [c EXCEPT !.cap = x]
  PROVE  /\ d.cap = x /\ LeavesDocument(c, Done(q, d)) /\ q.tracks[t].clips = clips
         /\ FindTrack(q, p.tracks[t].id) = t /\ p.tracks[t].id \in TrackIds(q)
         /\ Back(c, p, Done(SetClips(q, t, p.tracks[t].clips), d))
<1>1. /\ q \in Documents /\ q.tracks[t].clips = clips /\ TrackIds(q) = TrackIds(p)
      /\ FindTrack(q, p.tracks[t].id) = FindTrack(p, p.tracks[t].id)
      /\ SetClips(q, t, p.tracks[t].clips) = p
  <2>1. /\ q \in Documents /\ q.tracks[t].clips = clips /\ TrackIds(q) = TrackIds(p)
        /\ FindTrack(q, p.tracks[t].id) = FindTrack(p, p.tracks[t].id)
        /\ \A more : SetClips(q, t, more) = SetClips(p, t, more)
        /\ SetClips(p, t, p.tracks[t].clips) = p
    BY ClipsSet
  <2>2. QED
    BY <2>1
<1>2. FindTrack(p, p.tracks[t].id) = t /\ p.tracks[t].id \in TrackIds(p)
  BY TrackFound
<1>3. d.cap = x
  BY CommandParts
<1>4. LeavesDocument(c, Done(q, d)) /\ Back(c, p, Done(p, d))
  BY <1>1 DEF LeavesDocument, Back, Done
<1>5. QED
  BY <1>1, <1>2, <1>3, <1>4

LEMMA SmallerOf ==
  ASSUME NEW a \in Int, NEW b \in Int, a <= b
  PROVE  Min({a, b}) = a
<1>1. \A x \in {a, b} : (\A y \in {a, b} : x <= y) => x = a
  OBVIOUS
<1>2. QED
  BY <1>1 DEF Min

LEMMA DeleteGoesBack ==
  ASSUME NEW p \in Documents, NEW c \in OfClips, NEW r, r = ApplyDeleteClip(c, p)
  PROVE  Honours(c, p, r, RevertDeleteClip(r.cmd, r.project))
<1> DEFINE at == FindClip(p, c.clip)
           t == at[1]
           i == at[2]
           clips == p.tracks[t].clips
           id == p.tracks[t].id
           rest == RemoveAt(clips, i)
           x == [held |-> TRUE, track |-> id, index |-> i, clip |-> clips[i]]
           d == [c EXCEPT !.cap = x]
           q == SetClips(p, t, rest)
<1>1. c \in EditCommands
  BY DEF EditCommands
<1>2. CASE ClipPlaces(p, c.clip) = {}
  <2>1. r = Refused(p, c)
    BY <1>2 DEF ApplyDeleteClip
  <2>2. QED
    BY <1>1, <2>1, RefusalHonours
<1>3. CASE ClipPlaces(p, c.clip) # {}
  <2>1. t \in DOMAIN p.tracks /\ i \in DOMAIN clips /\ i \in Nat
    BY <1>3, ClipFound, Places
  <2>2. r = Done(q, d)
    BY <1>3 DEF ApplyDeleteClip, ClipAt
  <2> HIDE DEF at, t, i
  <2>3. clips \in Seq(AnyClip) /\ id \in Data
    BY <2>1, DocumentFields
  <2> HIDE DEF clips, id
  <2>4. i \in 1..Len(clips) /\ clips[i] \in AnyClip
    BY <2>1, <2>3
  <2>5. rest \in Seq(AnyClip) /\ Len(rest) = Len(clips) - 1 /\ InsertAt(rest, i, clips[i]) = clips
    BY <2>3, <2>4, TakenOut, OutAndBack
  <2>6. x \in Captures /\ x.held /\ x.track = id /\ x.index = i /\ x.clip = clips[i]
    BY <2>1, <2>3, <2>4 DEF Captures
  <2> HIDE DEF x, rest, d, q
  <2>7. /\ d.cap = x /\ LeavesDocument(c, Done(q, d)) /\ q.tracks[t].clips = rest
        /\ FindTrack(q, id) = t /\ id \in TrackIds(q)
        /\ Back(c, p, Done(SetClips(q, t, clips), d))
    BY <1>1, <2>1, <2>5, <2>6, ClipsReset DEF q, d, id, clips
  <2>8. Min({i, Len(rest) + 1}) = i
    <3>1. i \in Int /\ Len(rest) + 1 \in Int /\ i <= Len(rest) + 1
      BY <2>3, <2>4, <2>5
    <3>2. QED
      BY <3>1, SmallerOf
  <2>9. RevertDeleteClip(d, q) = Done(SetClips(q, t, clips), d)
    BY <2>5, <2>6, <2>7, <2>8 DEF RevertDeleteClip
  <2>10. r.cmd = d /\ r.project = q
    BY <2>2 DEF Done
  <2>11. QED
    BY <2>2, <2>7, <2>9, <2>10 DEF Honours
<1>4. QED
  BY <1>2, <1>3

LEMMA SourceDeltas ==
  ASSUME NEW delta \in Int, NEW speed \in Nat
  PROVE  SourceDeltaForTimeline(delta, speed) \in Int
BY DEF SourceDeltaForTimeline

LEMMA SplitGoesBack ==
  ASSUME NEW p \in Documents, NEW c \in Splits, NEW r, r = ApplySplitClip(c, p)
  PROVE  Honours(c, p, r, RevertSplitClip(r.cmd, r.project))
<1> DEFINE at == FindClip(p, c.clip)
           t == at[1]
           i == at[2]
           clips == p.tracks[t].clips
           id == p.tracks[t].id
           whole == clips[i]
           offset == SourceDeltaForTimeline(c.playhead - whole.start, whole.speed)
           left == [whole EXCEPT !.out = whole.in + offset]
           right == [whole EXCEPT !.id = c.right, !.in = whole.in + offset, !.start = End(left), !.trans = 0]
           first == ReplaceAt(clips, i, left)
           halves == InsertAt(first, i + 1, right)
           x == [held |-> TRUE, track |-> id, index |-> i, clip |-> whole]
           d == [c EXCEPT !.cap = x]
           q == SetClips(p, t, halves)
<1>1. c \in EditCommands /\ NotApplied \in Captures /\ c.playhead \in Int /\ c.right \in Data
  <2>1. c \in EditCommands
    BY DEF EditCommands
  <2>2. NotApplied \in Captures
    BY DEF Captures
  <2>3. QED
    BY <2>1, <2>2 DEF Splits
<1>2. r = Refused(p, [c EXCEPT !.cap = NotApplied]) \/ (ClipPlaces(p, c.clip) # {} /\ r = Done(q, d))
  BY DEF ApplySplitClip, ClipAt
<1>3. CASE r = Refused(p, [c EXCEPT !.cap = NotApplied])
  BY <1>1, <1>3, RefusalHonours
<1>4. CASE ClipPlaces(p, c.clip) # {} /\ r = Done(q, d)
  <2>1. t \in DOMAIN p.tracks /\ i \in DOMAIN clips /\ i \in Nat
    BY <1>4, ClipFound, Places
  <2> HIDE DEF at, t, i
  <2>3. clips \in Seq(AnyClip) /\ id \in Data
    BY <2>1, DocumentFields
  <2> HIDE DEF clips, id
  <2>4. i \in 1..Len(clips) /\ whole \in AnyClip
    BY <2>1, <2>3
  <2>5. left \in AnyClip /\ right \in AnyClip
    <3> HIDE DEF whole
    <3>1. whole.start \in Int /\ whole.in \in Int /\ whole.speed \in Nat
      BY <2>4 DEF AnyClip
    <3>2. offset \in Int
      <4>1. c.playhead - whole.start \in Int
        BY <1>1, <3>1
      <4>2. QED
        BY <3>1, <4>1, SourceDeltas
    <3> HIDE DEF offset
    <3>3. left \in AnyClip
      BY <2>4, <3>1, <3>2 DEF AnyClip
    <3>4. End(left) \in Int
      BY <3>3, Lasting
    <3> HIDE DEF left
    <3>5. right \in AnyClip
      <4> DEFINE end == End(left)
                 newIn == whole.in + offset
                 new == c.right
      <4>1. end \in Int /\ newIn \in Int /\ new \in Data /\ 0 \in Int
        BY <1>1, <3>1, <3>2, <3>4
      <4> HIDE DEF end, newIn, new
      <4>2. [whole EXCEPT !.id = new, !.in = newIn, !.start = end, !.trans = 0] \in AnyClip
        BY <2>4, <4>1 DEF AnyClip
      <4>3. QED
        BY <4>2 DEF end, newIn, new
    <3>6. QED
      BY <3>3, <3>5
  <2> HIDE DEF left, right, offset
  <2>6. /\ first \in Seq(AnyClip) /\ Len(first) = Len(clips) /\ ReplaceAt(first, i, whole) = clips
        /\ i + 1 \in 1..Len(first) + 1
    <3>1. first \in Seq(AnyClip) /\ Len(first) = Len(clips)
      BY <2>3, <2>4, <2>5 DEF ReplaceAt
    <3>2. ReplaceAt(first, i, whole) = clips
      <4>1. [clips EXCEPT ![i] = whole] = clips
        BY <2>3, <2>4
      <4> HIDE DEF whole
      <4>2. [[clips EXCEPT ![i] = left] EXCEPT ![i] = whole] = [clips EXCEPT ![i] = whole]
        BY <2>3, <2>4
      <4>3. QED
        BY <4>1, <4>2 DEF ReplaceAt
    <3>3. i + 1 \in 1..Len(first) + 1
      BY <2>3, <2>4, <3>1
    <3>4. QED
      BY <3>1, <3>2, <3>3
  <2>7. x \in Captures /\ x.held /\ x.track = id /\ x.index = i /\ x.clip = whole
    BY <2>1, <2>3, <2>4 DEF Captures
  <2> HIDE DEF first, whole
  <2>8. halves \in Seq(AnyClip) /\ Len(halves) = Len(clips) + 1 /\ RemoveAt(halves, i + 1) = first
    BY <2>5, <2>6, PutBack, BackAndOut
  <2>9. i < Len(halves)
    BY <2>3, <2>4, <2>8
  <2> HIDE DEF halves, x, d, q
  <2>10. /\ d.cap = x /\ LeavesDocument(c, Done(q, d)) /\ q.tracks[t].clips = halves
         /\ FindTrack(q, id) = t /\ id \in TrackIds(q)
         /\ Back(c, p, Done(SetClips(q, t, clips), d))
    BY <1>1, <2>1, <2>7, <2>8, ClipsReset DEF q, d, id, clips
  <2>11. RevertSplitClip(d, q) = Done(SetClips(q, t, clips), d)
    BY <2>6, <2>7, <2>8, <2>9, <2>10 DEF RevertSplitClip
  <2>12. r.cmd = d /\ r.project = q
    BY <1>4 DEF Done
  <2>13. QED
    BY <1>4, <2>10, <2>11, <2>12 DEF Honours
<1>5. QED
  BY <1>2, <1>3, <1>4

-----------------------------------------------------------------------------------
(* Tracks.                                                                         *)
LEMMA TracksReset ==
  ASSUME NEW p \in Documents, NEW c \in EditCommands, NEW tracks \in Seq(AnyTrack), TracksApart(tracks),
         NEW x \in Captures, NEW q, q = [p EXCEPT !.tracks = tracks], NEW d, d = [c EXCEPT !.cap = x]
  PROVE  /\ d.cap = x /\ LeavesDocument(c, Done(q, d)) /\ q.tracks = tracks /\ q \in Documents
         /\ Back(c, p, Done([q EXCEPT !.tracks = p.tracks], d))
<1>1. q \in Documents /\ q.tracks = tracks /\ [q EXCEPT !.tracks = p.tracks] = p
  BY TracksSet
<1>2. d.cap = x
  BY CommandParts
<1>3. LeavesDocument(c, Done(q, d)) /\ Back(c, p, Done(p, d))
  BY <1>1 DEF LeavesDocument, Back, Done
<1>4. QED
  BY <1>1, <1>2, <1>3

LEMMA ApartWith ==
  ASSUME NEW tracks \in Seq(AnyTrack), TracksApart(tracks), NEW i \in 1..Len(tracks) + 1, NEW e \in AnyTrack,
         \A t \in DOMAIN tracks : tracks[t].id # e.id
  PROVE  TracksApart(InsertAt(tracks, i, e))
<1> DEFINE new == InsertAt(tracks, i, e)
           n == Len(tracks)
           from(k) == IF k < i THEN k ELSE k - 1
<1>1. n \in Nat /\ i \in 1..n + 1 /\ DOMAIN tracks = 1..n
  OBVIOUS
<1>2. /\ DOMAIN new = 1..n + 1
      /\ \A k \in 1..n + 1 : new[k] = IF k < i THEN tracks[k] ELSE IF k = i THEN e ELSE tracks[k - 1]
  BY PutBack
<1> HIDE DEF new, n
<1>3. \A k \in 1..n + 1 : k # i => from(k) \in 1..n /\ new[k] = tracks[from(k)]
  BY <1>1, <1>2
<1>4. \A k, l \in 1..n + 1 : k # i /\ l # i /\ from(k) = from(l) => k = l
  BY <1>1
<1> HIDE DEF from
<1>5. ASSUME NEW k \in 1..n + 1, NEW l \in 1..n + 1, new[k].id = new[l].id PROVE k = l
  <2>1. new[i] = e /\ i \in 1..n + 1
    BY <1>1, <1>2
  <2>2. \A m \in 1..n + 1 : m # i => new[m].id # e.id
    BY <1>1, <1>3
  <2>3. CASE k = i \/ l = i
    BY <1>5, <2>1, <2>2, <2>3
  <2>4. CASE k # i /\ l # i
    <3>1. tracks[from(k)].id = tracks[from(l)].id /\ from(k) \in 1..n /\ from(l) \in 1..n
      BY <1>3, <1>5, <2>4
    <3>2. from(k) = from(l)
      BY <1>1, <3>1 DEF TracksApart
    <3>3. QED
      BY <1>4, <2>4, <3>2
  <2>5. QED
    BY <2>3, <2>4
<1>6. QED
  BY <1>2, <1>5 DEF TracksApart, new

LEMMA ApartWithout ==
  ASSUME NEW tracks \in Seq(AnyTrack), TracksApart(tracks), NEW i \in 1..Len(tracks)
  PROVE  TracksApart(RemoveAt(tracks, i))
<1> DEFINE new == RemoveAt(tracks, i)
           n == Len(tracks)
           from(k) == IF k < i THEN k ELSE k + 1
<1>1. n \in Nat /\ i \in 1..n /\ DOMAIN tracks = 1..n
  OBVIOUS
<1>2. /\ DOMAIN new = 1..n - 1
      /\ \A k \in 1..n - 1 : new[k] = IF k < i THEN tracks[k] ELSE tracks[k + 1]
  <2>1. /\ RemoveAt(tracks, i) \in Seq(AnyTrack) /\ Len(RemoveAt(tracks, i)) = Len(tracks) - 1
        /\ \A k \in 1..Len(tracks) - 1 : RemoveAt(tracks, i)[k] = IF k < i THEN tracks[k] ELSE tracks[k + 1]
    BY TakenOut
  <2>2. QED
    BY <2>1
<1> HIDE DEF new, n
<1>3. \A k \in 1..n - 1 : from(k) \in 1..n /\ new[k] = tracks[from(k)]
  BY <1>1, <1>2
<1>4. \A k, l \in 1..n - 1 : from(k) = from(l) => k = l
  BY <1>1
<1> HIDE DEF from
<1>5. ASSUME NEW k \in 1..n - 1, NEW l \in 1..n - 1, new[k].id = new[l].id PROVE k = l
  <2>1. tracks[from(k)].id = tracks[from(l)].id /\ from(k) \in 1..n /\ from(l) \in 1..n
    BY <1>3, <1>5
  <2>2. QED
    BY <1>1, <1>4, <2>1 DEF TracksApart
<1>6. QED
  BY <1>2, <1>5 DEF TracksApart, new

LEMMA AddTrackGoesBack ==
  ASSUME NEW p \in Documents, NEW c \in TrackAdds, NEW r, r = ApplyAddTrack(c, p)
  PROVE  Honours(c, p, r, RevertAddTrack(r.cmd, r.project))
<1> DEFINE ofKind == {t \in DOMAIN p.tracks : p.tracks[t].kind = c.kind}
           slot == IF ofKind = {} THEN Len(p.tracks) + 1 ELSE Max(ofKind) + 1
           track == [id |-> c.track, kind |-> c.kind, muted |-> FALSE, clips |-> <<>>]
           new == InsertAt(p.tracks, slot, track)
           x == [held |-> TRUE]
           d == [c EXCEPT !.cap = x]
           q == [p EXCEPT !.tracks = new]
<1>1. c \in EditCommands /\ c.track \in Data /\ c.kind \in Data
  BY DEF EditCommands, TrackAdds
<1>2. r = Refused(p, c) \/ (c.track \notin TrackIds(p) /\ r = Done(q, d))
  BY DEF ApplyAddTrack
<1>3. CASE r = Refused(p, c)
  BY <1>1, <1>3, RefusalHonours
<1>4. CASE c.track \notin TrackIds(p) /\ r = Done(q, d)
  <2>1. /\ p.tracks \in Seq(AnyTrack) /\ TracksApart(p.tracks) /\ Len(p.tracks) \in Nat
        /\ DOMAIN p.tracks = 1..Len(p.tracks)
    BY DocumentFields
  <2>2. ofKind \in SUBSET (1..Len(p.tracks))
    BY <2>1
  <2> HIDE DEF ofKind
  <2>3. ofKind # {} => Max(ofKind) \in 1..Len(p.tracks)
    BY <2>1, <2>2, LargestIn
  <2>4. slot \in 1..Len(p.tracks) + 1
    BY <2>1, <2>3
  <2> HIDE DEF slot
  <2>5. track \in AnyTrack /\ track.id = c.track
    <3>1. <<>> \in Seq(AnyClip)
      OBVIOUS
    <3>2. QED
      BY <1>1, <3>1 DEF AnyTrack
  <2> HIDE DEF track
  <2>6. \A t \in DOMAIN p.tracks : p.tracks[t].id # track.id
    BY <1>4, <2>5 DEF TrackIds
  <2>7. /\ new \in Seq(AnyTrack) /\ TracksApart(new) /\ RemoveAt(new, slot) = p.tracks
        /\ slot \in DOMAIN new /\ new[slot] = track
    <3>1. new \in Seq(AnyTrack) /\ Len(new) = Len(p.tracks) + 1 /\ new[slot] = track
      <4>1. /\ InsertAt(p.tracks, slot, track) \in Seq(AnyTrack)
            /\ Len(InsertAt(p.tracks, slot, track)) = Len(p.tracks) + 1
            /\ \A k \in 1..Len(p.tracks) + 1 : InsertAt(p.tracks, slot, track)[k] =
                 IF k < slot THEN p.tracks[k] ELSE IF k = slot THEN track ELSE p.tracks[k - 1]
        <5> DEFINE tracks == p.tracks
        <5>1. tracks \in Seq(AnyTrack) /\ slot \in 1..Len(tracks) + 1 /\ track \in AnyTrack
          BY <2>1, <2>4, <2>5
        <5> HIDE DEF tracks
        <5>2. /\ InsertAt(tracks, slot, track) \in Seq(AnyTrack)
              /\ Len(InsertAt(tracks, slot, track)) = Len(tracks) + 1
              /\ \A k \in 1..Len(tracks) + 1 : InsertAt(tracks, slot, track)[k] =
                   IF k < slot THEN tracks[k] ELSE IF k = slot THEN track ELSE tracks[k - 1]
          BY <5>1, PutBack
        <5>3. QED
          BY <5>2 DEF tracks
      <4>2. ~(slot < slot)
        BY <2>1, <2>4
      <4>3. QED
        BY <2>4, <4>1, <4>2
    <3>2. TracksApart(new) /\ RemoveAt(new, slot) = p.tracks
      BY <2>1, <2>4, <2>5, <2>6, ApartWith, BackAndOut
    <3>3. slot \in DOMAIN new
      BY <2>1, <2>4, <3>1
    <3>4. QED
      BY <3>1, <3>2, <3>3
  <2>8. x \in Captures /\ x.held
    BY DEF Captures
  <2>9. d.track = c.track
    BY DEF TrackAdds
  <2> HIDE DEF new, x, d, q
  <2>10. /\ d.cap = x /\ LeavesDocument(c, Done(q, d)) /\ q.tracks = new /\ q \in Documents
         /\ Back(c, p, Done([q EXCEPT !.tracks = p.tracks], d))
    BY <1>1, <2>7, <2>8, TracksReset DEF q, d
  <2>11. FindTrack(q, c.track) = slot /\ c.track \in TrackIds(q)
    BY <2>5, <2>7, <2>10, TrackFound
  <2>12. RevertAddTrack(d, q) = Done([q EXCEPT !.tracks = p.tracks], d)
    BY <2>7, <2>8, <2>9, <2>10, <2>11 DEF RevertAddTrack
  <2>13. r.cmd = d /\ r.project = q
    BY <1>4 DEF Done
  <2>14. QED
    BY <1>4, <2>10, <2>12, <2>13 DEF Honours
<1>5. QED
  BY <1>2, <1>3, <1>4

LEMMA RemoveTrackGoesBack ==
  ASSUME NEW p \in Documents, NEW c \in TrackRemoves, NEW r, r = ApplyRemoveTrack(c, p)
  PROVE  Honours(c, p, r, RevertRemoveTrack(r.cmd, r.project))
<1> DEFINE t == FindTrack(p, c.track)
           new == RemoveAt(p.tracks, t)
           old == p.tracks[t]
           x == [held |-> TRUE, index |-> t, removed |-> old]
           d == [c EXCEPT !.cap = x]
           q == [p EXCEPT !.tracks = new]
<1>1. c \in EditCommands
  BY DEF EditCommands
<1>2. r = Refused(p, c) \/ (c.track \in TrackIds(p) /\ r = Done(q, d))
  BY DEF ApplyRemoveTrack
<1>3. CASE r = Refused(p, c)
  BY <1>1, <1>3, RefusalHonours
<1>4. CASE c.track \in TrackIds(p) /\ r = Done(q, d)
  <2>1. t \in DOMAIN p.tracks
    BY <1>4, TrackFound
  <2> HIDE DEF t
  <2>2. /\ p.tracks \in Seq(AnyTrack) /\ TracksApart(p.tracks) /\ Len(p.tracks) \in Nat
        /\ t \in 1..Len(p.tracks) /\ old \in AnyTrack /\ t \in Nat
    <3>1. /\ p.tracks \in Seq(AnyTrack) /\ TracksApart(p.tracks) /\ Len(p.tracks) \in Nat
          /\ t \in 1..Len(p.tracks) /\ old \in AnyTrack
      BY <2>1, DocumentFields
    <3>2. QED
      BY <3>1
  <2>3. new \in Seq(AnyTrack) /\ Len(new) = Len(p.tracks) - 1 /\ TracksApart(new) /\ InsertAt(new, t, old) = p.tracks
    BY <2>2, TakenOut, OutAndBack, ApartWithout
  <2>4. x \in Captures /\ x.held /\ x.index = t /\ x.removed = old
    BY <2>2 DEF Captures
  <2> HIDE DEF new, old, x, d, q
  <2>5. /\ d.cap = x /\ LeavesDocument(c, Done(q, d)) /\ q.tracks = new /\ q \in Documents
        /\ Back(c, p, Done([q EXCEPT !.tracks = p.tracks], d))
    <3>1. new \in Seq(AnyTrack) /\ TracksApart(new) /\ x \in Captures
      BY <2>3, <2>4
    <3>2. QED
      BY <1>1, <3>1, TracksReset DEF q, d
  <2>6. Min({t, Len(new) + 1}) = t
    <3>1. t \in Int /\ Len(new) + 1 \in Int /\ t <= Len(new) + 1
      BY <2>2, <2>3
    <3>2. QED
      BY <3>1, SmallerOf
  <2>7. RevertRemoveTrack(d, q) = Done([q EXCEPT !.tracks = p.tracks], d)
    <3>1. RevertRemoveTrack(d, q) =
            Done([q EXCEPT !.tracks = InsertAt(q.tracks, Min({d.cap.index, Len(q.tracks) + 1}), d.cap.removed)], d)
      BY <2>4, <2>5 DEF RevertRemoveTrack
    <3>2. QED
      BY <2>3, <2>4, <2>5, <2>6, <3>1
  <2>8. r.cmd = d /\ r.project = q
    BY <1>4 DEF Done
  <2>9. QED
    BY <1>4, <2>5, <2>7, <2>8 DEF Honours
<1>5. QED
  BY <1>2, <1>3, <1>4

LEMMA MuteGoesBack ==
  ASSUME NEW p \in Documents, NEW c \in Mutes, NEW r, r = ApplySetTrackMuted(c, p)
  PROVE  Honours(c, p, r, RevertSetTrackMuted(r.cmd, r.project))
<1> DEFINE t == FindTrack(p, c.track)
           old == p.tracks[t]
           track == [old EXCEPT !.muted = c.muted]
           new == [p.tracks EXCEPT ![t] = track]
           x == [held |-> TRUE, muted |-> old.muted]
           d == [c EXCEPT !.cap = x]
           q == [p EXCEPT !.tracks = new]
<1>1. c \in EditCommands /\ c.muted \in BOOLEAN
  BY DEF EditCommands, Mutes
<1>2. r = Refused(p, c) \/ (c.track \in TrackIds(p) /\ r = Done(q, d))
  BY DEF ApplySetTrackMuted
<1>3. CASE r = Refused(p, c)
  BY <1>1, <1>3, RefusalHonours
<1>4. CASE c.track \in TrackIds(p) /\ r = Done(q, d)
  <2>1. t \in DOMAIN p.tracks
    BY <1>4, TrackFound
  <2>2. d.track = c.track
    BY DEF Mutes
  <2> HIDE DEF t
  <2>3. /\ p.tracks \in Seq(AnyTrack) /\ TracksApart(p.tracks) /\ old \in AnyTrack
        /\ DOMAIN p.tracks = 1..Len(p.tracks) /\ Len(p.tracks) \in Nat
    BY <2>1, DocumentFields
  <2>4. track \in AnyTrack /\ track.id = old.id /\ [track EXCEPT !.muted = old.muted] = old /\ old.muted \in BOOLEAN
    <3> HIDE DEF old
    <3>1. QED
      BY <1>1, <2>3 DEF AnyTrack
  <2>5. x \in Captures /\ x.held /\ x.muted = old.muted
    BY <2>4 DEF Captures
  <2> HIDE DEF track
  <2>6. /\ new \in Seq(AnyTrack) /\ DOMAIN new = DOMAIN p.tracks /\ new[t] = track
        /\ \A s \in DOMAIN p.tracks : new[s].id = p.tracks[s].id
    BY <2>1, <2>3, <2>4
  <2>7. TracksApart(new)
    BY <2>3, <2>6 DEF TracksApart
  <2>8. \A more : [new EXCEPT ![t] = more] = [p.tracks EXCEPT ![t] = more]
    BY <2>1, <2>3
  <2>9. [p.tracks EXCEPT ![t] = old] = p.tracks
    BY <2>1, <2>3
  <2> HIDE DEF new, old, x, d, q
  <2>10. /\ d.cap = x /\ LeavesDocument(c, Done(q, d)) /\ q.tracks = new /\ q \in Documents
         /\ Back(c, p, Done([q EXCEPT !.tracks = p.tracks], d))
    BY <1>1, <2>5, <2>6, <2>7, TracksReset DEF q, d
  <2>11. FindTrack(q, c.track) = t /\ c.track \in TrackIds(q)
    <3>1. c.track = q.tracks[t].id /\ t \in DOMAIN q.tracks
      <4>1. p.tracks[t].id = c.track
        BY <1>4, TrackFound DEF t
      <4>2. QED
        BY <2>1, <2>6, <2>10, <4>1
    <3>2. QED
      BY <2>10, <3>1, TrackFound
  <2>12. RevertSetTrackMuted(d, q) = Done([q EXCEPT !.tracks = p.tracks], d)
    <3>1. RevertSetTrackMuted(d, q) =
            Done([q EXCEPT !.tracks = [q.tracks EXCEPT ![t] = [q.tracks[t] EXCEPT !.muted = x.muted]]], d)
      BY <2>2, <2>5, <2>10, <2>11 DEF RevertSetTrackMuted
    <3>2. [q.tracks[t] EXCEPT !.muted = x.muted] = old
      BY <2>4, <2>5, <2>6, <2>10
    <3>3. QED
      BY <2>8, <2>9, <2>10, <3>1, <3>2
  <2>13. r.cmd = d /\ r.project = q
    BY <1>4 DEF Done
  <2>14. QED
    BY <1>4, <2>10, <2>12, <2>13 DEF Honours
<1>5. QED
  BY <1>2, <1>3, <1>4

-----------------------------------------------------------------------------------
(* Markers and settings.                                                           *)
LEMMA MarkersReset ==
  ASSUME NEW p \in Documents, NEW c \in EditCommands, NEW markers \in Seq(AnyMarker),
         NEW x \in Captures, NEW q, q = [p EXCEPT !.markers = markers], NEW d, d = [c EXCEPT !.cap = x]
  PROVE  /\ d.cap = x /\ LeavesDocument(c, Done(q, d)) /\ q.markers = markers /\ q \in Documents
         /\ Back(c, p, Done([q EXCEPT !.markers = p.markers], d))
<1>1. q \in Documents /\ q.markers = markers /\ [q EXCEPT !.markers = p.markers] = p
  BY DEF Documents, AnyDocument
<1>2. d.cap = x
  BY CommandParts
<1>3. LeavesDocument(c, Done(q, d)) /\ Back(c, p, Done(p, d))
  BY <1>1 DEF LeavesDocument, Back, Done
<1>4. QED
  BY <1>1, <1>2, <1>3

LEMMA SettingsReset ==
  ASSUME NEW p \in Documents, NEW c \in EditCommands, NEW settings \in AnySettings,
         NEW x \in Captures, NEW q, q = [p EXCEPT !.settings = settings], NEW d, d = [c EXCEPT !.cap = x]
  PROVE  /\ d.cap = x /\ LeavesDocument(c, Done(q, d)) /\ q.settings = settings /\ q \in Documents
         /\ Back(c, p, Done([q EXCEPT !.settings = p.settings], d))
<1> HIDE DEF AnySettings
<1>1. q \in Documents /\ q.settings = settings /\ [q EXCEPT !.settings = p.settings] = p
  BY DEF Documents, AnyDocument
<1>2. d.cap = x
  BY CommandParts
<1>3. LeavesDocument(c, Done(q, d)) /\ Back(c, p, Done(p, d))
  BY <1>1 DEF LeavesDocument, Back, Done
<1>4. QED
  BY <1>1, <1>2, <1>3

LEMMA LeastIn ==
  ASSUME NEW n \in Nat
  PROVE  \A t \in SUBSET (1..n) : t # {} => Min(t) \in t /\ \A k \in t : Min(t) <= k
<1>1. SUFFICES ASSUME NEW t \in SUBSET (1..n), t # {} PROVE Min(t) \in t /\ \A k \in t : Min(t) <= k
  OBVIOUS
<1>2. \E m \in t : \A k \in t : m <= k
  <2>1. t \in SUBSET Nat
    OBVIOUS
  <2>2. QED
    BY <1>1, <2>1, LeastOf
<1>3. QED
  BY <1>2 DEF Min

LEMMA AddMarkerGoesBack ==
  ASSUME NEW p \in Documents, NEW c \in MarkerAdds, NEW r, r = ApplyAddMarker(c, p)
  PROVE  Honours(c, p, r, RevertAddMarker(r.cmd, r.project))
<1> DEFINE markers == p.markers
           n == Len(markers)
           new == Append(markers, c.marker)
           hits == {i \in DOMAIN new : new[i].id = c.marker.id}
           x == [held |-> TRUE]
           d == [c EXCEPT !.cap = x]
           q == [p EXCEPT !.markers = new]
<1>1. c \in EditCommands /\ c.marker \in AnyMarker
  BY DEF EditCommands, MarkerAdds
<1>2. r = Refused(p, c) \/ (~(\E i \in DOMAIN markers : markers[i].id = c.marker.id) /\ r = Done(q, d))
  BY DEF ApplyAddMarker
<1>3. CASE r = Refused(p, c)
  BY <1>1, <1>3, RefusalHonours
<1>4. CASE ~(\E i \in DOMAIN markers : markers[i].id = c.marker.id) /\ r = Done(q, d)
  <2>1. markers \in Seq(AnyMarker)
    BY DEF Documents, AnyDocument
  <2> HIDE DEF markers
  <2>2. n \in Nat /\ DOMAIN markers = 1..n /\ new \in Seq(AnyMarker) /\ DOMAIN new = 1..n + 1
    BY <1>1, <2>1
  <2>3. new[n + 1] = c.marker /\ \A i \in 1..n : new[i] = markers[i]
    BY <1>1, <2>1
  <2> HIDE DEF new, n
  <2>4. hits = {n + 1}
    BY <1>4, <2>2, <2>3
  <2> HIDE DEF hits
  <2>5. Min(hits) = n + 1 /\ hits # {}
    <3>1. {n + 1} \in SUBSET (1..n + 1) /\ {n + 1} # {} /\ n + 1 \in Nat
      BY <2>2
    <3>2. Min({n + 1}) \in {n + 1}
      BY <3>1, LeastIn
    <3>3. QED
      BY <2>4, <3>2
  <2>6. RemoveAt(new, n + 1) = markers
    <3>1. Len(new) = n + 1
      BY <2>1, <2>2 DEF new, n
    <3>2. n + 1 \in 1..Len(new) /\ Len(new) - 1 = n
      BY <2>2, <3>1
    <3> DEFINE out == RemoveAt(new, n + 1)
    <3>3. /\ RemoveAt(new, n + 1) \in Seq(AnyMarker) /\ Len(RemoveAt(new, n + 1)) = Len(new) - 1
          /\ \A k \in 1..Len(new) - 1 : RemoveAt(new, n + 1)[k] = IF k < n + 1 THEN new[k] ELSE new[k + 1]
      BY <2>2, <3>2, TakenOut
    <3>4. /\ out \in Seq(AnyMarker) /\ Len(out) = n
          /\ \A k \in 1..n : out[k] = IF k < n + 1 THEN new[k] ELSE new[k + 1]
      BY <3>2, <3>3
    <3> HIDE DEF out
    <3>5. \A k \in 1..n : out[k] = markers[k]
      BY <2>2, <2>3, <3>4
    <3>6. out = markers
      BY <2>1, <3>4, <3>5, SeqEqual DEF n
    <3>7. QED
      BY <3>6 DEF out
  <2>7. x \in Captures /\ x.held
    BY DEF Captures
  <2>8. d.marker = c.marker
    BY DEF MarkerAdds
  <2> HIDE DEF x, d, q
  <2>9. /\ d.cap = x /\ LeavesDocument(c, Done(q, d)) /\ q.markers = new /\ q \in Documents
        /\ Back(c, p, Done([q EXCEPT !.markers = p.markers], d))
    BY <1>1, <2>2, <2>7, MarkersReset DEF q, d
  <2>10. RevertAddMarker(d, q) = Done([q EXCEPT !.markers = p.markers], d)
    <3>1. RevertAddMarker(d, q) = Done([q EXCEPT !.markers = RemoveAt(new, Min(hits))], d)
      BY <2>5, <2>7, <2>8, <2>9 DEF RevertAddMarker, hits
    <3>2. QED
      BY <2>5, <2>6, <3>1 DEF markers
  <2>11. r.cmd = d /\ r.project = q
    BY <1>4 DEF Done
  <2>12. QED
    BY <1>4, <2>9, <2>10, <2>11 DEF Honours
<1>5. QED
  BY <1>2, <1>3, <1>4

LEMMA RemoveMarkerGoesBack ==
  ASSUME NEW p \in Documents, NEW c \in MarkerRemoves, NEW r, r = ApplyRemoveMarker(c, p)
  PROVE  Honours(c, p, r, RevertRemoveMarker(r.cmd, r.project))
<1> DEFINE markers == p.markers
           n == Len(markers)
           hits == {k \in DOMAIN markers : markers[k].id = c.marker}
           i == Min(hits)
           new == RemoveAt(markers, i)
           old == markers[i]
           x == [held |-> TRUE, index |-> i, marker |-> old]
           d == [c EXCEPT !.cap = x]
           q == [p EXCEPT !.markers = new]
<1>1. c \in EditCommands
  BY DEF EditCommands
<1>2. r = Refused(p, c) \/ (hits # {} /\ r = Done(q, d))
  BY DEF ApplyRemoveMarker
<1>3. CASE r = Refused(p, c)
  BY <1>1, <1>3, RefusalHonours
<1>4. CASE hits # {} /\ r = Done(q, d)
  <2>1. markers \in Seq(AnyMarker)
    BY DEF Documents, AnyDocument
  <2> HIDE DEF markers
  <2>2. n \in Nat /\ hits \in SUBSET (1..n)
    BY <2>1
  <2> HIDE DEF hits
  <2>3. i \in 1..n /\ i \in Nat
    BY <1>4, <2>2, LeastIn
  <2> HIDE DEF i
  <2>4. old \in AnyMarker
    BY <2>1, <2>3
  <2>5. new \in Seq(AnyMarker) /\ Len(new) = n - 1 /\ InsertAt(new, i, old) = markers
    BY <2>1, <2>3, TakenOut, OutAndBack
  <2>6. x \in Captures /\ x.held /\ x.index = i /\ x.marker = old
    <3> HIDE DEF old
    <3>1. QED
      BY <2>3, <2>4 DEF Captures
  <2> HIDE DEF new, old, x, d, q, n
  <2>7. /\ d.cap = x /\ LeavesDocument(c, Done(q, d)) /\ q.markers = new /\ q \in Documents
        /\ Back(c, p, Done([q EXCEPT !.markers = p.markers], d))
    BY <1>1, <2>5, <2>6, MarkersReset DEF q, d
  <2>8. Min({i, Len(new) + 1}) = i
    <3>1. i \in Int /\ Len(new) + 1 \in Int /\ i <= Len(new) + 1
      BY <2>2, <2>3, <2>5
    <3>2. QED
      BY <3>1, SmallerOf
  <2>9. RevertRemoveMarker(d, q) = Done([q EXCEPT !.markers = p.markers], d)
    <3>1. RevertRemoveMarker(d, q) =
            Done([q EXCEPT !.markers = InsertAt(q.markers, Min({d.cap.index, Len(q.markers) + 1}), d.cap.marker)], d)
      BY <2>6, <2>7 DEF RevertRemoveMarker
    <3>2. QED
      BY <2>5, <2>6, <2>7, <2>8, <3>1 DEF markers
  <2>10. r.cmd = d /\ r.project = q
    BY <1>4 DEF Done
  <2>11. QED
    BY <1>4, <2>7, <2>9, <2>10 DEF Honours
<1>5. QED
  BY <1>2, <1>3, <1>4

LEMMA SettingsGoBack ==
  ASSUME NEW p \in Documents, NEW c \in SettingsCalls, NEW r, r = ApplySetProjectSettings(c, p)
  PROVE  Honours(c, p, r, RevertSetProjectSettings(r.cmd, r.project))
<1> DEFINE old == p.settings
           new == [n \in DOMAIN old |-> IF n \in DOMAIN c.set THEN c.set[n] ELSE old[n]]
           x == [held |-> TRUE, settings |-> old]
           d == [c EXCEPT !.cap = x]
           q == [p EXCEPT !.settings = new]
<1>1. c \in EditCommands
  BY DEF EditCommands
<1>2. r = Refused(p, c) \/ r = Done(q, d)
  BY DEF ApplySetProjectSettings
<1>3. CASE r = Refused(p, c)
  BY <1>1, <1>3, RefusalHonours
<1>4. CASE r = Done(q, d)
  <2>1. old \in AnySettings
    BY DEF Documents, AnyDocument
  <2>2. new \in AnySettings
    <3> DEFINE names == {"fps", "canvas", "colorSpace"}
               set == c.set
    <3>1. PICK some \in SUBSET names : set \in [some -> Data]
      BY DEF SettingsCalls
    <3> HIDE DEF set
    <3>2. old \in [names -> Data]
      BY <2>1 DEF AnySettings
    <3> HIDE DEF names, old
    <3>3. DOMAIN set = some /\ DOMAIN old = names
      BY <3>1, <3>2
    <3>4. [n \in DOMAIN old |-> IF n \in DOMAIN set THEN set[n] ELSE old[n]] \in [names -> Data]
      BY <3>1, <3>2, <3>3
    <3>6. QED
      BY <3>4 DEF set, names, AnySettings
  <2>3. x \in Captures /\ x.held /\ x.settings = old
    BY <2>1 DEF Captures
  <2> HIDE DEF new, old, x, d, q
  <2>4. /\ d.cap = x /\ LeavesDocument(c, Done(q, d)) /\ q.settings = new /\ q \in Documents
        /\ Back(c, p, Done([q EXCEPT !.settings = p.settings], d))
    BY <1>1, <2>2, <2>3, SettingsReset DEF q, d
  <2>5. RevertSetProjectSettings(d, q) = Done([q EXCEPT !.settings = p.settings], d)
    BY <2>3, <2>4 DEF RevertSetProjectSettings, old
  <2>6. r.cmd = d /\ r.project = q
    BY <1>4 DEF Done
  <2>7. QED
    BY <1>4, <2>4, <2>5, <2>6 DEF Honours
<1>5. QED
  BY <1>2, <1>3, <1>4

LEMMA RetimeGoesBack ==
  ASSUME NEW p \in Documents, NEW c \in Retimes, NEW r, r = ApplyRetimeCaptionCue(c, p)
  PROVE  Honours(c, p, r, RevertTrack(r.cmd, r.project))
<1> DEFINE at == FindClip(p, c.clip)
           clips == p.tracks[at[1]].clips
           cue == clips[at[2]]
           start == IF c.start = {} THEN cue.start ELSE Max(c.start)
           length == IF c.length = {} THEN Duration(cue) ELSE Max(c.length)
           timedCue == [cue EXCEPT !.in = 0, !.out = length]
           timed == [clips EXCEPT ![at[2]] = timedCue]
           new == MovedClip(timed, at[2], start)
<1>1. c \in EditCommands /\ c.start \in Given(Int) /\ c.length \in Given(Int)
  BY DEF EditCommands, Retimes
<1>2. r = Refused(p, c) \/ (ClipPlaces(p, c.clip) # {} /\ r = RewriteTrack(c, p, at[1], new))
  BY DEF ApplyRetimeCaptionCue, ClipAt
<1>3. CASE r = Refused(p, c)
  BY <1>1, <1>3, RefusalHonours
<1>4. CASE ClipPlaces(p, c.clip) # {} /\ r = RewriteTrack(c, p, at[1], new)
  <2>1. at[1] \in DOMAIN p.tracks /\ at[2] \in DOMAIN clips
    BY <1>4, ClipFound, Places
  <2> HIDE DEF at
  <2>2. clips \in Seq(AnyClip)
    BY <2>1, DocumentFields
  <2> HIDE DEF clips
  <2>3. cue \in AnyClip
    BY <2>1, <2>2
  <2> HIDE DEF cue
  <2>4. Duration(cue) \in Int /\ cue.start \in Int
    BY <2>3, Lasting
  <2>5. \A S \in Given(Int) : S # {} => Max(S) \in Int
    <3>1. \A m \in Int : Max({m}) = m
      BY DEF Max
    <3>2. QED
      BY <3>1 DEF Given
  <2>6. start \in Int /\ length \in Int
    BY <1>1, <2>4, <2>5
  <2> HIDE DEF start, length
  <2>7. timedCue \in AnyClip
    <3> DEFINE zero == 0
    <3>1. zero \in Int
      OBVIOUS
    <3> HIDE DEF zero
    <3>2. [cue EXCEPT !.in = zero, !.out = length] \in AnyClip
      BY <2>3, <2>6, <3>1 DEF AnyClip
    <3>3. QED
      BY <3>2 DEF zero
  <2> HIDE DEF timedCue
  <2>8. timed \in Seq(AnyClip) /\ at[2] \in DOMAIN timed
    BY <2>1, <2>2, <2>7
  <2> HIDE DEF timed
  <2>9. new \in Seq(AnyClip)
    BY <2>6, <2>8, MovedTyped
  <2>10. QED
    BY <1>1, <1>4, <2>1, <2>9, RewriteGoesBack
<1>5. QED
  BY <1>2, <1>3, <1>4

-----------------------------------------------------------------------------------
(* Edits of several clips. *)

MemberWalk(h, targets, group, n) ==
  /\ h[0] = targets /\ FoldLeft(AddMember, targets, group) = h[n] /\ \A k \in 0..n : h[k] \in Seq(Data)
  /\ \A k \in 0..n - 1 : h[k + 1] = AddMember(h[k], group[k + 1])

LEMMA MemberSteps ==
  ASSUME NEW targets \in Seq(Data), NEW group \in Seq(Data)
  PROVE  Len(group) \in Nat /\ \E h : MemberWalk(h, targets, group, Len(group))
<1> DEFINE s == group
           n == Len(s)
           none == targets
           X == Seq(Data)
           T == Data
           Takes(q, y) == AddMember(q, y)
           F == [q \in X \X (1..n) |-> Takes(q[1], s[q[2]])]
           P(g) == g = [t \in SUBSET DOMAIN s |->
                          IF t = {} THEN none ELSE Takes(g[t \ {Max(t)}], s[Max(t)])]
           it == CHOOSE g : P(g)
<1>1. FoldLeft(AddMember, targets, group) = it[DOMAIN s]
  BY DEF FoldLeft, MapThenFoldSet
<1>2. s \in Seq(T)
  OBVIOUS
<1>3. \A q \in X, y \in T : Takes(q, y) \in X
  BY DEF AddMember
<1>4. none \in X
  OBVIOUS
<1> HIDE DEF X, Takes, s, none, T
<1>5. n \in Nat /\ DOMAIN s = 1..n /\ \A i \in 1..n : s[i] \in T
  BY <1>2
<1> HIDE DEF n
<1>6. F \in [X \X (1..n) -> X] /\ \A q \in X, i \in 1..n : F[q, i] = Takes(q, s[i])
  BY <1>3, <1>5
<1> HIDE DEF F
<1>7. PICK g \in [SUBSET (1..n) -> X] : TakesLast(g, n, none, F)
  BY <1>4, <1>5, <1>6, LeftFoldExists
<1>8. \A t \in SUBSET (1..n) : t # {} => Max(t) \in 1..n /\ Max(t) \in t
  BY <1>5, LargestIn
<1>9. g = [t \in SUBSET (1..n) |-> IF t = {} THEN none ELSE Takes(g[t \ {Max(t)}], s[Max(t)])]
  <2>1. \A t \in SUBSET (1..n) : t # {} => F[g[t \ {Max(t)}], Max(t)] = Takes(g[t \ {Max(t)}], s[Max(t)])
    BY <1>6, <1>8
  <2>2. QED
    BY <1>7, <2>1 DEF TakesLast
<1>10. P(g)
  BY <1>5, <1>9
<1>11. P(it)
  <2> HIDE DEF P
  <2>1. QED
    BY <1>10
<1>12. it[{}] = none /\ \A t \in SUBSET (1..n) : t # {} => it[t] = Takes(it[t \ {Max(t)}], s[Max(t)])
  BY <1>5, <1>11
<1> HIDE DEF it, P
<1>13. \A t \in SUBSET (1..n) : t # {} /\ it[t \ {Max(t)}] \in X => it[t] = F[it[t \ {Max(t)}], Max(t)]
  BY <1>6, <1>8, <1>12
<1>14. PICK h : Climbing(h, n, X, none, F) /\ h[n] = it[1..n]
  <2>1. Recurring(it, n, X, none, F)
    BY <1>12, <1>13 DEF Recurring
  <2>2. Climbs(it, n, X, none, F)
    BY <1>4, <1>5, <1>6, <2>1, FoldClimbs
  <2>3. QED
    BY <2>2 DEF Climbs
<1>15. \A k \in 0..n - 1 : h[k + 1] = Takes(h[k], s[k + 1])
  <2>1. \A k \in 0..n - 1 : k \in 0..n /\ k + 1 \in 1..n
    BY <1>5
  <2>2. QED
    BY <1>6, <1>14, <2>1 DEF Climbing
<1>16. MemberWalk(h, targets, group, n)
  BY <1>1, <1>5, <1>14, <1>15 DEF Takes, s, none, X, MemberWalk, Climbing
<1>17. QED
  BY <1>5, <1>16 DEF n, s

LEMMA GroupAdded ==
  ASSUME NEW targets \in Seq(Data), NEW group \in Seq(Data), NEW id
  PROVE  AddGroup(targets, group, id) \in Seq(Data)
<1>1. FoldLeft(AddMember, targets, group) \in Seq(Data)
  <2>1. PICK h : MemberWalk(h, targets, group, Len(group))
    BY MemberSteps
  <2>2. Len(group) \in 0..Len(group)
    OBVIOUS
  <2>3. QED
    BY <2>1, <2>2 DEF MemberWalk
<1>2. QED
  BY <1>1 DEF AddGroup

GroupWalk(h, p, id, n) ==
  /\ h[0] = <<id>> /\ RippleTargets(p, id) = h[n] /\ \A k \in 0..n : h[k] \in Seq(Data)
  /\ \A k \in 0..n - 1 : h[k + 1] = AddGroup(h[k], p.groups[k + 1], id)

LEMMA GroupSteps ==
  ASSUME NEW p \in Documents, NEW id \in Data
  PROVE  Len(p.groups) \in Nat /\ \E h : GroupWalk(h, p, id, Len(p.groups))
<1> DEFINE s == p.groups
           n == Len(s)
           none == <<id>>
           X == Seq(Data)
           T == Seq(Data)
           Takes(q, y) == AddGroup(q, y, id)
           F == [q \in X \X (1..n) |-> Takes(q[1], s[q[2]])]
           P(g) == g = [t \in SUBSET DOMAIN s |->
                          IF t = {} THEN none ELSE Takes(g[t \ {Max(t)}], s[Max(t)])]
           it == CHOOSE g : P(g)
<1>1. RippleTargets(p, id) = it[DOMAIN s]
  BY DEF RippleTargets, FoldLeft, MapThenFoldSet
<1>2. s \in Seq(T)
  BY DEF Documents, AnyDocument
<1>3. \A q \in X, y \in T : Takes(q, y) \in X
  BY GroupAdded
<1>4. none \in X
  OBVIOUS
<1> HIDE DEF X, Takes, s, none, T
<1>5. n \in Nat /\ DOMAIN s = 1..n /\ \A i \in 1..n : s[i] \in T
  BY <1>2
<1> HIDE DEF n
<1>6. F \in [X \X (1..n) -> X] /\ \A q \in X, i \in 1..n : F[q, i] = Takes(q, s[i])
  BY <1>3, <1>5
<1> HIDE DEF F
<1>7. PICK g \in [SUBSET (1..n) -> X] : TakesLast(g, n, none, F)
  BY <1>4, <1>5, <1>6, LeftFoldExists
<1>8. \A t \in SUBSET (1..n) : t # {} => Max(t) \in 1..n /\ Max(t) \in t
  BY <1>5, LargestIn
<1>9. g = [t \in SUBSET (1..n) |-> IF t = {} THEN none ELSE Takes(g[t \ {Max(t)}], s[Max(t)])]
  <2>1. \A t \in SUBSET (1..n) : t # {} => F[g[t \ {Max(t)}], Max(t)] = Takes(g[t \ {Max(t)}], s[Max(t)])
    BY <1>6, <1>8
  <2>2. QED
    BY <1>7, <2>1 DEF TakesLast
<1>10. P(g)
  BY <1>5, <1>9
<1>11. P(it)
  <2> HIDE DEF P
  <2>1. QED
    BY <1>10
<1>12. it[{}] = none /\ \A t \in SUBSET (1..n) : t # {} => it[t] = Takes(it[t \ {Max(t)}], s[Max(t)])
  BY <1>5, <1>11
<1> HIDE DEF it, P
<1>13. \A t \in SUBSET (1..n) : t # {} /\ it[t \ {Max(t)}] \in X => it[t] = F[it[t \ {Max(t)}], Max(t)]
  BY <1>6, <1>8, <1>12
<1>14. PICK h : Climbing(h, n, X, none, F) /\ h[n] = it[1..n]
  <2>1. Recurring(it, n, X, none, F)
    BY <1>12, <1>13 DEF Recurring
  <2>2. Climbs(it, n, X, none, F)
    BY <1>4, <1>5, <1>6, <2>1, FoldClimbs
  <2>3. QED
    BY <2>2 DEF Climbs
<1>15. \A k \in 0..n - 1 : h[k + 1] = Takes(h[k], s[k + 1])
  <2>1. \A k \in 0..n - 1 : k \in 0..n /\ k + 1 \in 1..n
    BY <1>5
  <2>2. QED
    BY <1>6, <1>14, <2>1 DEF Climbing
<1>16. GroupWalk(h, p, id, n)
  BY <1>1, <1>5, <1>14, <1>15 DEF Takes, s, none, X, GroupWalk, Climbing
<1>17. QED
  BY <1>5, <1>16 DEF n, s

LEMMA TargetsTyped ==
  ASSUME NEW p \in Documents, NEW id \in Data
  PROVE  RippleTargets(p, id) \in Seq(Data)
<1>1. Len(p.groups) \in Nat
  BY GroupSteps
<1>2. PICK h : GroupWalk(h, p, id, Len(p.groups))
  BY GroupSteps
<1>3. Len(p.groups) \in 0..Len(p.groups)
  BY <1>1
<1>4. QED
  BY <1>2, <1>3 DEF GroupWalk

(* The documents that differ from p in their tracks.                               *)
Retracked(p) == {d \in Documents : [d EXCEPT !.tracks = p.tracks] = p}

LEMMA ClipsRetracked ==
  ASSUME NEW p \in Documents, NEW d \in Retracked(p), NEW t \in DOMAIN d.tracks, NEW clips \in Seq(AnyClip)
  PROVE  SetClips(d, t, clips) \in Retracked(p)
<1>1. d \in Documents /\ [d EXCEPT !.tracks = p.tracks] = p
  BY DEF Retracked
<1>2. SetClips(d, t, clips) \in Documents
  BY <1>1, ClipsSet
<1>3. [SetClips(d, t, clips) EXCEPT !.tracks = p.tracks] = [d EXCEPT !.tracks = p.tracks]
  <2> DEFINE new == [d.tracks EXCEPT ![t] = [d.tracks[t] EXCEPT !.clips = clips]]
  <2>1. SetClips(d, t, clips) = [d EXCEPT !.tracks = new]
    BY DEF SetClips
  <2> HIDE DEF new
  <2>2. [[d EXCEPT !.tracks = new] EXCEPT !.tracks = p.tracks] = [d EXCEPT !.tracks = p.tracks]
    BY <1>1 DEF Documents, AnyDocument
  <2>3. QED
    BY <2>1, <2>2
<1>4. QED
  BY <1>1, <1>2, <1>3 DEF Retracked

Rippled(p) == [ok : BOOLEAN, project : Retracked(p)]

LEMMA OneRippled ==
  ASSUME NEW p \in Documents, NEW d \in Retracked(p), NEW id, NEW edge, NEW delta \in Int
  PROVE  RippleOne(d, id, edge, delta) \in Rippled(p)
<1> DEFINE at == FindClip(d, id)
           old == d.tracks[at[1]].clips
           clip == old[at[2]]
           trimmed == IF edge = "end" THEN [clip EXCEPT !.out = @ + delta]
                      ELSE [clip EXCEPT !.in = @ + delta, !.start = @ + delta]
           carry == IF edge = "end" THEN delta ELSE 0
           new == ReplaceAt(old, at[2], trimmed)
           clips == ShiftFrom(new, at[2] + 1, carry)
           legal == IF edge = "end"
                    THEN trimmed.out >= clip.in + Frame /\ trimmed.out <= SourceLength
                    ELSE trimmed.in >= 0 /\ trimmed.in <= clip.out - Frame
           ok == /\ legal /\ TrackOrdered(clips) /\ \A i \in DOMAIN clips : clips[i].start >= 0
<1>1. d \in Documents
  BY DEF Retracked
<1>2. CASE ClipPlaces(d, id) = {}
  <2>1. RippleOne(d, id, edge, delta) = [ok |-> FALSE, project |-> d]
    BY <1>2 DEF RippleOne
  <2>2. QED
    BY <2>1 DEF Rippled
<1>3. CASE ClipPlaces(d, id) # {}
  <2>1. at[1] \in DOMAIN d.tracks /\ at[2] \in DOMAIN old /\ at[2] \in Nat
    BY <1>1, <1>3, ClipFound, Places
  <2>2. RippleOne(d, id, edge, delta) = [ok |-> ok, project |-> SetClips(d, at[1], clips)]
    BY <1>3 DEF RippleOne, ClipAt
  <2>8. ok \in BOOLEAN
    OBVIOUS
  <2> HIDE DEF ok
  <2> HIDE DEF at
  <2>3. old \in Seq(AnyClip)
    BY <1>1, <2>1, DocumentFields
  <2> HIDE DEF old
  <2>4. clip \in AnyClip
    BY <2>1, <2>3
  <2> HIDE DEF clip
  <2>5. trimmed \in AnyClip
    <3>1. clip.out \in Int /\ clip.in \in Int /\ clip.start \in Int
      BY <2>4 DEF AnyClip
    <3>2. clip.out + delta \in Int /\ clip.in + delta \in Int /\ clip.start + delta \in Int
      BY <3>1
    <3>3. [clip EXCEPT !.out = clip.out + delta] \in AnyClip
      BY <2>4, <3>2 DEF AnyClip
    <3>4. [clip EXCEPT !.in = clip.in + delta, !.start = clip.start + delta] \in AnyClip
      BY <2>4, <3>2 DEF AnyClip
    <3>5. QED
      BY <3>3, <3>4
  <2> HIDE DEF trimmed
  <2>6. new \in Seq(AnyClip) /\ at[2] + 1 \in Int /\ carry \in Int
    BY <2>1, <2>3, <2>5 DEF ReplaceAt
  <2> HIDE DEF new, carry
  <2>7. clips \in Seq(AnyClip)
    BY <2>6, Shifted
  <2> HIDE DEF clips
  <2>9. SetClips(d, at[1], clips) \in Retracked(p)
    BY <2>1, <2>7, ClipsRetracked
  <2>10. QED
    BY <2>2, <2>8, <2>9 DEF Rippled
<1>4. QED
  BY <1>2, <1>3

RippledAll(p, id, edge, delta) ==
  FoldLeft(LAMBDA acc, one : IF acc.ok THEN RippleOne(acc.project, one, edge, delta) ELSE acc,
           [ok |-> TRUE, project |-> p], RippleTargets(p, id))

RippleWalk(h, p, id, edge, delta, n) ==
  /\ h[0] = [ok |-> TRUE, project |-> p] /\ RippledAll(p, id, edge, delta) = h[n] /\ \A k \in 0..n : h[k] \in Rippled(p)
  /\ \A k \in 0..n - 1 : h[k + 1] = IF h[k].ok THEN RippleOne(h[k].project, (RippleTargets(p, id))[k + 1], edge, delta) ELSE h[k]

LEMMA RippleSteps ==
  ASSUME NEW p \in Documents, NEW id \in Data, NEW edge, NEW delta \in Int
  PROVE  Len(RippleTargets(p, id)) \in Nat /\ \E h : RippleWalk(h, p, id, edge, delta, Len(RippleTargets(p, id)))
<1> DEFINE s == RippleTargets(p, id)
           n == Len(s)
           none == [ok |-> TRUE, project |-> p]
           X == Rippled(p)
           T == Data
           Takes(q, y) == IF q.ok THEN RippleOne(q.project, y, edge, delta) ELSE q
           F == [q \in X \X (1..n) |-> Takes(q[1], s[q[2]])]
           P(g) == g = [t \in SUBSET DOMAIN s |->
                          IF t = {} THEN none ELSE Takes(g[t \ {Max(t)}], s[Max(t)])]
           it == CHOOSE g : P(g)
<1>1. RippledAll(p, id, edge, delta) = it[DOMAIN s]
  BY DEF RippledAll, FoldLeft, MapThenFoldSet
<1>2. s \in Seq(T)
  BY TargetsTyped
<1>3. \A q \in X, y \in T : Takes(q, y) \in X
  <2>1. \A q \in Rippled(p) : q.project \in Retracked(p)
    BY DEF Rippled
  <2>2. QED
    BY <2>1, OneRippled
<1>4. none \in X
  <2>1. p \in Retracked(p)
    <3>1. [p EXCEPT !.tracks = p.tracks] = p
      BY DEF Documents, AnyDocument
    <3>2. QED
      BY <3>1 DEF Retracked
  <2>2. QED
    BY <2>1 DEF Rippled
<1> HIDE DEF X, Takes, s, none, T
<1>5. n \in Nat /\ DOMAIN s = 1..n /\ \A i \in 1..n : s[i] \in T
  BY <1>2
<1> HIDE DEF n
<1>6. F \in [X \X (1..n) -> X] /\ \A q \in X, i \in 1..n : F[q, i] = Takes(q, s[i])
  BY <1>3, <1>5
<1> HIDE DEF F
<1>7. PICK g \in [SUBSET (1..n) -> X] : TakesLast(g, n, none, F)
  BY <1>4, <1>5, <1>6, LeftFoldExists
<1>8. \A t \in SUBSET (1..n) : t # {} => Max(t) \in 1..n /\ Max(t) \in t
  BY <1>5, LargestIn
<1>9. g = [t \in SUBSET (1..n) |-> IF t = {} THEN none ELSE Takes(g[t \ {Max(t)}], s[Max(t)])]
  <2>1. \A t \in SUBSET (1..n) : t # {} => F[g[t \ {Max(t)}], Max(t)] = Takes(g[t \ {Max(t)}], s[Max(t)])
    BY <1>6, <1>8
  <2>2. QED
    BY <1>7, <2>1 DEF TakesLast
<1>10. P(g)
  BY <1>5, <1>9
<1>11. P(it)
  <2> HIDE DEF P
  <2>1. QED
    BY <1>10
<1>12. it[{}] = none /\ \A t \in SUBSET (1..n) : t # {} => it[t] = Takes(it[t \ {Max(t)}], s[Max(t)])
  BY <1>5, <1>11
<1> HIDE DEF it, P
<1>13. \A t \in SUBSET (1..n) : t # {} /\ it[t \ {Max(t)}] \in X => it[t] = F[it[t \ {Max(t)}], Max(t)]
  BY <1>6, <1>8, <1>12
<1>14. PICK h : Climbing(h, n, X, none, F) /\ h[n] = it[1..n]
  <2>1. Recurring(it, n, X, none, F)
    BY <1>12, <1>13 DEF Recurring
  <2>2. Climbs(it, n, X, none, F)
    BY <1>4, <1>5, <1>6, <2>1, FoldClimbs
  <2>3. QED
    BY <2>2 DEF Climbs
<1>15. \A k \in 0..n - 1 : h[k + 1] = Takes(h[k], s[k + 1])
  <2>1. \A k \in 0..n - 1 : k \in 0..n /\ k + 1 \in 1..n
    BY <1>5
  <2>2. QED
    BY <1>6, <1>14, <2>1 DEF Climbing
<1>16. RippleWalk(h, p, id, edge, delta, n)
  BY <1>1, <1>5, <1>14, <1>15 DEF Takes, s, none, X, RippleWalk, Climbing
<1>17. QED
  BY <1>5, <1>16 DEF n, s

LEMMA ClampTyped ==
  ASSUME NEW value \in Int, NEW lo \in Int, NEW hi \in Int
  PROVE  Clamp(value, lo, hi) \in Int
BY DEF Clamp

LEMMA RippleTrimGoesBack ==
  ASSUME NEW p \in Documents, NEW c \in Trims, NEW r, r = ApplyRippleTrim(c, p)
  PROVE  Honours(c, p, r, RevertRippleTrim(r.cmd, r.project))
<1> DEFINE clip == ClipAt(p, FindClip(p, c.clip))
           delta == RippleDelta(clip, c.edge, c.boundary)
           all == RippledAll(p, c.clip, c.edge, delta)
           x == [held |-> TRUE, tracks |-> p.tracks]
           d == [c EXCEPT !.cap = x]
           q == all.project
<1>1. c \in EditCommands /\ c.clip \in Data /\ c.boundary \in Int
  BY DEF EditCommands, Trims
<1>2. x \in Captures /\ x.held /\ x.tracks = p.tracks
  <2>1. p.tracks \in Seq(AnyTrack)
    BY DocumentFields
  <2>2. QED
    BY <2>1 DEF Captures
<1>3. \/ r = Refused(p, c) \/ r = Refused(p, d) \/ (ClipPlaces(p, c.clip) # {} /\ r = Done(q, d))
  BY DEF ApplyRippleTrim, RippledAll, FoldLeft, MapThenFoldSet
<1>4. CASE r = Refused(p, c) \/ r = Refused(p, d)
  BY <1>1, <1>2, <1>4, RefusalHonours
<1>5. CASE ClipPlaces(p, c.clip) # {} /\ r = Done(q, d)
  <2>1. clip \in AnyClip
    BY <1>5, TheClip
  <2> HIDE DEF clip
  <2>2. delta \in Int
    <3>1. clip.in \in Int /\ clip.out \in Int
      BY <2>1 DEF AnyClip
    <3> DEFINE lo == clip.in + Frame
               hi == clip.out - Frame
               zero == 0
    <3>2. lo \in Int /\ hi \in Int /\ zero \in Int /\ SourceLength \in Int
      BY <3>1, FrameAssumption
    <3> HIDE DEF lo, hi, zero
    <3>3. Clamp(c.boundary, lo, SourceLength) \in Int /\ Clamp(c.boundary, zero, hi) \in Int
      BY <1>1, <3>2, ClampTyped
    <3>4. delta = IF c.edge = "end" THEN Clamp(c.boundary, lo, SourceLength) - clip.out
                  ELSE Clamp(c.boundary, zero, hi) - clip.in
      BY DEF RippleDelta, lo, hi, zero
    <3> HIDE DEF delta
    <3>5. QED
      BY <3>1, <3>3, <3>4
  <2> HIDE DEF delta
  <2>3. all \in Rippled(p)
    <3>1. Len(RippleTargets(p, c.clip)) \in Nat
      BY <1>1, <2>2, RippleSteps
    <3>2. PICK h : RippleWalk(h, p, c.clip, c.edge, delta, Len(RippleTargets(p, c.clip)))
      BY <1>1, <2>2, RippleSteps
    <3>3. Len(RippleTargets(p, c.clip)) \in 0..Len(RippleTargets(p, c.clip))
      BY <3>1
    <3>4. QED
      BY <3>2, <3>3 DEF RippleWalk
  <2> HIDE DEF all
  <2>4. q \in Documents /\ [q EXCEPT !.tracks = p.tracks] = p
    BY <2>3 DEF Rippled, Retracked
  <2> HIDE DEF q
  <2>5. d.cap = x
    BY <1>1, CommandParts
  <2> HIDE DEF x
  <2>6. RevertRippleTrim(d, q) = Done(p, d)
    BY <1>2, <2>4, <2>5 DEF RevertRippleTrim
  <2>7. r.cmd = d /\ r.project = q
    BY <1>5 DEF Done
  <2>8. LeavesDocument(c, r)
    BY <1>2, <2>4, <2>7 DEF LeavesDocument
  <2>9. Back(c, p, Done(p, d))
    BY <1>2 DEF Back, Done
  <2>10. QED
    BY <2>6, <2>7, <2>8, <2>9 DEF Honours
<1>6. QED
  BY <1>3, <1>4, <1>5

-----------------------------------------------------------------------------------
(* Adding a clip, and its asset. *)

WithoutWalk(h, S, s, gone, n) ==
  /\ h[0] = <<>> /\ Without(s, gone) = h[n] /\ \A k \in 0..n : h[k] \in Seq(S)
  /\ \A k \in 0..n - 1 : h[k + 1] = IF s[k + 1] \in gone THEN h[k] ELSE Append(h[k], s[k + 1])

LEMMA WithoutSteps ==
  ASSUME NEW S, NEW s \in Seq(S), NEW gone
  PROVE  Len(s) \in Nat /\ \E h : WithoutWalk(h, S, s, gone, Len(s))
<1> DEFINE n == Len(s)
           none == <<>>
           X == Seq(S)
           T == S
           Takes(q, y) == IF y \in gone THEN q ELSE Append(q, y)
           F == [q \in X \X (1..n) |-> Takes(q[1], s[q[2]])]
           P(g) == g = [t \in SUBSET DOMAIN s |->
                          IF t = {} THEN none ELSE Takes(g[t \ {Max(t)}], s[Max(t)])]
           it == CHOOSE g : P(g)
<1>1. Without(s, gone) = it[DOMAIN s]
  BY DEF Without, FoldLeft, MapThenFoldSet
<1>2. s \in Seq(T)
  OBVIOUS
<1>3. \A q \in X, y \in T : Takes(q, y) \in X
  OBVIOUS
<1>4. none \in X
  OBVIOUS
<1> HIDE DEF X, Takes, none, T
<1>5. n \in Nat /\ DOMAIN s = 1..n /\ \A i \in 1..n : s[i] \in T
  BY <1>2
<1> HIDE DEF n
<1>6. F \in [X \X (1..n) -> X] /\ \A q \in X, i \in 1..n : F[q, i] = Takes(q, s[i])
  BY <1>3, <1>5
<1> HIDE DEF F
<1>7. PICK g \in [SUBSET (1..n) -> X] : TakesLast(g, n, none, F)
  BY <1>4, <1>5, <1>6, LeftFoldExists
<1>8. \A t \in SUBSET (1..n) : t # {} => Max(t) \in 1..n /\ Max(t) \in t
  BY <1>5, LargestIn
<1>9. g = [t \in SUBSET (1..n) |-> IF t = {} THEN none ELSE Takes(g[t \ {Max(t)}], s[Max(t)])]
  <2>1. \A t \in SUBSET (1..n) : t # {} => F[g[t \ {Max(t)}], Max(t)] = Takes(g[t \ {Max(t)}], s[Max(t)])
    BY <1>6, <1>8
  <2>2. QED
    BY <1>7, <2>1 DEF TakesLast
<1>10. P(g)
  BY <1>5, <1>9
<1>11. P(it)
  <2> HIDE DEF P
  <2>1. QED
    BY <1>10
<1>12. it[{}] = none /\ \A t \in SUBSET (1..n) : t # {} => it[t] = Takes(it[t \ {Max(t)}], s[Max(t)])
  BY <1>5, <1>11
<1> HIDE DEF it, P
<1>13. \A t \in SUBSET (1..n) : t # {} /\ it[t \ {Max(t)}] \in X => it[t] = F[it[t \ {Max(t)}], Max(t)]
  BY <1>6, <1>8, <1>12
<1>14. PICK h : Climbing(h, n, X, none, F) /\ h[n] = it[1..n]
  <2>1. Recurring(it, n, X, none, F)
    BY <1>12, <1>13 DEF Recurring
  <2>2. Climbs(it, n, X, none, F)
    BY <1>4, <1>5, <1>6, <2>1, FoldClimbs
  <2>3. QED
    BY <2>2 DEF Climbs
<1>15. \A k \in 0..n - 1 : h[k + 1] = Takes(h[k], s[k + 1])
  <2>1. \A k \in 0..n - 1 : k \in 0..n /\ k + 1 \in 1..n
    BY <1>5
  <2>2. QED
    BY <1>6, <1>14, <2>1 DEF Climbing
<1>16. WithoutWalk(h, S, s, gone, n)
  BY <1>1, <1>5, <1>14, <1>15 DEF Takes, none, X, WithoutWalk, Climbing
<1>17. QED
  BY <1>5, <1>16 DEF n

LEMMA WithoutOne ==
  ASSUME NEW S, NEW s \in Seq(S), NEW u \in Seq(S), NEW i \in 1..Len(s) + 1, NEW e, WithOne(u, s, i, e),
         NEW gone, e \in gone, \A k \in DOMAIN s : s[k] \notin gone
  PROVE  Without(u, gone) = s
<1> DEFINE n == Len(s)
           m == n + 1
<1>1. n \in Nat /\ m \in Nat /\ m = n + 1 /\ i \in 1..m /\ Len(u) = m /\ DOMAIN s = 1..n
      /\ \A k \in 1..m : u[k] = IF k < i THEN s[k] ELSE IF k = i THEN e ELSE s[k - 1]
  BY DEF WithOne
<1>2. PICK h : WithoutWalk(h, S, u, gone, m)
  BY <1>1, WithoutSteps
<1>3. /\ h[0] = <<>> /\ Without(u, gone) = h[m] /\ \A k \in 0..m : h[k] \in Seq(S)
      /\ \A k \in 0..m - 1 : h[k + 1] = IF u[k + 1] \in gone THEN h[k] ELSE Append(h[k], u[k + 1])
  BY <1>2 DEF WithoutWalk
<1> DEFINE size(k) == IF k < i THEN k ELSE k - 1
           D(k) == Len(h[k]) = size(k) /\ \A j \in 1..size(k) : h[k][j] = s[j]
           T == {k \in 0..m : D(k)}
<1> HIDE DEF n, m
<1>4. 0 \in T
  <2>1. size(0) = 0 /\ Len(h[0]) = 0 /\ 1..0 = {} /\ 0 \in 0..m
    BY <1>1, <1>3
  <2>2. QED
    BY <2>1
<1>5. ASSUME NEW k \in 0..m - 1, k \in T PROVE k + 1 \in T
  <2>1. k + 1 \in 1..m /\ k \in 0..m /\ k + 1 \in 0..m /\ k \in Nat /\ i \in Nat
    BY <1>1
  <2>2. h[k] \in Seq(S) /\ Len(h[k]) = size(k) /\ \A j \in 1..size(k) : h[k][j] = s[j]
    BY <1>3, <1>5, <2>1
  <2>3. CASE k + 1 = i
    <3>1. h[k + 1] = h[k] /\ size(k + 1) = size(k)
      BY <1>1, <1>3, <2>1, <2>3
    <3>2. QED
      BY <2>1, <2>2, <3>1
  <2>4. CASE k + 1 # i
    <3> DEFINE l == size(k) + 1
    <3>1. size(k) \in Nat /\ size(k + 1) = l /\ l \in 1..n /\ u[k + 1] = s[l]
      <4>1. CASE k + 1 < i
        <5>1. size(k) = k /\ size(k + 1) = k + 1 /\ l = k + 1 /\ k + 1 \in 1..n
          BY <1>1, <2>1, <4>1
        <5>2. QED
          BY <1>1, <2>1, <4>1, <5>1
      <4>2. CASE ~(k + 1 < i)
        <5>0. k \in 1..n /\ ~(k < i) /\ (k - 1) + 1 = k /\ (k + 1) - 1 = k
          <6>1. n \in Nat /\ i \in 1..n + 1 /\ k \in 0..n
            BY <1>1, <2>1
          <6>2. QED
            BY <6>1, <2>4, <4>2, PastTheGap
        <5>1. size(k) = k - 1 /\ size(k + 1) = k /\ l = k /\ k \in 1..n
          BY <4>2, <5>0
        <5>2. u[k + 1] = s[(k + 1) - 1]
          BY <1>1, <2>1, <2>4, <4>2
        <5>3. QED
          BY <2>1, <5>0, <5>1, <5>2
      <4>3. QED
        BY <4>1, <4>2
    <3> HIDE DEF size
    <3>2. s[l] \in S /\ s[l] \notin gone
      <4> HIDE DEF l
      <4>1. l \in DOMAIN s
        BY <1>1, <3>1
      <4>2. QED
        BY <4>1
    <3>3. h[k + 1] = Append(h[k], s[l])
      BY <1>3, <3>1, <3>2
    <3>4. /\ Len(Append(h[k], s[l])) = size(k) + 1 /\ Append(h[k], s[l])[size(k) + 1] = s[l]
          /\ \A j \in 1..size(k) : Append(h[k], s[l])[j] = h[k][j]
      <4> DEFINE a == h[k]
                 b == s[l]
      <4>1. a \in Seq(S) /\ b \in S /\ Len(a) = size(k)
        BY <2>2, <3>2
      <4> HIDE DEF a, b, l
      <4>2. Len(Append(a, b)) = Len(a) + 1 /\ Append(a, b)[Len(a) + 1] = b /\ \A j \in 1..Len(a) : Append(a, b)[j] = a[j]
        BY <4>1
      <4>3. QED
        BY <4>1, <4>2 DEF a, b
    <3>5. \A j \in 1..l : j \in 1..size(k) \/ j = l
      BY <3>1
    <3>6. D(k + 1)
      BY <2>2, <3>1, <3>3, <3>4, <3>5
    <3>7. QED
      BY <2>1, <3>6
  <2>5. QED
    BY <2>3, <2>4
<1> HIDE DEF T
<1>6. m \in T
  <2>1. 0..m \subseteq T
    BY <1>1, <1>4, <1>5, Climb
  <2>2. QED
    BY <1>1, <2>1
<1>7. Len(h[m]) = n /\ \A j \in 1..n : h[m][j] = s[j]
  <2>1. D(m) /\ size(m) = n
    BY <1>1, <1>6 DEF T
  <2>2. QED
    BY <2>1
<1>8. h[m] \in Seq(S)
  BY <1>1, <1>3
<1>9. h[m] = s
  BY <1>7, <1>8, SeqEqual DEF n
<1>10. QED
  BY <1>3, <1>9

LEMMA ClipPutIn ==
  ASSUME NEW clips \in Seq(AnyClip), NEW clip \in AnyClip
  PROVE  WithClip(clips, clip) \in Seq(AnyClip) /\ \E i \in 1..Len(clips) + 1 : WithOne(WithClip(clips, clip), clips, i, clip)
<1> DEFINE later == {i \in DOMAIN clips : clips[i].start > clip.start}
           n == Len(clips)
           place == IF later = {} THEN n + 1 ELSE Min(later)
<1>1. n \in Nat /\ later \in SUBSET (1..n)
  OBVIOUS
<1>2. WithClip(clips, clip) = InsertAt(clips, place, clip)
  BY DEF WithClip
<1> HIDE DEF later, n
<1>a. later # {} => Min(later) \in 1..n
  BY <1>1, LeastIn
<1>3. place \in 1..n + 1
  BY <1>1, <1>a
<1> HIDE DEF place
<1>4. InsertAt(clips, place, clip) \in Seq(AnyClip) /\ WithOne(InsertAt(clips, place, clip), clips, place, clip)
  <2>1. place \in 1..Len(clips) + 1
    BY <1>3 DEF n
  <2>2. clips \in Seq(AnyClip) /\ clip \in AnyClip
    OBVIOUS
  <2>3. QED
    BY <2>1, <2>2, InsertedOne
<1>5. place \in 1..Len(clips) + 1
  BY <1>3 DEF n
<1>6. QED
  BY <1>2, <1>4, <1>5

LEMMA AssetsSet ==
  ASSUME NEW p \in Documents, NEW assets \in Seq(Data)
  PROVE  /\ [p EXCEPT !.assets = assets] \in Documents /\ [p EXCEPT !.assets = assets].tracks = p.tracks
         /\ [p EXCEPT !.assets = assets].assets = assets /\ [[p EXCEPT !.assets = assets] EXCEPT !.assets = p.assets] = p
         /\ [p EXCEPT !.assets = p.assets] = p /\ p.assets \in Seq(Data)
         /\ TrackIds([p EXCEPT !.assets = assets]) = TrackIds(p)
         /\ \A id : FindTrack([p EXCEPT !.assets = assets], id) = FindTrack(p, id)
<1>1. /\ [p EXCEPT !.assets = assets] \in Documents /\ [p EXCEPT !.assets = assets].tracks = p.tracks
      /\ [p EXCEPT !.assets = assets].assets = assets /\ [[p EXCEPT !.assets = assets] EXCEPT !.assets = p.assets] = p
      /\ [p EXCEPT !.assets = p.assets] = p /\ p.assets \in Seq(Data)
  BY DEF Documents, AnyDocument
<1> DEFINE q == [p EXCEPT !.assets = assets]
<1>2. q.tracks = p.tracks
  BY <1>1
<1> HIDE DEF q
<1>3. TrackIds(q) = TrackIds(p) /\ \A id : FindTrack(q, id) = FindTrack(p, id)
  BY <1>2 DEF TrackIds, FindTrack
<1>4. QED
  BY <1>1, <1>3 DEF q

LEMMA AddClipGoesBack ==
  ASSUME NEW p \in Documents, NEW c \in ClipAdds, c.clip.id \notin ClipIds(p), NEW r, r = ApplyAddClip(c, p)
  PROVE  Honours(c, p, r, RevertAddClip(r.cmd, r.project))
<1> DEFINE t == FindTrack(p, c.track)
           clip == c.clip
           asset == clip.asset
           fresh == asset # NoAsset /\ asset \notin ToSet(p.assets)
           assets == IF fresh THEN Append(p.assets, asset) ELSE p.assets
           old == p.tracks[t].clips
           new == WithClip(old, clip)
           x == [held |-> TRUE, assetAdded |-> fresh]
           d == [c EXCEPT !.cap = x]
           stocked == [p EXCEPT !.assets = assets]
           q == SetClips(stocked, t, new)
<1>1. c \in EditCommands /\ clip \in AnyClip /\ asset \in Data
  <2>1. c \in EditCommands /\ clip \in AnyClip
    BY DEF EditCommands, ClipAdds
  <2>2. QED
    BY <2>1 DEF AnyClip
<1>2. r = Refused(p, c) \/ (c.track \in TrackIds(p) /\ r = Done(q, d))
  BY DEF ApplyAddClip
<1>3. CASE r = Refused(p, c)
  BY <1>1, <1>3, RefusalHonours
<1>4. CASE c.track \in TrackIds(p) /\ r = Done(q, d)
  <2>1. t \in DOMAIN p.tracks
    BY <1>4, TrackFound
  <2>2. d.track = c.track /\ d.clip = clip
    BY DEF ClipAdds
  <2>3. fresh \in BOOLEAN
    OBVIOUS
  <2>4. p.assets \in Seq(Data) /\ assets \in Seq(Data)
    <3>1. p.assets \in Seq(Data)
      BY DEF Documents, AnyDocument
    <3> HIDE DEF fresh
    <3>2. QED
      BY <1>1, <3>1
  <2>5. x \in Captures /\ [held |-> TRUE, assetAdded |-> FALSE] \in Captures /\ x.held /\ (x.assetAdded <=> fresh)
        /\ [x EXCEPT !.assetAdded = FALSE] = [held |-> TRUE, assetAdded |-> FALSE]
    <3> DEFINE yes == [held |-> TRUE, assetAdded |-> TRUE]
               no == [held |-> TRUE, assetAdded |-> FALSE]
    <3>1. yes \in [held : {TRUE}, assetAdded : BOOLEAN] /\ no \in [held : {TRUE}, assetAdded : BOOLEAN]
      OBVIOUS
    <3>2. yes \in Captures /\ no \in Captures
      BY <3>1 DEF Captures
    <3>3. [yes EXCEPT !.assetAdded = FALSE] = no /\ [no EXCEPT !.assetAdded = FALSE] = no
      <4>1. \A a, b, e : [[held |-> a, assetAdded |-> b] EXCEPT !.assetAdded = e] = [held |-> a, assetAdded |-> e]
        OBVIOUS
      <4>2. QED
        BY <4>1
    <3>4. yes.held /\ no.held /\ yes.assetAdded /\ ~no.assetAdded
      OBVIOUS
    <3>5. (fresh /\ x = yes) \/ (~fresh /\ x = no)
      <4> HIDE DEF fresh
      <4>1. QED
        BY <2>3
    <3> HIDE DEF fresh, x
    <3>6. no = [held |-> TRUE, assetAdded |-> FALSE]
      OBVIOUS
    <3> HIDE DEF yes, no
    <3>7. x \in Captures /\ no \in Captures /\ x.held /\ (x.assetAdded <=> fresh) /\ [x EXCEPT !.assetAdded = FALSE] = no
      BY <3>2, <3>3, <3>4, <3>5
    <3>8. QED
      BY <3>6, <3>7
  <2>6. \A i \in DOMAIN old : old[i].id # clip.id
    BY <2>1 DEF ClipIds, ToSet
  <2>7. fresh => Without(assets, {asset}) = p.assets
    <3>1. SUFFICES ASSUME fresh PROVE Without(Append(p.assets, asset), {asset}) = p.assets
      OBVIOUS
    <3> DEFINE s == p.assets
               u == Append(s, asset)
    <3>2. s \in Seq(Data) /\ \A k \in DOMAIN s : s[k] \notin {asset}
      BY <2>4, <3>1 DEF ToSet
    <3> HIDE DEF s, asset
    <3>3. u \in Seq(Data) /\ WithOne(u, s, Len(s) + 1, asset) /\ Len(s) + 1 \in 1..Len(s) + 1
      BY <1>1, <3>2 DEF WithOne
    <3> HIDE DEF u
    <3>4. Without(u, {asset}) = s
      BY <3>2, <3>3, WithoutOne
    <3>5. QED
      BY <3>4 DEF u, s
  <2>8. ~fresh => assets = p.assets
    OBVIOUS
  <2> HIDE DEF fresh, assets, t
  <2>9. /\ stocked \in Documents /\ stocked.tracks = p.tracks /\ stocked.assets = assets
        /\ [stocked EXCEPT !.assets = p.assets] = p /\ (assets = p.assets => stocked = p)
        /\ TrackIds(stocked) = TrackIds(p) /\ \A id : FindTrack(stocked, id) = FindTrack(p, id)
    BY <2>4, AssetsSet
  <2> HIDE DEF stocked
  <2>10. old \in Seq(AnyClip)
    BY <2>1, DocumentFields
  <2> HIDE DEF old, clip, asset
  <2>11. new \in Seq(AnyClip)
    BY <1>1, <2>10, ClipPutIn
  <2>12. PICK i \in 1..Len(old) + 1 : WithOne(new, old, i, clip)
    BY <1>1, <2>10, ClipPutIn
  <2> DEFINE gone == {e \in ToSet(new) : e.id = clip.id}
  <2>13. clip \in gone
    <3>1. i \in DOMAIN new /\ new[i] = clip
      <4>1. Len(old) \in Nat /\ ~(i < i) /\ DOMAIN new = 1..Len(new)
        BY <2>10, <2>11
      <4>2. QED
        BY <2>12, <4>1 DEF WithOne
    <3>2. QED
      BY <3>1 DEF ToSet
  <2>14. \A k \in DOMAIN old : old[k] \notin gone
    BY <2>6
  <2> HIDE DEF new, gone
  <2>15. Without(new, gone) = old
    BY <2>10, <2>11, <2>12, <2>13, <2>14, WithoutOne
  <2>16. /\ q \in Documents /\ q.tracks[t].clips = new /\ TrackIds(q) = TrackIds(stocked)
         /\ \A id : FindTrack(q, id) = FindTrack(stocked, id)
         /\ \A more : SetClips(q, t, more) = SetClips(stocked, t, more)
         /\ SetClips(stocked, t, stocked.tracks[t].clips) = stocked
    BY <2>1, <2>9, <2>11, ClipsSet
  <2> HIDE DEF q
  <2>17. SetClips(q, t, old) = stocked
    BY <2>9, <2>16 DEF old
  <2>18. FindTrack(q, d.track) = t /\ d.track \in TrackIds(q)
    BY <1>4, <2>2, <2>9, <2>16 DEF t
  <2>19. d.cap = x /\ [d EXCEPT !.cap.assetAdded = FALSE] = [c EXCEPT !.cap = [held |-> TRUE, assetAdded |-> FALSE]]
    <3>1. d.cap = x /\ \A y : [d EXCEPT !.cap = y] = [c EXCEPT !.cap = y]
      BY <1>1, CommandParts
    <3> HIDE DEF d
    <3>2. [d EXCEPT !.cap.assetAdded = FALSE] = [d EXCEPT !.cap = [x EXCEPT !.assetAdded = FALSE]]
      BY <3>1
    <3>3. QED
      BY <2>5, <3>1, <3>2
  <2> HIDE DEF x
  <2>20. LeavesDocument(c, Done(q, d))
    BY <2>5, <2>16 DEF LeavesDocument, Done
  <2> HIDE DEF d
  <2>21. RevertAddClip(d, q) =
           IF fresh THEN Done([stocked EXCEPT !.assets = Without(assets, {asset})], [d EXCEPT !.cap.assetAdded = FALSE])
           ELSE Done(stocked, d)
    <3>1. Without(q.tracks[t].clips, {e \in ToSet(q.tracks[t].clips) : e.id = d.clip.id}) = old
      BY <2>2, <2>15, <2>16 DEF gone
    <3>2. SetClips(q, t, Without(q.tracks[t].clips, {e \in ToSet(q.tracks[t].clips) : e.id = d.clip.id})) = stocked
      BY <2>17, <3>1
    <3>3. d.clip.asset = asset /\ d.cap.held /\ (d.cap.assetAdded <=> fresh)
      BY <2>2, <2>5, <2>19 DEF asset
    <3>4. QED
      BY <2>9, <2>18, <3>2, <3>3 DEF RevertAddClip
  <2>22. Back(c, p, RevertAddClip(d, q))
    <3>1. CASE fresh
      <4>1. RevertAddClip(d, q) = Done(p, [c EXCEPT !.cap = [held |-> TRUE, assetAdded |-> FALSE]])
        BY <2>7, <2>9, <2>19, <2>21, <3>1
      <4> DEFINE y == [held |-> TRUE, assetAdded |-> FALSE]
      <4>2. y \in Captures /\ RevertAddClip(d, q) = Done(p, [c EXCEPT !.cap = y])
        BY <2>5, <4>1
      <4> HIDE DEF y
      <4>3. QED
        BY <4>2 DEF Back, Done
    <3>2. CASE ~fresh
      <4>1. RevertAddClip(d, q) = Done(p, [c EXCEPT !.cap = x])
        BY <2>8, <2>9, <2>21, <3>2 DEF d
      <4>2. QED
        BY <2>5, <4>1 DEF Back, Done
    <3>3. QED
      BY <3>1, <3>2
  <2>23. r.cmd = d /\ r.project = q
    BY <1>4 DEF Done
  <2>24. QED
    BY <1>4, <2>20, <2>22, <2>23 DEF Honours
<1>5. QED
  BY <1>2, <1>3, <1>4

-----------------------------------------------------------------------------------
(* Reordering a track. *)
Lead(pick, m) == MapThenSumSet(LAMBDA k : Duration(pick[k]), 1..m)

LEMMA LeadTyped ==
  ASSUME NEW m \in Nat, NEW pick, \A k \in 1..m : pick[k] \in AnyClip
  PROVE  Lead(pick, m) \in Int
<1> DEFINE S == 1..m
           first == [t \in SUBSET S |-> CHOOSE x \in t : TRUE]
           dur == [k \in S |-> Duration(pick[k])]
           F == [q \in Int \X S |-> q[1] + dur[q[2]]]
           P(g) == g = [t \in SUBSET S |-> IF t = {} THEN 0
                          ELSE Duration(pick[CHOOSE x \in t : TRUE]) + g[t \ {CHOOSE x \in t : TRUE}]]
           it == CHOOSE g : P(g)
<1>1. Lead(pick, m) = it[S]
  BY DEF Lead, MapThenSumSet, MapThenFoldSet
<1>2. IsFiniteSet(S)
  BY FS_Interval
<1>3. \A k \in S : Duration(pick[k]) \in Int
  BY Lasting
<1>4. \A t \in SUBSET S : first[t] = CHOOSE x \in t : TRUE
  OBVIOUS
<1>5. \A t \in SUBSET S : t # {} => first[t] \in t
  BY <1>4
<1> HIDE DEF S, first
<1>6. F \in [Int \X S -> Int] /\ \A z \in Int, k \in S : F[z, k] = Duration(pick[k]) + z
  <2>1. dur \in [S -> Int] /\ \A k \in S : dur[k] = Duration(pick[k])
    BY <1>3
  <2> HIDE DEF dur
  <2>2. F \in [Int \X S -> Int] /\ \A z \in Int, k \in S : F[z, k] = z + dur[k]
    <3>1. F \in [Int \X S -> Int]
      BY <2>1
    <3>2. \A z \in Int, k \in S : F[z, k] = z + dur[k]
      BY <2>1
    <3>3. QED
      BY <3>1, <3>2
  <2> HIDE DEF F
  <2>3. \A z \in Int, k \in S : z + dur[k] = Duration(pick[k]) + z
    BY <1>3, <2>1
  <2>4. QED
    BY <2>2, <2>3
<1> HIDE DEF F
<1>7. PICK g \in [SUBSET S -> Int] : Folds(g, S, first, 0, F)
  <2>1. F \in [Int \X S -> Int]
    BY <1>6
  <2>2. 0 \in Int
    OBVIOUS
  <2>3. QED
    BY <1>2, <1>5, <2>1, <2>2, FoldExists
<1>8. g = [t \in SUBSET S |-> IF t = {} THEN 0 ELSE Duration(pick[first[t]]) + g[t \ {first[t]}]]
  <2>1. \A t \in SUBSET S : t # {} => F[g[t \ {first[t]}], first[t]] = Duration(pick[first[t]]) + g[t \ {first[t]}]
    <3>1. ASSUME NEW t \in SUBSET S, t # {} PROVE g[t \ {first[t]}] \in Int /\ first[t] \in S
      BY <1>5, <3>1
    <3>2. QED
      BY <1>6, <3>1
  <2>2. QED
    BY <1>7, <2>1 DEF Folds
<1>9. P(g)
  BY <1>4, <1>8
<1>10. P(it)
  <2> HIDE DEF P
  <2>1. QED
    BY <1>9
<1>11. it[{}] = 0 /\ \A t \in SUBSET S : t # {} => it[t] = Duration(pick[first[t]]) + it[t \ {first[t]}]
  BY <1>4, <1>10
<1> HIDE DEF it, P
<1>12. \A t \in SUBSET S : t # {} => \E x \in t : it[t \ {x}] \in Int => it[t] \in Int
  <2>1. ASSUME NEW t \in SUBSET S, t # {} PROVE \E x \in t : it[t \ {x}] \in Int => it[t] \in Int
    <3> DEFINE x == first[t]
               z == it[t \ {x}]
               w == Duration(pick[x])
    <3>1. x \in t /\ w \in Int /\ it[t] = w + z
      BY <1>3, <1>5, <1>11, <2>1
    <3>2. z = it[t \ {x}]
      OBVIOUS
    <3> HIDE DEF x, z, w
    <3>3. z \in Int => it[t] \in Int
      BY <3>1
    <3>4. QED
      BY <3>1, <3>2, <3>3
  <2>2. QED
    BY <2>1
<1>13. \A t \in SUBSET S : it[t] \in Int
  <2>1. it[{}] \in Int
    BY <1>11
  <2>2. QED
    BY <1>2, <1>12, <2>1, FoldTyped
<1>14. QED
  BY <1>1, <1>13

LEMMA EarliestStart ==
  ASSUME NEW clips \in Seq(AnyClip), clips # <<>>
  PROVE  Min({clip.start : clip \in ToSet(clips)}) \in Int
<1> DEFINE n == Len(clips)
           Least(i, k) == \A j \in 1..k : clips[i].start <= clips[j].start
           T == {k \in 0..n : k = 0 \/ \E i \in 1..k : Least(i, k)}
           starts == {clip.start : clip \in ToSet(clips)}
<1>1. n \in Nat /\ n # 0 /\ DOMAIN clips = 1..n /\ \A i \in 1..n : clips[i].start \in Int
  <2>1. n \in Nat /\ n # 0 /\ DOMAIN clips = 1..n /\ \A i \in 1..n : clips[i] \in AnyClip
    BY EmptySeq
  <2>2. QED
    BY <2>1, Lasting
<1> HIDE DEF n
<1>2. 0 \in T
  BY <1>1
<1>3. ASSUME NEW k \in 0..n - 1, k \in T PROVE k + 1 \in T
  <2>1. k + 1 \in 0..n /\ k + 1 \in 1..n /\ k \in Nat /\ \A j \in 1..k + 1 : j \in 1..k \/ j = k + 1
    BY <1>1
  <2>2. CASE k = 0
    <3>1. 1 \in 1..k + 1 /\ Least(1, k + 1)
      BY <1>1, <2>1, <2>2
    <3>2. QED
      BY <2>1, <3>1
  <2>3. CASE k # 0
    <3>1. PICK i \in 1..k : Least(i, k)
      BY <1>3, <2>3
    <3>2. i \in 1..k + 1 /\ k + 1 \in 1..k + 1 /\ i \in 1..n
      BY <1>1, <2>1
    <3>3. CASE clips[i].start <= clips[k + 1].start
      <4>1. Least(i, k + 1)
        BY <2>1, <3>1, <3>3
      <4>2. QED
        BY <2>1, <3>2, <4>1
    <3>4. CASE ~(clips[i].start <= clips[k + 1].start)
      <4>1. ASSUME NEW j \in 1..k + 1 PROVE clips[k + 1].start <= clips[j].start
        <5> DEFINE a == clips[i].start
                   b == clips[k + 1].start
                   d == clips[j].start
        <5>1. j \in 1..n /\ (a <= d \/ j = k + 1)
          BY <1>1, <2>1, <3>1
        <5>2. a \in Int /\ b \in Int /\ d \in Int /\ ~(a <= b) /\ (a <= d \/ d = b)
          BY <1>1, <2>1, <3>2, <3>4, <5>1
        <5> HIDE DEF a, b, d
        <5>3. b <= d
          BY <5>2
        <5>4. QED
          BY <5>3 DEF b, d
      <4>2. QED
        BY <2>1, <3>2, <4>1
    <3>5. QED
      BY <3>3, <3>4
  <2>4. QED
    BY <2>2, <2>3
<1> HIDE DEF T
<1>4. n \in T
  <2>1. 0..n \subseteq T
    BY <1>1, <1>2, <1>3, Climb
  <2>2. QED
    BY <1>1, <2>1
<1>5. PICK i \in 1..n : Least(i, n)
  BY <1>1, <1>4 DEF T
<1>6. clips[i].start \in starts /\ \A y \in starts : clips[i].start <= y
  BY <1>1, <1>5 DEF ToSet
<1>7. \A y \in starts : y \in Int
  BY <1>1 DEF ToSet
<1> HIDE DEF starts
<1>8. Min(starts) \in starts
  BY <1>6 DEF Min
<1>9. QED
  BY <1>7, <1>8 DEF starts

LEMMA RepackedTyped ==
  ASSUME NEW clips \in Seq(AnyClip), clips # <<>>, NEW order \in Seq(Data),
         \A i \in DOMAIN order : {k \in DOMAIN clips : clips[k].id = order[i]} # {}
  PROVE  Repacked(clips, order) \in Seq(AnyClip)
<1> DEFINE n == Len(order)
           pick == [i \in DOMAIN order |-> clips[Min({k \in DOMAIN clips : clips[k].id = order[i]})]]
           base == Min({clip.start : clip \in ToSet(clips)})
           new == [i \in DOMAIN order |-> [pick[i] EXCEPT !.start = base + Lead(pick, i - 1)]]
<1>1. n \in Nat /\ DOMAIN order = 1..n
  OBVIOUS
<1>2. Repacked(clips, order) = new
  BY DEF Repacked, Lead, MapThenSumSet, MapThenFoldSet
<1>3. base \in Int
  BY EarliestStart
<1>4. \A i \in 1..n : pick[i] \in AnyClip
  <2>1. ASSUME NEW i \in 1..n PROVE pick[i] \in AnyClip
    <3> DEFINE hits == {k \in DOMAIN clips : clips[k].id = order[i]}
    <3>1. hits # {} /\ Len(clips) \in Nat /\ hits \in SUBSET (1..Len(clips)) /\ pick[i] = clips[Min(hits)]
      BY <1>1
    <3> HIDE DEF hits, pick
    <3>2. Min(hits) \in 1..Len(clips)
      BY <3>1, LeastIn
    <3>3. QED
      BY <3>1, <3>2
  <2>2. QED
    BY <2>1
<1> HIDE DEF base, pick, n
<1>5. ASSUME NEW i \in 1..n PROVE [pick[i] EXCEPT !.start = base + Lead(pick, i - 1)] \in AnyClip
  <2>1. i - 1 \in Nat /\ \A k \in 1..i - 1 : k \in 1..n
    BY <1>1
  <2>2. Lead(pick, i - 1) \in Int
    BY <1>4, <2>1, LeadTyped
  <2> DEFINE start == base + Lead(pick, i - 1)
             clip == pick[i]
  <2>3. start \in Int /\ clip \in AnyClip
    BY <1>3, <1>4, <2>2
  <2> HIDE DEF start, clip
  <2>4. [clip EXCEPT !.start = start] \in AnyClip
    BY <2>3, Restarted
  <2>5. QED
    BY <2>4 DEF start, clip
<1>6. new \in [1..n -> AnyClip]
  BY <1>1, <1>5
<1> HIDE DEF new
<1>7. QED
  BY <1>1, <1>2, <1>6

LEMMA ReorderGoesBack ==
  ASSUME NEW p \in Documents, NEW c \in Reorders, NEW r, r = ApplyReorderClips(c, p)
  PROVE  Honours(c, p, r, RevertTrack(r.cmd, r.project))
<1> DEFINE t == FindTrack(p, c.track)
           clips == p.tracks[t].clips
           hits(id) == {k \in DOMAIN clips : clips[k].id = id}
           asked(id) == {i \in DOMAIN c.order : c.order[i] = id}
           q == IF clips = <<>> THEN p ELSE SetClips(p, t, Repacked(clips, c.order))
           d == CapturingClips(c, p, t)
           fits == \A id \in ToSet(c.order) : ~(Cardinality(asked(id)) > Cardinality(hits(id)))
<1>1. c \in EditCommands /\ c.order \in Seq(Data)
  BY DEF EditCommands, Reorders
<1>2. r = Refused(p, c) \/ (c.track \in TrackIds(p) /\ fits /\ r = Done(q, d))
  BY DEF ApplyReorderClips
<1>3. CASE r = Refused(p, c)
  BY <1>1, <1>3, RefusalHonours
<1>4. CASE c.track \in TrackIds(p) /\ fits /\ r = Done(q, d)
  <2>1. t \in DOMAIN p.tracks
    BY <1>4, TrackFound
  <2> HIDE DEF t
  <2>2. clips \in Seq(AnyClip)
    BY <2>1, DocumentFields
  <2>3. \A i \in DOMAIN c.order : hits(c.order[i]) # {}
    <3>1. SUFFICES ASSUME NEW i \in DOMAIN c.order, hits(c.order[i]) = {} PROVE FALSE
      OBVIOUS
    <3> DEFINE id == c.order[i]
               n == Len(c.order)
    <3>2. n \in Nat /\ asked(id) \in SUBSET (1..n) /\ i \in asked(id) /\ id \in ToSet(c.order)
      BY <1>1 DEF ToSet
    <3> HIDE DEF id, n
    <3>3. IsFiniteSet(asked(id))
      <4>1. IsFiniteSet(1..n)
        BY <3>2, FS_Interval
      <4>2. QED
        BY <3>2, <4>1, FS_Subset
    <3>4. Cardinality(asked(id)) \in Nat /\ Cardinality(asked(id)) # 0
      <4> DEFINE A == asked(id)
      <4>1. IsFiniteSet(A) /\ A # {}
        BY <3>2, <3>3
      <4> HIDE DEF A
      <4>2. Cardinality(A) \in Nat /\ Cardinality(A) # 0
        BY <4>1, FS_CardinalityType, FS_EmptySet
      <4>3. QED
        BY <4>2 DEF A
    <3>5. hits(id) = {}
      BY <3>1 DEF id
    <3>6. Cardinality(hits(id)) = 0
      BY <3>5, FS_EmptySet
    <3>7. ~(Cardinality(asked(id)) > Cardinality(hits(id)))
      BY <1>4, <3>2
    <3> HIDE DEF asked, hits
    <3>8. QED
      BY <3>4, <3>6, <3>7
  <2> DEFINE new == IF clips = <<>> THEN clips ELSE Repacked(clips, c.order)
  <2>4. new \in Seq(AnyClip)
    <3>1. clips # <<>> => Repacked(clips, c.order) \in Seq(AnyClip)
      BY <1>1, <2>2, <2>3, RepackedTyped
    <3>2. QED
      BY <2>2, <3>1
  <2>5. q = SetClips(p, t, new)
    <3>1. SetClips(p, t, p.tracks[t].clips) = p
      BY <2>1, <2>2, ClipsSet
    <3>2. QED
      BY <3>1
  <2> HIDE DEF new, q, d
  <2>6. Honours(c, p, Done(q, d), RevertTrack(d, q))
    BY <1>1, <2>1, <2>4, <2>5, TrackRestored DEF d
  <2>7. r.cmd = d /\ r.project = q
    BY <1>4 DEF Done
  <2>8. QED
    BY <1>4, <2>6, <2>7
<1>5. QED
  BY <1>2, <1>3, <1>4

-----------------------------------------------------------------------------------
(* Layouts. *)
SameButLooks(q, p) ==
  /\ [q EXCEPT !.tracks = p.tracks] = p /\ DOMAIN q.tracks = DOMAIN p.tracks
  /\ \A t \in DOMAIN p.tracks :
       /\ [q.tracks[t] EXCEPT !.clips = p.tracks[t].clips] = p.tracks[t]
       /\ DOMAIN q.tracks[t].clips = DOMAIN p.tracks[t].clips
       /\ \A i \in DOMAIN p.tracks[t].clips :
            [q.tracks[t].clips[i] EXCEPT !.look = p.tracks[t].clips[i].look] = p.tracks[t].clips[i]

SameLook(q, p, t, i) == q.tracks[t].clips[i].look = p.tracks[t].clips[i].look

LEMMA LooksSettle ==
  ASSUME NEW p \in Documents, NEW q \in Documents, SameButLooks(q, p),
         \A t \in DOMAIN p.tracks : \A i \in DOMAIN p.tracks[t].clips : SameLook(q, p, t, i)
  PROVE  q = p
<1>1. ASSUME NEW t \in DOMAIN p.tracks PROVE q.tracks[t] = p.tracks[t]
  <2> DEFINE a == q.tracks[t].clips
             b == p.tracks[t].clips
  <2>1. t \in DOMAIN q.tracks /\ DOMAIN a = DOMAIN b
    BY DEF SameButLooks
  <2>2. /\ a \in Seq(AnyClip) /\ b \in Seq(AnyClip) /\ Len(a) \in Nat /\ Len(b) \in Nat
        /\ DOMAIN a = 1..Len(a) /\ DOMAIN b = 1..Len(b)
        /\ (\A i \in DOMAIN a : a[i] \in AnyClip) /\ (\A i \in DOMAIN b : b[i] \in AnyClip)
        /\ q.tracks[t] \in AnyTrack /\ p.tracks[t] \in AnyTrack
    BY <2>1, DocumentFields
  <2>3. \A i \in DOMAIN b : [a[i] EXCEPT !.look = b[i].look] = b[i] /\ a[i].look = b[i].look
    BY DEF SameButLooks, SameLook
  <2>4. [q.tracks[t] EXCEPT !.clips = b] = p.tracks[t]
    BY DEF SameButLooks
  <2>5. \A x, y \in AnyClip : [x EXCEPT !.look = y.look] = y /\ x.look = y.look => x = y
    BY DEF AnyClip
  <2> HIDE DEF a, b
  <2>6. \A i \in DOMAIN b : a[i] = b[i]
    BY <2>1, <2>2, <2>3, <2>5
  <2>7. a = b
    <3>1. Len(a) = Len(b)
      <4> DEFINE m == Len(a)
                 n == Len(b)
      <4>1. m \in Nat /\ n \in Nat /\ \A i : i \in 1..m <=> i \in 1..n
        BY <2>1, <2>2
      <4> HIDE DEF m, n
      <4>2. (m > 0 => m \in 1..n) /\ (n > 0 => n \in 1..m)
        BY <4>1
      <4>3. m = n
        BY <4>1, <4>2
      <4>4. QED
        BY <4>3 DEF m, n
    <3>2. QED
      BY <2>2, <2>6, <3>1, SeqEqual
  <2>8. \A x \in AnyTrack : [x EXCEPT !.clips = x.clips] = x
    BY DEF AnyTrack
  <2>9. QED
    BY <2>2, <2>4, <2>7, <2>8 DEF a
<1>2. q.tracks = p.tracks
  <2> DEFINE a == q.tracks
             b == p.tracks
  <2>1. a \in Seq(AnyTrack) /\ b \in Seq(AnyTrack) /\ DOMAIN a = DOMAIN b /\ \A t \in DOMAIN b : a[t] = b[t]
    BY <1>1, DocumentFields DEF SameButLooks
  <2> HIDE DEF a, b
  <2>2. Len(a) = Len(b) /\ DOMAIN b = 1..Len(b)
    BY <2>1
  <2>3. a = b
    BY <2>1, <2>2, SeqEqual
  <2>4. QED
    BY <2>3 DEF a, b
<1>3. [q EXCEPT !.tracks = p.tracks] = p
  BY DEF SameButLooks
<1>4. [q EXCEPT !.tracks = q.tracks] = q
  BY DEF Documents, AnyDocument
<1>5. QED
  BY <1>2, <1>3, <1>4

LEMMA SamePlaces ==
  ASSUME NEW p \in Documents, NEW q \in Documents, SameButLooks(q, p), NEW id
  PROVE  ClipPlaces(q, id) = ClipPlaces(p, id) /\ FindClip(q, id) = FindClip(p, id)
<1>1. \A t \in DOMAIN p.tracks : \A i \in DOMAIN p.tracks[t].clips : q.tracks[t].clips[i].id = p.tracks[t].clips[i].id
  <2>1. ASSUME NEW t \in DOMAIN p.tracks, NEW i \in DOMAIN p.tracks[t].clips
        PROVE  q.tracks[t].clips[i].id = p.tracks[t].clips[i].id
    <3> DEFINE a == q.tracks[t].clips[i]
               b == p.tracks[t].clips[i]
    <3>1. [a EXCEPT !.look = b.look] = b
      BY DEF SameButLooks
    <3>2. a \in AnyClip
      BY DocumentFields DEF SameButLooks
    <3> HIDE DEF a, b
    <3>3. [a EXCEPT !.look = b.look].id = a.id
      BY <3>2 DEF AnyClip
    <3>4. QED
      BY <3>1, <3>3 DEF a, b
  <2>2. QED
    BY <2>1
<1>2. DOMAIN q.tracks = DOMAIN p.tracks /\ \A t \in DOMAIN p.tracks : DOMAIN q.tracks[t].clips = DOMAIN p.tracks[t].clips
  BY DEF SameButLooks
<1>3. \A b : b \in ClipPlaces(q, id) => b \in ClipPlaces(p, id)
  <2>1. SUFFICES ASSUME NEW b \in ClipPlaces(q, id) PROVE b \in ClipPlaces(p, id)
    OBVIOUS
  <2>2. b = <<b[1], b[2]>> /\ b[1] \in DOMAIN q.tracks /\ b[2] \in DOMAIN q.tracks[b[1]].clips
        /\ q.tracks[b[1]].clips[b[2]].id = id
    BY Places DEF ClipAt
  <2>3. QED
    BY <1>1, <1>2, <2>2, Places
<1>4. \A b : b \in ClipPlaces(p, id) => b \in ClipPlaces(q, id)
  <2>1. SUFFICES ASSUME NEW b \in ClipPlaces(p, id) PROVE b \in ClipPlaces(q, id)
    OBVIOUS
  <2>2. b = <<b[1], b[2]>> /\ b[1] \in DOMAIN p.tracks /\ b[2] \in DOMAIN p.tracks[b[1]].clips
        /\ p.tracks[b[1]].clips[b[2]].id = id
    BY Places DEF ClipAt
  <2>3. QED
    BY <1>1, <1>2, <2>2, Places
<1>5. ClipPlaces(q, id) = ClipPlaces(p, id)
  BY <1>3, <1>4
<1>6. QED
  BY <1>5 DEF FindClip

(* One look set: q2 is q with the look l at at.                                    *)
LookSet(q2, q, p, at, l) ==
  /\ q2 \in Documents /\ SameButLooks(q2, p) /\ ClipAt(q2, at).look = l
  /\ \A t \in DOMAIN p.tracks : \A i \in DOMAIN p.tracks[t].clips : <<t, i>> # at => SameLook(q2, q, t, i)

LEMMA OneLook ==
  ASSUME NEW p \in Documents, NEW q \in Documents, SameButLooks(q, p), NEW id, ClipPlaces(p, id) # {}, NEW l \in Data,
         NEW at, at = FindClip(p, id), NEW q2, q2 = SetClip(q, at, [ClipAt(q, at) EXCEPT !.look = l])
  PROVE  LookSet(q2, q, p, at, l)
<1> DEFINE s == at[1]
           k == at[2]
           old == q.tracks[s].clips
           clip == [old[k] EXCEPT !.look = l]
           clips == [old EXCEPT ![k] = clip]
           track == [q.tracks[s] EXCEPT !.clips = clips]
           tracks == [q.tracks EXCEPT ![s] = track]
<1>1. at \in ClipPlaces(q, id) /\ at \in ClipPlaces(p, id)
  BY ClipFound, SamePlaces
<1>2. /\ at = <<s, k>> /\ s \in DOMAIN q.tracks /\ k \in DOMAIN old /\ ClipAt(q, at) = old[k] /\ old[k] \in AnyClip
      /\ old[k].id = id
  BY <1>1, Places DEF ClipAt
<1>3. /\ old \in Seq(AnyClip) /\ q.tracks \in Seq(AnyTrack) /\ TracksApart(q.tracks) /\ q.tracks[s] \in AnyTrack
      /\ DOMAIN old = 1..Len(old) /\ DOMAIN q.tracks = 1..Len(q.tracks)
  BY <1>2, DocumentFields
<1>4. clip \in AnyClip /\ clip.id = id /\ clip.look = l /\ \A y : [clip EXCEPT !.look = y] = [old[k] EXCEPT !.look = y]
  <2> DEFINE e == old[k]
  <2>1. e \in AnyClip /\ e.id = id
    BY <1>2
  <2> HIDE DEF e
  <2>2. /\ [e EXCEPT !.look = l] \in AnyClip /\ [e EXCEPT !.look = l].id = id /\ [e EXCEPT !.look = l].look = l
        /\ \A y : [[e EXCEPT !.look = l] EXCEPT !.look = y] = [e EXCEPT !.look = y]
    BY <2>1 DEF AnyClip
  <2>3. QED
    BY <2>2 DEF e
<1>5. q2 \in Documents
  <2>1. clip \in AnyClip /\ clip.id = id
    BY <1>4
  <2>2. q2 = SetClip(q, at, clip)
    BY <1>2
  <2> HIDE DEF clip
  <2>3. Exchanged(q, at, clip)
    BY <1>1, <2>1, ClipSet
  <2>4. QED
    BY <2>2, <2>3 DEF Exchanged
<1>6. q2 = [q EXCEPT !.tracks = tracks]
  BY <1>2 DEF SetClip
<1> HIDE DEF clip
<1>7. DOMAIN clips = DOMAIN old /\ clips[k] = clip /\ \A i : i # k => clips[i] = old[i]
  BY <1>2
<1> HIDE DEF clips
<1>8. track.clips = clips /\ \A y : [track EXCEPT !.clips = y] = [q.tracks[s] EXCEPT !.clips = y]
  <2> DEFINE e == q.tracks[s]
  <2>1. e \in AnyTrack
    BY <1>3
  <2> HIDE DEF e
  <2>2. [e EXCEPT !.clips = clips].clips = clips /\ \A y : [[e EXCEPT !.clips = clips] EXCEPT !.clips = y] = [e EXCEPT !.clips = y]
    BY <2>1 DEF AnyTrack
  <2>3. QED
    BY <2>2 DEF e
<1> HIDE DEF track
<1>9. DOMAIN tracks = DOMAIN q.tracks /\ tracks[s] = track /\ \A t : t # s => tracks[t] = q.tracks[t]
  BY <1>2
<1> HIDE DEF tracks
<1>10. q2.tracks = tracks /\ \A y : [q2 EXCEPT !.tracks = y] = [q EXCEPT !.tracks = y]
  <2>1. /\ [q EXCEPT !.tracks = tracks].tracks = tracks
        /\ \A y : [[q EXCEPT !.tracks = tracks] EXCEPT !.tracks = y] = [q EXCEPT !.tracks = y]
    BY DEF Documents, AnyDocument
  <2>2. QED
    BY <1>6, <2>1
<1>11. SameButLooks(q2, p)
  <2>1. [q2 EXCEPT !.tracks = p.tracks] = p /\ DOMAIN q2.tracks = DOMAIN p.tracks
    BY <1>9, <1>10 DEF SameButLooks
  <2>2. ASSUME NEW t \in DOMAIN p.tracks, t # s
        PROVE  /\ [q2.tracks[t] EXCEPT !.clips = p.tracks[t].clips] = p.tracks[t]
               /\ DOMAIN q2.tracks[t].clips = DOMAIN p.tracks[t].clips
               /\ \A i \in DOMAIN p.tracks[t].clips :
                    [q2.tracks[t].clips[i] EXCEPT !.look = p.tracks[t].clips[i].look] = p.tracks[t].clips[i]
    <3>1. q2.tracks[t] = q.tracks[t]
      BY <1>9, <1>10, <2>2
    <3>2. /\ [q.tracks[t] EXCEPT !.clips = p.tracks[t].clips] = p.tracks[t]
          /\ DOMAIN q.tracks[t].clips = DOMAIN p.tracks[t].clips
          /\ \A i \in DOMAIN p.tracks[t].clips :
               [q.tracks[t].clips[i] EXCEPT !.look = p.tracks[t].clips[i].look] = p.tracks[t].clips[i]
      BY DEF SameButLooks
    <3>3. QED
      BY <3>1, <3>2
  <2>3. ASSUME s \in DOMAIN p.tracks
        PROVE  /\ [q2.tracks[s] EXCEPT !.clips = p.tracks[s].clips] = p.tracks[s]
               /\ DOMAIN q2.tracks[s].clips = DOMAIN p.tracks[s].clips
               /\ \A i \in DOMAIN p.tracks[s].clips :
                    [q2.tracks[s].clips[i] EXCEPT !.look = p.tracks[s].clips[i].look] = p.tracks[s].clips[i]
    <3>1. /\ [q.tracks[s] EXCEPT !.clips = p.tracks[s].clips] = p.tracks[s]
          /\ DOMAIN old = DOMAIN p.tracks[s].clips
          /\ \A i \in DOMAIN p.tracks[s].clips :
               [old[i] EXCEPT !.look = p.tracks[s].clips[i].look] = p.tracks[s].clips[i]
      BY <2>3 DEF SameButLooks
    <3>2. q2.tracks[s] = track
      BY <1>9, <1>10
    <3>3. [track EXCEPT !.clips = p.tracks[s].clips] = p.tracks[s]
      BY <1>8, <3>1
    <3>4. \A i \in DOMAIN p.tracks[s].clips :
            [clips[i] EXCEPT !.look = p.tracks[s].clips[i].look] = p.tracks[s].clips[i]
      <4>1. ASSUME NEW i \in DOMAIN p.tracks[s].clips
            PROVE  [clips[i] EXCEPT !.look = p.tracks[s].clips[i].look] = p.tracks[s].clips[i]
        <5>1. CASE i = k
          <6> DEFINE y == p.tracks[s].clips[k].look
          <6>1. [old[k] EXCEPT !.look = y] = p.tracks[s].clips[k]
            BY <3>1, <4>1, <5>1
          <6>2. [clip EXCEPT !.look = y] = [old[k] EXCEPT !.look = y]
            BY <1>4
          <6>3. QED
            BY <1>7, <5>1, <6>1, <6>2
        <5>2. CASE i # k
          BY <1>7, <3>1, <5>2
        <5>3. QED
          BY <5>1, <5>2
      <4>2. QED
        BY <4>1
    <3>5. DOMAIN clips = DOMAIN p.tracks[s].clips
      BY <1>7, <3>1
    <3>6. QED
      BY <1>8, <3>2, <3>3, <3>4, <3>5
  <2>4. ASSUME NEW t \in DOMAIN p.tracks
        PROVE  /\ [q2.tracks[t] EXCEPT !.clips = p.tracks[t].clips] = p.tracks[t]
               /\ DOMAIN q2.tracks[t].clips = DOMAIN p.tracks[t].clips
               /\ \A i \in DOMAIN p.tracks[t].clips :
                    [q2.tracks[t].clips[i] EXCEPT !.look = p.tracks[t].clips[i].look] = p.tracks[t].clips[i]
    <3>1. CASE t = s
      BY <2>3, <3>1
    <3>2. CASE t # s
      BY <2>2, <3>2
    <3>3. QED
      BY <3>1, <3>2
  <2>5. QED
    BY <2>1, <2>4 DEF SameButLooks
<1>12. ClipAt(q2, at).look = l
  <2>1. ClipAt(q2, at) = clip
    BY <1>7, <1>8, <1>9, <1>10 DEF ClipAt
  <2>2. QED
    BY <1>4, <2>1
<1>13. ASSUME NEW t \in DOMAIN p.tracks, NEW i \in DOMAIN p.tracks[t].clips, <<t, i>> # at PROVE SameLook(q2, q, t, i)
  <2>1. t # s \/ i # k
    BY <1>2, <1>13
  <2>2. q2.tracks[t].clips[i] = q.tracks[t].clips[i]
    <3>1. CASE t # s
      BY <1>9, <1>10, <3>1
    <3>2. CASE t = s /\ i # k
      BY <1>7, <1>8, <1>9, <1>10, <3>2
    <3>3. QED
      BY <2>1, <3>1, <3>2
  <2>3. QED
    BY <2>2 DEF SameLook
<1>14. QED
  BY <1>5, <1>11, <1>12, <1>13 DEF LookSet

LEMMA LooksAlike ==
  ASSUME NEW p \in Documents
  PROVE  SameButLooks(p, p)
<1>1. [p EXCEPT !.tracks = p.tracks] = p
  BY DEF Documents, AnyDocument
<1>2. ASSUME NEW t \in DOMAIN p.tracks
      PROVE  /\ [p.tracks[t] EXCEPT !.clips = p.tracks[t].clips] = p.tracks[t]
             /\ \A i \in DOMAIN p.tracks[t].clips :
                  [p.tracks[t].clips[i] EXCEPT !.look = p.tracks[t].clips[i].look] = p.tracks[t].clips[i]
  <2> DEFINE track == p.tracks[t]
  <2>1. track \in AnyTrack /\ \A i \in DOMAIN p.tracks[t].clips : p.tracks[t].clips[i] \in AnyClip
    BY DocumentFields
  <2> HIDE DEF track
  <2>2. [track EXCEPT !.clips = track.clips] = track
    BY <2>1 DEF AnyTrack
  <2>3. \A clip \in AnyClip : [clip EXCEPT !.look = clip.look] = clip
    BY DEF AnyClip
  <2>4. QED
    BY <2>1, <2>2, <2>3 DEF track
<1>3. QED
  BY <1>1, <1>2 DEF SameButLooks

(* One placement: the look at at is set, and what was there goes to the end.        *)
Laid(p) == [project : {d \in Documents : SameButLooks(d, p)}, prior : Seq(Placement)]

Named(p) == {pl \in Placement : ClipPlaces(p, pl.clip) # {}}

OnePlaced(r, acc, p, pl) ==
  LET at == FindClip(p, pl.clip) IN
  /\ LookSet(r.project, acc.project, p, at, pl.look)
  /\ r.prior = Append(acc.prior, [clip |-> pl.clip, look |-> ClipAt(acc.project, at).look])
  /\ r \in Laid(p)

LEMMA Placed ==
  ASSUME NEW p \in Documents, NEW acc \in Laid(p), NEW pl \in Named(p)
  PROVE  OnePlaced(Place(acc, pl), acc, p, pl)
<1> DEFINE q == acc.project
           id == pl.clip
           at == FindClip(p, id)
           look == pl.look
           q2 == SetClip(q, at, [ClipAt(q, at) EXCEPT !.look = look])
           one == [clip |-> id, look |-> ClipAt(q, at).look]
           more == Append(acc.prior, one)
<1>1. /\ q \in Documents /\ SameButLooks(q, p) /\ acc.prior \in Seq(Placement)
      /\ id \in Data /\ look \in Data /\ ClipPlaces(p, id) # {}
  BY DEF Laid, Named, Placement
<1> HIDE DEF q, id, look
<1>2. FindClip(q, id) = at /\ ClipPlaces(q, id) # {}
  BY <1>1, SamePlaces
<1>3. Place(acc, pl) = [project |-> q2, prior |-> more]
  BY <1>2 DEF Place, q, id, look
<1>4. LookSet(q2, q, p, at, look)
  <2> HIDE DEF at
  <2>1. \A z : z = q2 => LookSet(z, q, p, at, look)
    BY <1>1, OneLook DEF at
  <2>2. QED
    BY <2>1
<1>5. one \in Placement
  <2>1. ClipAt(q, at) \in AnyClip
    BY <1>1, <1>2, TheClip
  <2>2. QED
    BY <1>1, <2>1 DEF AnyClip, Placement
<1> HIDE DEF one, q2
<1>6. more \in Seq(Placement)
  BY <1>1, <1>5
<1> HIDE DEF more
<1>7. q2 \in Documents /\ SameButLooks(q2, p)
  BY <1>4 DEF LookSet
<1>8. Place(acc, pl) \in Laid(p)
  BY <1>3, <1>6, <1>7 DEF Laid
<1>9. Place(acc, pl).project = q2 /\ Place(acc, pl).prior = more
  BY <1>3
<1>10. QED
  BY <1>4, <1>8, <1>9 DEF OnePlaced, more, one, q, id, look, at

PlaceWalk(h, d, p, s, n) ==
  /\ h[0] = [project |-> d, prior |-> <<>>] /\ FoldLeft(Place, [project |-> d, prior |-> <<>>], s) = h[n] /\ \A k \in 0..n : h[k] \in Laid(p)
  /\ \A k \in 0..n - 1 : h[k + 1] = Place(h[k], s[k + 1])

LEMMA PlaceSteps ==
  ASSUME NEW p \in Documents, NEW d \in Documents, SameButLooks(d, p), NEW s \in Seq(Named(p))
  PROVE  Len(s) \in Nat /\ \E h : PlaceWalk(h, d, p, s, Len(s))
<1> DEFINE n == Len(s)
           none == [project |-> d, prior |-> <<>>]
           X == Laid(p)
           T == Named(p)
           Takes(q, y) == Place(q, y)
           F == [q \in X \X (1..n) |-> Takes(q[1], s[q[2]])]
           P(g) == g = [t \in SUBSET DOMAIN s |->
                          IF t = {} THEN none ELSE Takes(g[t \ {Max(t)}], s[Max(t)])]
           it == CHOOSE g : P(g)
<1>1. FoldLeft(Place, [project |-> d, prior |-> <<>>], s) = it[DOMAIN s]
  BY DEF FoldLeft, MapThenFoldSet
<1>2. s \in Seq(T)
  OBVIOUS
<1>3. \A q \in X, y \in T : Takes(q, y) \in X
  <2>1. \A q \in X, y \in T : OnePlaced(Place(q, y), q, p, y)
    BY Placed
  <2>2. QED
    BY <2>1 DEF OnePlaced
<1>4. none \in X
  <2>1. <<>> \in Seq(Placement)
    OBVIOUS
  <2>2. QED
    BY <2>1 DEF Laid
<1> HIDE DEF X, Takes, none, T
<1>5. n \in Nat /\ DOMAIN s = 1..n /\ \A i \in 1..n : s[i] \in T
  BY <1>2
<1> HIDE DEF n
<1>6. F \in [X \X (1..n) -> X] /\ \A q \in X, i \in 1..n : F[q, i] = Takes(q, s[i])
  BY <1>3, <1>5
<1> HIDE DEF F
<1>7. PICK g \in [SUBSET (1..n) -> X] : TakesLast(g, n, none, F)
  BY <1>4, <1>5, <1>6, LeftFoldExists
<1>8. \A t \in SUBSET (1..n) : t # {} => Max(t) \in 1..n /\ Max(t) \in t
  BY <1>5, LargestIn
<1>9. g = [t \in SUBSET (1..n) |-> IF t = {} THEN none ELSE Takes(g[t \ {Max(t)}], s[Max(t)])]
  <2>1. \A t \in SUBSET (1..n) : t # {} => F[g[t \ {Max(t)}], Max(t)] = Takes(g[t \ {Max(t)}], s[Max(t)])
    BY <1>6, <1>8
  <2>2. QED
    BY <1>7, <2>1 DEF TakesLast
<1>10. P(g)
  BY <1>5, <1>9
<1>11. P(it)
  <2> HIDE DEF P
  <2>1. QED
    BY <1>10
<1>12. it[{}] = none /\ \A t \in SUBSET (1..n) : t # {} => it[t] = Takes(it[t \ {Max(t)}], s[Max(t)])
  BY <1>5, <1>11
<1> HIDE DEF it, P
<1>13. \A t \in SUBSET (1..n) : t # {} /\ it[t \ {Max(t)}] \in X => it[t] = F[it[t \ {Max(t)}], Max(t)]
  BY <1>6, <1>8, <1>12
<1>14. PICK h : Climbing(h, n, X, none, F) /\ h[n] = it[1..n]
  <2>1. Recurring(it, n, X, none, F)
    BY <1>12, <1>13 DEF Recurring
  <2>2. Climbs(it, n, X, none, F)
    BY <1>4, <1>5, <1>6, <2>1, FoldClimbs
  <2>3. QED
    BY <2>2 DEF Climbs
<1>15. \A k \in 0..n - 1 : h[k + 1] = Takes(h[k], s[k + 1])
  <2>1. \A k \in 0..n - 1 : k \in 0..n /\ k + 1 \in 1..n
    BY <1>5
  <2>2. QED
    BY <1>6, <1>14, <2>1 DEF Climbing
<1>16. PlaceWalk(h, d, p, s, n)
  BY <1>1, <1>5, <1>14, <1>15 DEF Takes, none, X, PlaceWalk, Climbing
<1>17. QED
  BY <1>5, <1>16 DEF n

(* What n placements leave: other looks only at their clips, and a record of what   *)
(* each overwrote if none is named twice.                                           *)
NamedOnce(s) == \A i, j \in DOMAIN s : i # j => s[i].clip # s[j].clip

OldLook(p, pl) == [clip |-> pl.clip, look |-> ClipAt(p, FindClip(p, pl.clip)).look]

Recorded(m, p, s, k) ==
  /\ Len(m.prior) = k /\ \A j \in 1..k : m.prior[j] = OldLook(p, s[j])
  /\ \A t \in DOMAIN p.tracks : \A i \in DOMAIN p.tracks[t].clips :
       SameLook(m.project, p, t, i) \/ \E j \in 1..k : <<t, i>> = FindClip(p, s[j].clip)

LEMMA PlacesApart ==
  ASSUME NEW p \in Documents, NEW s \in Seq(Named(p)), NamedOnce(s), NEW i \in DOMAIN s, NEW j \in DOMAIN s,
         FindClip(p, s[i].clip) = FindClip(p, s[j].clip)
  PROVE  i = j
<1>1. s[i] \in Named(p) /\ s[j] \in Named(p)
  OBVIOUS
<1>2. ClipPlaces(p, s[i].clip) # {} /\ ClipPlaces(p, s[j].clip) # {}
  BY <1>1 DEF Named
<1>3. ClipAt(p, FindClip(p, s[i].clip)).id = s[i].clip /\ ClipAt(p, FindClip(p, s[j].clip)).id = s[j].clip
  BY <1>2, TheClip
<1>4. QED
  BY <1>3 DEF NamedOnce

LEMMA PlacingRecords ==
  ASSUME NEW p \in Documents, NEW s \in Seq(Named(p)), NamedOnce(s), NEW h, PlaceWalk(h, p, p, s, Len(s))
  PROVE  Recorded(h[Len(s)], p, s, Len(s)) /\ h[Len(s)] \in Laid(p)
<1> DEFINE n == Len(s)
           T == {k \in 0..n : Recorded(h[k], p, s, k)}
<1>1. n \in Nat /\ DOMAIN s = 1..n /\ \A i \in 1..n : s[i] \in Named(p)
  OBVIOUS
<1>2. h[0] = [project |-> p, prior |-> <<>>] /\ (\A k \in 0..n : h[k] \in Laid(p))
      /\ \A k \in 0..n - 1 : h[k + 1] = Place(h[k], s[k + 1])
  BY DEF PlaceWalk
<1> HIDE DEF n
<1>3. 0 \in T
  <2>1. Len(h[0].prior) = 0 /\ h[0].project = p
    BY <1>2
  <2>2. QED
    BY <1>1, <2>1 DEF Recorded, SameLook
<1>4. ASSUME NEW k \in 0..n - 1, k \in T PROVE k + 1 \in T
  <2> DEFINE at == FindClip(p, s[k + 1].clip)
             acc == h[k]
             r == h[k + 1]
  <2>1. k + 1 \in 1..n /\ k \in 0..n /\ k + 1 \in 0..n /\ k \in Nat /\ s[k + 1] \in Named(p)
    BY <1>1
  <2>2. acc \in Laid(p) /\ Recorded(acc, p, s, k)
    BY <1>2, <1>4, <2>1
  <2>3. OnePlaced(r, acc, p, s[k + 1])
    <3>1. r = Place(h[k], s[k + 1])
      BY <1>2
    <3>2. QED
      BY <2>1, <2>2, <3>1, Placed
  <2> HIDE DEF acc, r
  <2>4. /\ LookSet(r.project, acc.project, p, at, s[k + 1].look)
        /\ r.prior = Append(acc.prior, [clip |-> s[k + 1].clip, look |-> ClipAt(acc.project, at).look])
    BY <2>3 DEF OnePlaced
  <2>5. at = <<at[1], at[2]>> /\ at[1] \in DOMAIN p.tracks /\ at[2] \in DOMAIN p.tracks[at[1]].clips
    <3>1. at \in ClipPlaces(p, s[k + 1].clip)
      BY <2>1, ClipFound DEF Named
    <3>2. QED
      BY <3>1, Places
  <2>6. \A j \in 1..k : at # FindClip(p, s[j].clip)
    <3>1. SUFFICES ASSUME NEW j \in 1..k, at = FindClip(p, s[j].clip) PROVE FALSE
      OBVIOUS
    <3>2. j \in DOMAIN s /\ k + 1 \in DOMAIN s /\ j # k + 1
      BY <1>1, <2>1
    <3>3. QED
      BY <3>1, <3>2, PlacesApart
  <2>7. ClipAt(acc.project, at).look = ClipAt(p, at).look
    <3>1. SameLook(acc.project, p, at[1], at[2])
      BY <2>2, <2>5, <2>6 DEF Recorded
    <3>2. QED
      BY <3>1 DEF SameLook, ClipAt
  <2>8. Len(r.prior) = k + 1 /\ \A j \in 1..k + 1 : r.prior[j] = OldLook(p, s[j])
    <3> DEFINE prior == acc.prior
               one == OldLook(p, s[k + 1])
    <3>1. prior \in Seq(Placement) /\ Len(prior) = k /\ \A j \in 1..k : prior[j] = OldLook(p, s[j])
      BY <2>2 DEF Laid, Recorded
    <3>2. one = [clip |-> s[k + 1].clip, look |-> ClipAt(acc.project, at).look]
      BY <2>7 DEF OldLook
    <3>3. one \in Placement
      <4>1. ClipAt(p, at) \in AnyClip
        BY <2>1, TheClip DEF Named
      <4>2. QED
        BY <2>1, <4>1 DEF Named, AnyClip, Placement, OldLook
    <3>4. r.prior = Append(prior, one)
      BY <2>4, <3>2
    <3> HIDE DEF prior, one
    <3>5. Len(r.prior) = k + 1 /\ r.prior[k + 1] = one /\ \A j \in 1..k : r.prior[j] = prior[j]
      BY <2>1, <3>1, <3>3, <3>4
    <3>6. \A j \in 1..k + 1 : j \in 1..k \/ j = k + 1
      BY <2>1
    <3>7. QED
      BY <3>1, <3>5, <3>6 DEF one
  <2>9. ASSUME NEW t \in DOMAIN p.tracks, NEW i \in DOMAIN p.tracks[t].clips
        PROVE  SameLook(r.project, p, t, i) \/ \E j \in 1..k + 1 : <<t, i>> = FindClip(p, s[j].clip)
    <3>1. CASE <<t, i>> = at
      <4>1. k + 1 \in 1..k + 1
        BY <2>1
      <4>2. QED
        BY <3>1, <4>1
    <3>2. CASE <<t, i>> # at
      <4>1. SameLook(r.project, acc.project, t, i)
        BY <2>4, <3>2 DEF LookSet
      <4>2. SameLook(acc.project, p, t, i) \/ \E j \in 1..k : <<t, i>> = FindClip(p, s[j].clip)
        BY <2>2 DEF Recorded
      <4>3. \A j \in 1..k : j \in 1..k + 1
        BY <2>1
      <4>4. QED
        BY <4>1, <4>2, <4>3 DEF SameLook
    <3>3. QED
      BY <3>1, <3>2
  <2>10. Recorded(h[k + 1], p, s, k + 1)
    BY <2>8, <2>9 DEF Recorded, r
  <2>11. QED
    BY <2>1, <2>10
<1>5. 0..n \subseteq T
  <2> HIDE DEF T
  <2>1. QED
    BY <1>1, <1>3, <1>4, Climb
<1>6. n \in 0..n
  BY <1>1
<1>7. Recorded(h[n], p, s, n) /\ h[n] \in Laid(p)
  BY <1>2, <1>5, <1>6
<1>8. QED
  BY <1>7 DEF n

(* Placing the old looks settles the document.                                      *)
LEMMA PlacingSettles ==
  ASSUME NEW p \in Documents, NEW d \in Documents, SameButLooks(d, p), NEW s \in Seq(Named(p)),
         NEW h, PlaceWalk(h, d, p, s, Len(s)),
         \A j \in DOMAIN s : s[j].look = ClipAt(p, FindClip(p, s[j].clip)).look,
         \A t \in DOMAIN p.tracks : \A i \in DOMAIN p.tracks[t].clips :
           SameLook(d, p, t, i) \/ \E j \in DOMAIN s : <<t, i>> = FindClip(p, s[j].clip)
  PROVE  h[Len(s)].project = p
<1> DEFINE n == Len(s)
           Left(q, k) == \A t \in DOMAIN p.tracks : \A i \in DOMAIN p.tracks[t].clips :
                           SameLook(q, p, t, i) \/ \E j \in k + 1..n : <<t, i>> = FindClip(p, s[j].clip)
           T == {k \in 0..n : Left(h[k].project, k)}
<1>1. n \in Nat /\ DOMAIN s = 1..n /\ \A i \in 1..n : s[i] \in Named(p)
  OBVIOUS
<1>2. h[0] = [project |-> d, prior |-> <<>>] /\ (\A k \in 0..n : h[k] \in Laid(p))
      /\ \A k \in 0..n - 1 : h[k + 1] = Place(h[k], s[k + 1])
  BY DEF PlaceWalk
<1> HIDE DEF n
<1>3. 0 \in T
  <2>1. h[0].project = d
    BY <1>2
  <2>2. 0 \in 0..n /\ 0 + 1 = 1
    BY <1>1
  <2>3. QED
    BY <1>1, <2>1, <2>2
<1>4. ASSUME NEW k \in 0..n - 1, k \in T PROVE k + 1 \in T
  <2> DEFINE at == FindClip(p, s[k + 1].clip)
             acc == h[k]
             r == h[k + 1]
  <2>1. k + 1 \in 1..n /\ k \in 0..n /\ k + 1 \in 0..n /\ k \in Nat /\ s[k + 1] \in Named(p)
    BY <1>1
  <2>2. acc \in Laid(p) /\ Left(acc.project, k)
    BY <1>2, <1>4, <2>1
  <2>3. OnePlaced(r, acc, p, s[k + 1])
    <3>1. r = Place(h[k], s[k + 1])
      BY <1>2
    <3>2. QED
      BY <2>1, <2>2, <3>1, Placed
  <2> HIDE DEF acc, r
  <2>4. LookSet(r.project, acc.project, p, at, s[k + 1].look)
    BY <2>3 DEF OnePlaced
  <2>5. s[k + 1].look = ClipAt(p, at).look
    BY <1>1, <2>1
  <2>6. ASSUME NEW t \in DOMAIN p.tracks, NEW i \in DOMAIN p.tracks[t].clips
        PROVE  SameLook(r.project, p, t, i) \/ \E j \in (k + 1) + 1..n : <<t, i>> = FindClip(p, s[j].clip)
    <3>1. CASE <<t, i>> = at
      <4>1. ClipAt(r.project, at).look = ClipAt(p, at).look
        BY <2>4, <2>5 DEF LookSet
      <4>2. at[1] = t /\ at[2] = i
        <5> HIDE DEF at
        <5>1. QED
          BY <3>1
      <4>3. QED
        BY <4>1, <4>2 DEF SameLook, ClipAt
    <3>2. CASE <<t, i>> # at
      <4>1. SameLook(r.project, acc.project, t, i)
        BY <2>4, <3>2 DEF LookSet
      <4>2. SameLook(acc.project, p, t, i) \/ \E j \in k + 1..n : <<t, i>> = FindClip(p, s[j].clip)
        BY <2>2
      <4>3. \A j \in k + 1..n : j \in (k + 1) + 1..n \/ j = k + 1
        BY <1>1, <2>1
      <4>4. QED
        BY <3>2, <4>1, <4>2, <4>3 DEF SameLook
    <3>3. QED
      BY <3>1, <3>2
  <2>7. Left(h[k + 1].project, k + 1)
    BY <2>6 DEF r
  <2>8. QED
    BY <2>1, <2>7
<1>5. 0..n \subseteq T
  <2> HIDE DEF T
  <2>1. QED
    BY <1>1, <1>3, <1>4, Climb
<1>6. n \in 0..n /\ \A j : j \notin n + 1..n
  BY <1>1
<1> DEFINE q == h[n].project
<1>7. Left(q, n) /\ q \in Documents /\ SameButLooks(q, p)
  BY <1>2, <1>5, <1>6 DEF Laid
<1> HIDE DEF q
<1>8. q = p
  BY <1>6, <1>7, LooksSettle
<1>9. QED
  BY <1>8 DEF q, n

LEMMA LayoutGoesBack ==
  ASSUME NEW p \in Documents, NEW c \in Layouts, NamedOnce(c.placements), NEW r, r = ApplySetClipTransforms(c, p)
  PROVE  Honours(c, p, r, RevertSetClipTransforms(r.cmd, r.project))
<1> DEFINE s == c.placements
           n == Len(s)
           m == FoldLeft(Place, [project |-> p, prior |-> <<>>], s)
           x == [held |-> TRUE, prior |-> m.prior]
           d == [c EXCEPT !.cap = x]
           q == m.project
           all == \A i \in DOMAIN s : ClipPlaces(p, s[i].clip) # {}
<1>1. c \in EditCommands /\ s \in Seq(Placement) /\ n \in Nat /\ DOMAIN s = 1..n
      /\ \A i \in DOMAIN s : s[i] \in Placement
  <2>1. s \in Seq(Placement)
    BY DEF Layouts
  <2>2. QED
    BY <2>1 DEF EditCommands
<1>2. r = Refused(p, c) \/ (all /\ r = Done(q, d))
  BY DEF ApplySetClipTransforms
<1>3. CASE r = Refused(p, c)
  BY <1>1, <1>3, RefusalHonours
<1>4. CASE all /\ r = Done(q, d)
  <2>1. d.cap = x /\ d.placements = s /\ x.held /\ x.prior = m.prior
    BY DEF Layouts
  <2>2. s \in Seq(Named(p))
    <3>1. \A i \in 1..Len(s) : s[i] \in Named(p)
      BY <1>1, <1>4 DEF Named
    <3> HIDE DEF s
    <3>2. QED
      BY <1>1, <3>1, Narrowed
  <2>3. SameButLooks(p, p)
    BY LooksAlike
  <2> HIDE DEF s, n, m, d, x
  <2>4. PICK h : PlaceWalk(h, p, p, s, n)
    BY <2>2, <2>3, PlaceSteps DEF n
  <2>5. m = h[n]
    BY <2>4 DEF PlaceWalk, m
  <2>6. Recorded(m, p, s, n) /\ m \in Laid(p)
    <3>1. NamedOnce(s)
      BY DEF s
    <3>2. QED
      BY <2>2, <2>4, <2>5, <3>1, PlacingRecords DEF n
  <2>7. /\ q \in Documents /\ SameButLooks(q, p) /\ m.prior \in Seq(Placement) /\ Len(m.prior) = n
        /\ \A j \in 1..n : m.prior[j] = OldLook(p, s[j])
    BY <2>6 DEF Laid, Recorded
  <2> DEFINE back == m.prior
             g == FoldLeft(Place, [project |-> q, prior |-> <<>>], back)
  <2>8. \A j \in 1..n : back[j].clip = s[j].clip /\ back[j].look = ClipAt(p, FindClip(p, s[j].clip)).look
    <3>1. \A pl : OldLook(p, pl).clip = pl.clip /\ OldLook(p, pl).look = ClipAt(p, FindClip(p, pl.clip)).look
      BY DEF OldLook
    <3>2. QED
      BY <2>7, <3>1
  <2> HIDE DEF back, q
  <2>9. DOMAIN back = 1..n /\ Len(back) = n /\ back \in Seq(Placement)
    BY <1>1, <2>7 DEF back
  <2>10. back \in Seq(Named(p))
    <3>1. \A i \in 1..Len(back) : back[i] \in Placement /\ ClipPlaces(p, back[i].clip) # {}
      BY <1>1, <1>4, <2>8, <2>9
    <3>2. \A i \in 1..Len(back) : back[i] \in Named(p)
      BY <3>1 DEF Named
    <3>3. QED
      BY <2>9, <3>2, Narrowed
  <2>11. PICK k : PlaceWalk(k, q, p, back, n)
    BY <2>7, <2>9, <2>10, PlaceSteps
  <2>12. g = k[n]
    BY <2>11 DEF PlaceWalk
  <2>13. k[n].project = p
    <3>1. \A j \in DOMAIN back : back[j].look = ClipAt(p, FindClip(p, back[j].clip)).look
      BY <2>8, <2>9
    <3>2. \A t \in DOMAIN p.tracks : \A i \in DOMAIN p.tracks[t].clips :
            SameLook(q, p, t, i) \/ \E j \in DOMAIN back : <<t, i>> = FindClip(p, back[j].clip)
      BY <2>6, <2>8, <2>9 DEF Recorded, q
    <3>3. QED
      BY <2>7, <2>9, <2>10, <2>11, <3>1, <3>2, PlacingSettles
  <2>14. \A i \in DOMAIN s : ClipPlaces(q, s[i].clip) # {}
    BY <1>4, <2>7, SamePlaces
  <2>15. RevertSetClipTransforms(d, q) = Done(p, d)
    BY <2>1, <2>12, <2>13, <2>14 DEF RevertSetClipTransforms, back
  <2>16. x \in Captures
    BY <2>7 DEF x, Captures
  <2>17. r.cmd = d /\ r.project = q /\ r.ok
    BY <1>4 DEF Done
  <2>18. LeavesDocument(c, r)
    BY <2>7, <2>16, <2>17 DEF LeavesDocument, d
  <2>19. Back(c, p, Done(p, d))
    BY <2>16 DEF Back, Done, d
  <2>20. QED
    BY <2>15, <2>17, <2>18, <2>19 DEF Honours
<1>5. QED
  BY <1>2, <1>3, <1>4

-----------------------------------------------------------------------------------
(* The calls by the commands' names, and again with another capture. *)
LEMMA CalledByName ==
  ASSUME NEW c, NEW p
  PROVE  /\ c.op = "AddClip" => ApplyCommand(c, p) = ApplyAddClip(c, p) /\ RevertCommand(c, p) = RevertAddClip(c, p)
         /\ c.op = "DeleteClip" => ApplyCommand(c, p) = ApplyDeleteClip(c, p) /\ RevertCommand(c, p) = RevertDeleteClip(c, p)
         /\ c.op = "MoveClip" => ApplyCommand(c, p) = ApplyMoveClip(c, p) /\ RevertCommand(c, p) = RevertTrack(c, p)
         /\ c.op = "TrimClip" => ApplyCommand(c, p) = ApplyTrimClip(c, p) /\ RevertCommand(c, p) = RevertTrimClip(c, p)
         /\ c.op = "SplitClip" => ApplyCommand(c, p) = ApplySplitClip(c, p) /\ RevertCommand(c, p) = RevertSplitClip(c, p)
         /\ c.op = "ReorderClips" => ApplyCommand(c, p) = ApplyReorderClips(c, p) /\ RevertCommand(c, p) = RevertTrack(c, p)
         /\ c.op = "RippleDelete" => ApplyCommand(c, p) = ApplyRippleDelete(c, p) /\ RevertCommand(c, p) = RevertTrack(c, p)
         /\ c.op = "RippleTrim" => ApplyCommand(c, p) = ApplyRippleTrim(c, p) /\ RevertCommand(c, p) = RevertRippleTrim(c, p)
         /\ c.op = "CloseGap" => ApplyCommand(c, p) = ApplyCloseGap(c, p) /\ RevertCommand(c, p) = RevertTrack(c, p)
         /\ c.op = "SetClipProperties" => ApplyCommand(c, p) = ApplySetClipProperties(c, p) /\ RevertCommand(c, p) = RevertSetClipProperties(c, p)
         /\ c.op = "SetClipProperty" => ApplyCommand(c, p) = ApplySetClipProperty(c, p) /\ RevertCommand(c, p) = RevertSetClipProperty(c, p)
         /\ c.op = "SetClipTransforms" => ApplyCommand(c, p) = ApplySetClipTransforms(c, p) /\ RevertCommand(c, p) = RevertSetClipTransforms(c, p)
         /\ c.op = "SetTransition" => ApplyCommand(c, p) = ApplySetTransition(c, p) /\ RevertCommand(c, p) = RevertSetTransition(c, p)
         /\ c.op = "AddTrack" => ApplyCommand(c, p) = ApplyAddTrack(c, p) /\ RevertCommand(c, p) = RevertAddTrack(c, p)
         /\ c.op = "RemoveTrack" => ApplyCommand(c, p) = ApplyRemoveTrack(c, p) /\ RevertCommand(c, p) = RevertRemoveTrack(c, p)
         /\ c.op = "SetTrackMuted" => ApplyCommand(c, p) = ApplySetTrackMuted(c, p) /\ RevertCommand(c, p) = RevertSetTrackMuted(c, p)
         /\ c.op = "AddMarker" => ApplyCommand(c, p) = ApplyAddMarker(c, p) /\ RevertCommand(c, p) = RevertAddMarker(c, p)
         /\ c.op = "RemoveMarker" => ApplyCommand(c, p) = ApplyRemoveMarker(c, p) /\ RevertCommand(c, p) = RevertRemoveMarker(c, p)
         /\ c.op = "SetTextContent" => ApplyCommand(c, p) = ApplySetTextContent(c, p) /\ RevertCommand(c, p) = RevertSetTextContent(c, p)
         /\ c.op = "SetTextStyle" => ApplyCommand(c, p) = ApplySetTextStyle(c, p) /\ RevertCommand(c, p) = RevertSetTextStyle(c, p)
         /\ c.op = "SetCaptionText" => ApplyCommand(c, p) = ApplySetCaptionText(c, p) /\ RevertCommand(c, p) = RevertSetCaptionText(c, p)
         /\ c.op = "RetimeCaptionCue" => ApplyCommand(c, p) = ApplyRetimeCaptionCue(c, p) /\ RevertCommand(c, p) = RevertTrack(c, p)
         /\ c.op = "SetProjectSettings" => ApplyCommand(c, p) = ApplySetProjectSettings(c, p) /\ RevertCommand(c, p) = RevertSetProjectSettings(c, p)
BY DEF ApplyCommand, RevertCommand

Repeated(r, again) == r.ok => again.ok /\ again.project = r.project

LEMMA RewriteAgain ==
  ASSUME NEW p, NEW t, NEW clips, NEW c, NEW d
  PROVE  Repeated(RewriteTrack(c, p, t, clips), RewriteTrack(d, p, t, clips))
BY DEF RewriteTrack, Repeated, Done, Refused

LEMMA AddClipAgain ==
  ASSUME NEW p, NEW c \in ClipAdds, NEW x, NEW d, d = [c EXCEPT !.cap = x]
  PROVE  Repeated(ApplyAddClip(c, p), ApplyAddClip(d, p))
<1>1. d.track = c.track /\ d.clip = c.clip
  BY DEF ClipAdds
<1>2. QED
  BY <1>1 DEF ApplyAddClip, Repeated, Done, Refused

LEMMA DeleteClipAgain ==
  ASSUME NEW p, NEW c \in OfClips, NEW x, NEW d, d = [c EXCEPT !.cap = x]
  PROVE  Repeated(ApplyDeleteClip(c, p), ApplyDeleteClip(d, p))
<1>1. d.clip = c.clip
  BY DEF OfClips
<1>2. QED
  BY <1>1 DEF ApplyDeleteClip, Repeated, Done, Refused

LEMMA MoveClipAgain ==
  ASSUME NEW p, NEW c \in Moves, NEW x, NEW d, d = [c EXCEPT !.cap = x]
  PROVE  Repeated(ApplyMoveClip(c, p), ApplyMoveClip(d, p))
<1>1. d.clip = c.clip /\ d.start = c.start
  BY DEF Moves
<1>2. QED
  BY <1>1 DEF ApplyMoveClip, RewriteTrack, Repeated, Done, Refused

LEMMA TrimClipAgain ==
  ASSUME NEW p, NEW c \in Trims, NEW x, NEW d, d = [c EXCEPT !.cap = x]
  PROVE  Repeated(ApplyTrimClip(c, p), ApplyTrimClip(d, p))
<1>1. d.clip = c.clip /\ d.edge = c.edge /\ d.boundary = c.boundary
  BY DEF Trims
<1>2. QED
  BY <1>1 DEF ApplyTrimClip, Repeated, Done, Refused

LEMMA SplitClipAgain ==
  ASSUME NEW p, NEW c \in Splits, NEW x, NEW d, d = [c EXCEPT !.cap = x]
  PROVE  Repeated(ApplySplitClip(c, p), ApplySplitClip(d, p))
<1>1. d.clip = c.clip /\ d.playhead = c.playhead /\ d.right = c.right
  BY DEF Splits
<1>2. QED
  BY <1>1 DEF ApplySplitClip, Repeated, Done, Refused

LEMMA ReorderClipsAgain ==
  ASSUME NEW p, NEW c \in Reorders, NEW x, NEW d, d = [c EXCEPT !.cap = x]
  PROVE  Repeated(ApplyReorderClips(c, p), ApplyReorderClips(d, p))
<1>1. d.track = c.track /\ d.order = c.order
  BY DEF Reorders
<1>2. QED
  BY <1>1 DEF ApplyReorderClips, Repeated, Done, Refused

LEMMA RippleDeleteAgain ==
  ASSUME NEW p, NEW c \in OfClips, NEW x, NEW d, d = [c EXCEPT !.cap = x]
  PROVE  Repeated(ApplyRippleDelete(c, p), ApplyRippleDelete(d, p))
<1>1. d.clip = c.clip
  BY DEF OfClips
<1>2. QED
  BY <1>1 DEF ApplyRippleDelete, RewriteTrack, Repeated, Done, Refused

LEMMA RippleTrimAgain ==
  ASSUME NEW p, NEW c \in Trims, NEW x, NEW d, d = [c EXCEPT !.cap = x]
  PROVE  Repeated(ApplyRippleTrim(c, p), ApplyRippleTrim(d, p))
<1>1. d.clip = c.clip /\ d.edge = c.edge /\ d.boundary = c.boundary
  BY DEF Trims
<1>2. QED
  BY <1>1 DEF ApplyRippleTrim, Repeated, Done, Refused, RippledAll, FoldLeft, MapThenFoldSet

LEMMA CloseGapAgain ==
  ASSUME NEW p, NEW c \in OfClips, NEW x, NEW d, d = [c EXCEPT !.cap = x]
  PROVE  Repeated(ApplyCloseGap(c, p), ApplyCloseGap(d, p))
<1> DEFINE at == FindClip(p, c.clip)
           clips == p.tracks[at[1]].clips
           gap == clips[at[2] + 1].start - End(clips[at[2]])
           closed == ShiftFrom(clips, at[2] + 1, -gap)
           no == ClipPlaces(p, c.clip) = {} \/ at[2] = Len(clips) \/ gap <= 0
<1>1. d.clip = c.clip
  BY DEF OfClips
<1>2. ASSUME NEW b, b.clip = c.clip
      PROVE  ApplyCloseGap(b, p) = IF no THEN Refused(p, b) ELSE RewriteTrack(b, p, at[1], closed)
  BY <1>2 DEF ApplyCloseGap
<1> HIDE DEF no, closed
<1>3. Repeated(RewriteTrack(c, p, at[1], closed), RewriteTrack(d, p, at[1], closed))
  BY RewriteAgain
<1>4. Repeated(Refused(p, c), Refused(p, d))
  BY DEF Repeated, Refused
<1>5. CASE no
  <2>1. ApplyCloseGap(c, p) = Refused(p, c) /\ ApplyCloseGap(d, p) = Refused(p, d)
    BY <1>1, <1>2, <1>5
  <2>2. QED
    BY <1>4, <2>1
<1>6. CASE ~no
  <2>1. /\ ApplyCloseGap(c, p) = RewriteTrack(c, p, at[1], closed)
        /\ ApplyCloseGap(d, p) = RewriteTrack(d, p, at[1], closed)
    BY <1>1, <1>2, <1>6
  <2>2. QED
    BY <1>3, <2>1
<1>7. QED
  BY <1>5, <1>6

LEMMA SetClipPropertiesAgain ==
  ASSUME NEW p, NEW c \in Speeds, NEW x, NEW d, d = [c EXCEPT !.cap = x]
  PROVE  Repeated(ApplySetClipProperties(c, p), ApplySetClipProperties(d, p))
<1>1. d.clip = c.clip /\ d.look = c.look /\ d.speed = c.speed
  BY DEF Speeds
<1>2. QED
  BY <1>1 DEF ApplySetClipProperties, Repeated, Done, Refused

LEMMA SetClipPropertyAgain ==
  ASSUME NEW p, NEW c \in Looks, NEW x, NEW d, d = [c EXCEPT !.cap = x]
  PROVE  Repeated(ApplySetClipProperty(c, p), ApplySetClipProperty(d, p))
<1>1. d.clip = c.clip /\ d.look = c.look
  BY DEF Looks
<1>2. QED
  BY <1>1 DEF ApplySetClipProperty, Repeated, Done, Refused

LEMMA SetClipTransformsAgain ==
  ASSUME NEW p, NEW c \in Layouts, NEW x, NEW d, d = [c EXCEPT !.cap = x]
  PROVE  Repeated(ApplySetClipTransforms(c, p), ApplySetClipTransforms(d, p))
<1>1. d.placements = c.placements
  BY DEF Layouts
<1>2. QED
  BY <1>1 DEF ApplySetClipTransforms, Repeated, Done, Refused

LEMMA SetTransitionAgain ==
  ASSUME NEW p, NEW c \in Transitions, NEW x, NEW d, d = [c EXCEPT !.cap = x]
  PROVE  Repeated(ApplySetTransition(c, p), ApplySetTransition(d, p))
<1>1. d.clip = c.clip /\ d.length = c.length
  BY DEF Transitions
<1>2. QED
  BY <1>1 DEF ApplySetTransition, Repeated, Done, Refused

LEMMA AddTrackAgain ==
  ASSUME NEW p, NEW c \in TrackAdds, NEW x, NEW d, d = [c EXCEPT !.cap = x]
  PROVE  Repeated(ApplyAddTrack(c, p), ApplyAddTrack(d, p))
<1>1. d.track = c.track /\ d.kind = c.kind
  BY DEF TrackAdds
<1>2. QED
  BY <1>1 DEF ApplyAddTrack, Repeated, Done, Refused

LEMMA RemoveTrackAgain ==
  ASSUME NEW p, NEW c \in TrackRemoves, NEW x, NEW d, d = [c EXCEPT !.cap = x]
  PROVE  Repeated(ApplyRemoveTrack(c, p), ApplyRemoveTrack(d, p))
<1>1. d.track = c.track
  BY DEF TrackRemoves
<1>2. QED
  BY <1>1 DEF ApplyRemoveTrack, Repeated, Done, Refused

LEMMA SetTrackMutedAgain ==
  ASSUME NEW p, NEW c \in Mutes, NEW x, NEW d, d = [c EXCEPT !.cap = x]
  PROVE  Repeated(ApplySetTrackMuted(c, p), ApplySetTrackMuted(d, p))
<1>1. d.track = c.track /\ d.muted = c.muted
  BY DEF Mutes
<1>2. QED
  BY <1>1 DEF ApplySetTrackMuted, Repeated, Done, Refused

LEMMA AddMarkerAgain ==
  ASSUME NEW p, NEW c \in MarkerAdds, NEW x, NEW d, d = [c EXCEPT !.cap = x]
  PROVE  Repeated(ApplyAddMarker(c, p), ApplyAddMarker(d, p))
<1>1. d.marker = c.marker
  BY DEF MarkerAdds
<1>2. QED
  BY <1>1 DEF ApplyAddMarker, Repeated, Done, Refused

LEMMA RemoveMarkerAgain ==
  ASSUME NEW p, NEW c \in MarkerRemoves, NEW x, NEW d, d = [c EXCEPT !.cap = x]
  PROVE  Repeated(ApplyRemoveMarker(c, p), ApplyRemoveMarker(d, p))
<1>1. d.marker = c.marker
  BY DEF MarkerRemoves
<1>2. QED
  BY <1>1 DEF ApplyRemoveMarker, Repeated, Done, Refused

LEMMA SetTextContentAgain ==
  ASSUME NEW p, NEW c \in Wordings, NEW x, NEW d, d = [c EXCEPT !.cap = x]
  PROVE  Repeated(ApplySetTextContent(c, p), ApplySetTextContent(d, p))
<1>1. d.clip = c.clip /\ d.words = c.words
  BY DEF Wordings
<1>2. QED
  BY <1>1 DEF ApplySetTextContent, Repeated, Done, Refused

LEMMA SetTextStyleAgain ==
  ASSUME NEW p, NEW c \in Styles, NEW x, NEW d, d = [c EXCEPT !.cap = x]
  PROVE  Repeated(ApplySetTextStyle(c, p), ApplySetTextStyle(d, p))
<1>1. d.clip = c.clip /\ d.style = c.style
  BY DEF Styles
<1>2. QED
  BY <1>1 DEF ApplySetTextStyle, Repeated, Done, Refused

LEMMA SetCaptionTextAgain ==
  ASSUME NEW p, NEW c \in Wordings, NEW x, NEW d, d = [c EXCEPT !.cap = x]
  PROVE  Repeated(ApplySetCaptionText(c, p), ApplySetCaptionText(d, p))
<1> DEFINE at == FindClip(p, c.clip)
           fits(words) == ClipPlaces(p, c.clip) # {} /\ IsCaptionCue(ClipAt(p, at)) /\ words # ""
           q == SetClip(p, at, [ClipAt(p, at) EXCEPT !.text.words = c.words])
           x2 == [held |-> TRUE, words |-> ClipAt(p, at).text.words]
<1>1. d.clip = c.clip /\ d.words = c.words
  BY DEF Wordings
<1>2. ASSUME NEW b, b.clip = c.clip, b.words = c.words
      PROVE  ApplySetCaptionText(b, p) = IF fits(b.words) THEN Done(q, [b EXCEPT !.cap = x2]) ELSE Refused(p, b)
  BY <1>2, Zenon DEF ApplySetCaptionText
<1> HIDE DEF fits, q, x2
<1>3. \A a, b : Repeated(Done(q, a), Done(q, b)) /\ Repeated(Refused(p, a), Refused(p, b))
  BY DEF Repeated, Refused, Done
<1>4. QED
  BY <1>1, <1>2, <1>3

LEMMA RetimeCaptionCueAgain ==
  ASSUME NEW p, NEW c \in Retimes, NEW x, NEW d, d = [c EXCEPT !.cap = x]
  PROVE  Repeated(ApplyRetimeCaptionCue(c, p), ApplyRetimeCaptionCue(d, p))
<1> DEFINE at == FindClip(p, c.clip)
           cue == ClipAt(p, at)
           start == IF c.start = {} THEN cue.start ELSE Max(c.start)
           length == IF c.length = {} THEN Duration(cue) ELSE Max(c.length)
           timed == [p.tracks[at[1]].clips EXCEPT ![at[2]] = [@ EXCEPT !.in = 0, !.out = length]]
           moved == MovedClip(timed, at[2], start)
           no == ClipPlaces(p, c.clip) = {} \/ ~IsCaptionCue(cue) \/ start < 0 \/ length <= 0
<1>1. d.clip = c.clip /\ d.start = c.start /\ d.length = c.length
  BY DEF Retimes
<1>2. ASSUME NEW b, b.clip = c.clip, b.start = c.start, b.length = c.length
      PROVE  ApplyRetimeCaptionCue(b, p) = IF no THEN Refused(p, b) ELSE RewriteTrack(b, p, at[1], moved)
  BY <1>2 DEF ApplyRetimeCaptionCue
<1> HIDE DEF no, moved
<1>3. Repeated(RewriteTrack(c, p, at[1], moved), RewriteTrack(d, p, at[1], moved))
  BY RewriteAgain
<1>4. Repeated(Refused(p, c), Refused(p, d))
  BY DEF Repeated, Refused
<1>5. CASE no
  <2>1. ApplyRetimeCaptionCue(c, p) = Refused(p, c) /\ ApplyRetimeCaptionCue(d, p) = Refused(p, d)
    BY <1>1, <1>2, <1>5
  <2>2. QED
    BY <1>4, <2>1
<1>6. CASE ~no
  <2>1. /\ ApplyRetimeCaptionCue(c, p) = RewriteTrack(c, p, at[1], moved)
        /\ ApplyRetimeCaptionCue(d, p) = RewriteTrack(d, p, at[1], moved)
    BY <1>1, <1>2, <1>6
  <2>2. QED
    BY <1>3, <2>1
<1>7. QED
  BY <1>5, <1>6

LEMMA SetProjectSettingsAgain ==
  ASSUME NEW p, NEW c \in SettingsCalls, NEW x, NEW d, d = [c EXCEPT !.cap = x]
  PROVE  Repeated(ApplySetProjectSettings(c, p), ApplySetProjectSettings(d, p))
<1>1. d.set = c.set
  BY DEF SettingsCalls
<1>2. QED
  BY <1>1 DEF ApplySetProjectSettings, Repeated, Done, Refused

-----------------------------------------------------------------------------------
(* Every edit command goes back, and repeats: what the engine's histories ask of    *)
(* it, for the commands that may be applied.                                        *)
MayApply(c, p) ==
  /\ c.op = "AddClip" => c.clip.id \notin ClipIds(p)
  /\ c.op = "SetClipTransforms" => NamedOnce(c.placements)

Faithful(c, p, r) ==
  /\ r.project \in Documents /\ \E x \in Captures : r.cmd = [c EXCEPT !.cap = x]
  /\ r.ok => Back(c, p, RevertCommand(r.cmd, r.project))
  /\ \A x : Repeated(r, ApplyCommand([c EXCEPT !.cap = x], p))

LEMMA AddClipFaithful ==
  ASSUME NEW p \in Documents, NEW c \in ClipAdds, c.op = "AddClip", c.clip.id \notin ClipIds(p), NEW r, r = ApplyCommand(c, p)
  PROVE  Faithful(c, p, r)
<1>1. r = ApplyAddClip(c, p)
  BY CalledByName
<1>2. Honours(c, p, r, RevertAddClip(r.cmd, r.project))
  BY <1>1, AddClipGoesBack
<1>3. r.project \in Documents /\ (\E x \in Captures : r.cmd = [c EXCEPT !.cap = x])
      /\ (r.ok => Back(c, p, RevertAddClip(r.cmd, r.project)))
  BY <1>2 DEF Honours, LeavesDocument
<1>4. \A x : [c EXCEPT !.cap = x].op = "AddClip"
  BY DEF ClipAdds
<1>5. RevertCommand(r.cmd, r.project) = RevertAddClip(r.cmd, r.project)
  <2>1. r.cmd.op = "AddClip"
    BY <1>3, <1>4
  <2> DEFINE d == r.cmd
  <2>2. d.op = "AddClip"
    BY <2>1
  <2> HIDE DEF d
  <2>3. RevertCommand(d, r.project) = RevertAddClip(d, r.project)
    BY <2>2, CalledByName
  <2>4. QED
    BY <2>3 DEF d
<1>6. ASSUME NEW x PROVE Repeated(r, ApplyCommand([c EXCEPT !.cap = x], p))
  <2> DEFINE d == [c EXCEPT !.cap = x]
  <2>1. d.op = "AddClip" /\ Repeated(ApplyAddClip(c, p), ApplyAddClip(d, p))
    BY <1>4, AddClipAgain
  <2> HIDE DEF d
  <2>2. ApplyCommand(d, p) = ApplyAddClip(d, p)
    BY <2>1, CalledByName
  <2>3. QED
    BY <1>1, <2>1, <2>2 DEF d
<1>7. QED
  BY <1>3, <1>5, <1>6 DEF Faithful

LEMMA DeleteClipFaithful ==
  ASSUME NEW p \in Documents, NEW c \in OfClips, c.op = "DeleteClip", NEW r, r = ApplyCommand(c, p)
  PROVE  Faithful(c, p, r)
<1>1. r = ApplyDeleteClip(c, p)
  BY CalledByName
<1>2. Honours(c, p, r, RevertDeleteClip(r.cmd, r.project))
  BY <1>1, DeleteGoesBack
<1>3. r.project \in Documents /\ (\E x \in Captures : r.cmd = [c EXCEPT !.cap = x])
      /\ (r.ok => Back(c, p, RevertDeleteClip(r.cmd, r.project)))
  BY <1>2 DEF Honours, LeavesDocument
<1>4. \A x : [c EXCEPT !.cap = x].op = "DeleteClip"
  BY DEF OfClips
<1>5. RevertCommand(r.cmd, r.project) = RevertDeleteClip(r.cmd, r.project)
  <2>1. r.cmd.op = "DeleteClip"
    BY <1>3, <1>4
  <2> DEFINE d == r.cmd
  <2>2. d.op = "DeleteClip"
    BY <2>1
  <2> HIDE DEF d
  <2>3. RevertCommand(d, r.project) = RevertDeleteClip(d, r.project)
    BY <2>2, CalledByName
  <2>4. QED
    BY <2>3 DEF d
<1>6. ASSUME NEW x PROVE Repeated(r, ApplyCommand([c EXCEPT !.cap = x], p))
  <2> DEFINE d == [c EXCEPT !.cap = x]
  <2>1. d.op = "DeleteClip" /\ Repeated(ApplyDeleteClip(c, p), ApplyDeleteClip(d, p))
    BY <1>4, DeleteClipAgain
  <2> HIDE DEF d
  <2>2. ApplyCommand(d, p) = ApplyDeleteClip(d, p)
    BY <2>1, CalledByName
  <2>3. QED
    BY <1>1, <2>1, <2>2 DEF d
<1>7. QED
  BY <1>3, <1>5, <1>6 DEF Faithful

LEMMA MoveClipFaithful ==
  ASSUME NEW p \in Documents, NEW c \in Moves, c.op = "MoveClip", NEW r, r = ApplyCommand(c, p)
  PROVE  Faithful(c, p, r)
<1>1. r = ApplyMoveClip(c, p)
  BY CalledByName
<1>2. Honours(c, p, r, RevertTrack(r.cmd, r.project))
  BY <1>1, MoveGoesBack
<1>3. r.project \in Documents /\ (\E x \in Captures : r.cmd = [c EXCEPT !.cap = x])
      /\ (r.ok => Back(c, p, RevertTrack(r.cmd, r.project)))
  BY <1>2 DEF Honours, LeavesDocument
<1>4. \A x : [c EXCEPT !.cap = x].op = "MoveClip"
  BY DEF Moves
<1>5. RevertCommand(r.cmd, r.project) = RevertTrack(r.cmd, r.project)
  <2>1. r.cmd.op = "MoveClip"
    BY <1>3, <1>4
  <2> DEFINE d == r.cmd
  <2>2. d.op = "MoveClip"
    BY <2>1
  <2> HIDE DEF d
  <2>3. RevertCommand(d, r.project) = RevertTrack(d, r.project)
    BY <2>2, CalledByName
  <2>4. QED
    BY <2>3 DEF d
<1>6. ASSUME NEW x PROVE Repeated(r, ApplyCommand([c EXCEPT !.cap = x], p))
  <2> DEFINE d == [c EXCEPT !.cap = x]
  <2>1. d.op = "MoveClip" /\ Repeated(ApplyMoveClip(c, p), ApplyMoveClip(d, p))
    BY <1>4, MoveClipAgain
  <2> HIDE DEF d
  <2>2. ApplyCommand(d, p) = ApplyMoveClip(d, p)
    BY <2>1, CalledByName
  <2>3. QED
    BY <1>1, <2>1, <2>2 DEF d
<1>7. QED
  BY <1>3, <1>5, <1>6 DEF Faithful

LEMMA TrimClipFaithful ==
  ASSUME NEW p \in Documents, NEW c \in Trims, c.op = "TrimClip", NEW r, r = ApplyCommand(c, p)
  PROVE  Faithful(c, p, r)
<1>1. r = ApplyTrimClip(c, p)
  BY CalledByName
<1>2. Honours(c, p, r, RevertTrimClip(r.cmd, r.project))
  BY <1>1, TrimGoesBack
<1>3. r.project \in Documents /\ (\E x \in Captures : r.cmd = [c EXCEPT !.cap = x])
      /\ (r.ok => Back(c, p, RevertTrimClip(r.cmd, r.project)))
  BY <1>2 DEF Honours, LeavesDocument
<1>4. \A x : [c EXCEPT !.cap = x].op = "TrimClip"
  BY DEF Trims
<1>5. RevertCommand(r.cmd, r.project) = RevertTrimClip(r.cmd, r.project)
  <2>1. r.cmd.op = "TrimClip"
    BY <1>3, <1>4
  <2> DEFINE d == r.cmd
  <2>2. d.op = "TrimClip"
    BY <2>1
  <2> HIDE DEF d
  <2>3. RevertCommand(d, r.project) = RevertTrimClip(d, r.project)
    BY <2>2, CalledByName
  <2>4. QED
    BY <2>3 DEF d
<1>6. ASSUME NEW x PROVE Repeated(r, ApplyCommand([c EXCEPT !.cap = x], p))
  <2> DEFINE d == [c EXCEPT !.cap = x]
  <2>1. d.op = "TrimClip" /\ Repeated(ApplyTrimClip(c, p), ApplyTrimClip(d, p))
    BY <1>4, TrimClipAgain
  <2> HIDE DEF d
  <2>2. ApplyCommand(d, p) = ApplyTrimClip(d, p)
    BY <2>1, CalledByName
  <2>3. QED
    BY <1>1, <2>1, <2>2 DEF d
<1>7. QED
  BY <1>3, <1>5, <1>6 DEF Faithful

LEMMA SplitClipFaithful ==
  ASSUME NEW p \in Documents, NEW c \in Splits, c.op = "SplitClip", NEW r, r = ApplyCommand(c, p)
  PROVE  Faithful(c, p, r)
<1>1. r = ApplySplitClip(c, p)
  BY CalledByName
<1>2. Honours(c, p, r, RevertSplitClip(r.cmd, r.project))
  BY <1>1, SplitGoesBack
<1>3. r.project \in Documents /\ (\E x \in Captures : r.cmd = [c EXCEPT !.cap = x])
      /\ (r.ok => Back(c, p, RevertSplitClip(r.cmd, r.project)))
  BY <1>2 DEF Honours, LeavesDocument
<1>4. \A x : [c EXCEPT !.cap = x].op = "SplitClip"
  BY DEF Splits
<1>5. RevertCommand(r.cmd, r.project) = RevertSplitClip(r.cmd, r.project)
  <2>1. r.cmd.op = "SplitClip"
    BY <1>3, <1>4
  <2> DEFINE d == r.cmd
  <2>2. d.op = "SplitClip"
    BY <2>1
  <2> HIDE DEF d
  <2>3. RevertCommand(d, r.project) = RevertSplitClip(d, r.project)
    BY <2>2, CalledByName
  <2>4. QED
    BY <2>3 DEF d
<1>6. ASSUME NEW x PROVE Repeated(r, ApplyCommand([c EXCEPT !.cap = x], p))
  <2> DEFINE d == [c EXCEPT !.cap = x]
  <2>1. d.op = "SplitClip" /\ Repeated(ApplySplitClip(c, p), ApplySplitClip(d, p))
    BY <1>4, SplitClipAgain
  <2> HIDE DEF d
  <2>2. ApplyCommand(d, p) = ApplySplitClip(d, p)
    BY <2>1, CalledByName
  <2>3. QED
    BY <1>1, <2>1, <2>2 DEF d
<1>7. QED
  BY <1>3, <1>5, <1>6 DEF Faithful

LEMMA ReorderClipsFaithful ==
  ASSUME NEW p \in Documents, NEW c \in Reorders, c.op = "ReorderClips", NEW r, r = ApplyCommand(c, p)
  PROVE  Faithful(c, p, r)
<1>1. r = ApplyReorderClips(c, p)
  BY CalledByName
<1>2. Honours(c, p, r, RevertTrack(r.cmd, r.project))
  BY <1>1, ReorderGoesBack
<1>3. r.project \in Documents /\ (\E x \in Captures : r.cmd = [c EXCEPT !.cap = x])
      /\ (r.ok => Back(c, p, RevertTrack(r.cmd, r.project)))
  BY <1>2 DEF Honours, LeavesDocument
<1>4. \A x : [c EXCEPT !.cap = x].op = "ReorderClips"
  BY DEF Reorders
<1>5. RevertCommand(r.cmd, r.project) = RevertTrack(r.cmd, r.project)
  <2>1. r.cmd.op = "ReorderClips"
    BY <1>3, <1>4
  <2> DEFINE d == r.cmd
  <2>2. d.op = "ReorderClips"
    BY <2>1
  <2> HIDE DEF d
  <2>3. RevertCommand(d, r.project) = RevertTrack(d, r.project)
    BY <2>2, CalledByName
  <2>4. QED
    BY <2>3 DEF d
<1>6. ASSUME NEW x PROVE Repeated(r, ApplyCommand([c EXCEPT !.cap = x], p))
  <2> DEFINE d == [c EXCEPT !.cap = x]
  <2>1. d.op = "ReorderClips" /\ Repeated(ApplyReorderClips(c, p), ApplyReorderClips(d, p))
    BY <1>4, ReorderClipsAgain
  <2> HIDE DEF d
  <2>2. ApplyCommand(d, p) = ApplyReorderClips(d, p)
    BY <2>1, CalledByName
  <2>3. QED
    BY <1>1, <2>1, <2>2 DEF d
<1>7. QED
  BY <1>3, <1>5, <1>6 DEF Faithful

LEMMA RippleDeleteFaithful ==
  ASSUME NEW p \in Documents, NEW c \in OfClips, c.op = "RippleDelete", NEW r, r = ApplyCommand(c, p)
  PROVE  Faithful(c, p, r)
<1>1. r = ApplyRippleDelete(c, p)
  BY CalledByName
<1>2. Honours(c, p, r, RevertTrack(r.cmd, r.project))
  BY <1>1, RippleDeleteGoesBack
<1>3. r.project \in Documents /\ (\E x \in Captures : r.cmd = [c EXCEPT !.cap = x])
      /\ (r.ok => Back(c, p, RevertTrack(r.cmd, r.project)))
  BY <1>2 DEF Honours, LeavesDocument
<1>4. \A x : [c EXCEPT !.cap = x].op = "RippleDelete"
  BY DEF OfClips
<1>5. RevertCommand(r.cmd, r.project) = RevertTrack(r.cmd, r.project)
  <2>1. r.cmd.op = "RippleDelete"
    BY <1>3, <1>4
  <2> DEFINE d == r.cmd
  <2>2. d.op = "RippleDelete"
    BY <2>1
  <2> HIDE DEF d
  <2>3. RevertCommand(d, r.project) = RevertTrack(d, r.project)
    BY <2>2, CalledByName
  <2>4. QED
    BY <2>3 DEF d
<1>6. ASSUME NEW x PROVE Repeated(r, ApplyCommand([c EXCEPT !.cap = x], p))
  <2> DEFINE d == [c EXCEPT !.cap = x]
  <2>1. d.op = "RippleDelete" /\ Repeated(ApplyRippleDelete(c, p), ApplyRippleDelete(d, p))
    BY <1>4, RippleDeleteAgain
  <2> HIDE DEF d
  <2>2. ApplyCommand(d, p) = ApplyRippleDelete(d, p)
    BY <2>1, CalledByName
  <2>3. QED
    BY <1>1, <2>1, <2>2 DEF d
<1>7. QED
  BY <1>3, <1>5, <1>6 DEF Faithful

LEMMA RippleTrimFaithful ==
  ASSUME NEW p \in Documents, NEW c \in Trims, c.op = "RippleTrim", NEW r, r = ApplyCommand(c, p)
  PROVE  Faithful(c, p, r)
<1>1. r = ApplyRippleTrim(c, p)
  BY CalledByName
<1>2. Honours(c, p, r, RevertRippleTrim(r.cmd, r.project))
  BY <1>1, RippleTrimGoesBack
<1>3. r.project \in Documents /\ (\E x \in Captures : r.cmd = [c EXCEPT !.cap = x])
      /\ (r.ok => Back(c, p, RevertRippleTrim(r.cmd, r.project)))
  BY <1>2 DEF Honours, LeavesDocument
<1>4. \A x : [c EXCEPT !.cap = x].op = "RippleTrim"
  BY DEF Trims
<1>5. RevertCommand(r.cmd, r.project) = RevertRippleTrim(r.cmd, r.project)
  <2>1. r.cmd.op = "RippleTrim"
    BY <1>3, <1>4
  <2> DEFINE d == r.cmd
  <2>2. d.op = "RippleTrim"
    BY <2>1
  <2> HIDE DEF d
  <2>3. RevertCommand(d, r.project) = RevertRippleTrim(d, r.project)
    BY <2>2, CalledByName
  <2>4. QED
    BY <2>3 DEF d
<1>6. ASSUME NEW x PROVE Repeated(r, ApplyCommand([c EXCEPT !.cap = x], p))
  <2> DEFINE d == [c EXCEPT !.cap = x]
  <2>1. d.op = "RippleTrim" /\ Repeated(ApplyRippleTrim(c, p), ApplyRippleTrim(d, p))
    BY <1>4, RippleTrimAgain
  <2> HIDE DEF d
  <2>2. ApplyCommand(d, p) = ApplyRippleTrim(d, p)
    BY <2>1, CalledByName
  <2>3. QED
    BY <1>1, <2>1, <2>2 DEF d
<1>7. QED
  BY <1>3, <1>5, <1>6 DEF Faithful

LEMMA CloseGapFaithful ==
  ASSUME NEW p \in Documents, NEW c \in OfClips, c.op = "CloseGap", NEW r, r = ApplyCommand(c, p)
  PROVE  Faithful(c, p, r)
<1>1. r = ApplyCloseGap(c, p)
  BY CalledByName
<1>2. Honours(c, p, r, RevertTrack(r.cmd, r.project))
  BY <1>1, CloseGapGoesBack
<1>3. r.project \in Documents /\ (\E x \in Captures : r.cmd = [c EXCEPT !.cap = x])
      /\ (r.ok => Back(c, p, RevertTrack(r.cmd, r.project)))
  BY <1>2 DEF Honours, LeavesDocument
<1>4. \A x : [c EXCEPT !.cap = x].op = "CloseGap"
  BY DEF OfClips
<1>5. RevertCommand(r.cmd, r.project) = RevertTrack(r.cmd, r.project)
  <2>1. r.cmd.op = "CloseGap"
    BY <1>3, <1>4
  <2> DEFINE d == r.cmd
  <2>2. d.op = "CloseGap"
    BY <2>1
  <2> HIDE DEF d
  <2>3. RevertCommand(d, r.project) = RevertTrack(d, r.project)
    BY <2>2, CalledByName
  <2>4. QED
    BY <2>3 DEF d
<1>6. ASSUME NEW x PROVE Repeated(r, ApplyCommand([c EXCEPT !.cap = x], p))
  <2> DEFINE d == [c EXCEPT !.cap = x]
  <2>1. d.op = "CloseGap" /\ Repeated(ApplyCloseGap(c, p), ApplyCloseGap(d, p))
    BY <1>4, CloseGapAgain
  <2> HIDE DEF d
  <2>2. ApplyCommand(d, p) = ApplyCloseGap(d, p)
    BY <2>1, CalledByName
  <2>3. QED
    BY <1>1, <2>1, <2>2 DEF d
<1>7. QED
  BY <1>3, <1>5, <1>6 DEF Faithful

LEMMA SetClipPropertiesFaithful ==
  ASSUME NEW p \in Documents, NEW c \in Speeds, c.op = "SetClipProperties", NEW r, r = ApplyCommand(c, p)
  PROVE  Faithful(c, p, r)
<1>1. r = ApplySetClipProperties(c, p)
  BY CalledByName
<1>2. Honours(c, p, r, RevertSetClipProperties(r.cmd, r.project))
  BY <1>1, SpeedGoesBack
<1>3. r.project \in Documents /\ (\E x \in Captures : r.cmd = [c EXCEPT !.cap = x])
      /\ (r.ok => Back(c, p, RevertSetClipProperties(r.cmd, r.project)))
  BY <1>2 DEF Honours, LeavesDocument
<1>4. \A x : [c EXCEPT !.cap = x].op = "SetClipProperties"
  BY DEF Speeds
<1>5. RevertCommand(r.cmd, r.project) = RevertSetClipProperties(r.cmd, r.project)
  <2>1. r.cmd.op = "SetClipProperties"
    BY <1>3, <1>4
  <2> DEFINE d == r.cmd
  <2>2. d.op = "SetClipProperties"
    BY <2>1
  <2> HIDE DEF d
  <2>3. RevertCommand(d, r.project) = RevertSetClipProperties(d, r.project)
    BY <2>2, CalledByName
  <2>4. QED
    BY <2>3 DEF d
<1>6. ASSUME NEW x PROVE Repeated(r, ApplyCommand([c EXCEPT !.cap = x], p))
  <2> DEFINE d == [c EXCEPT !.cap = x]
  <2>1. d.op = "SetClipProperties" /\ Repeated(ApplySetClipProperties(c, p), ApplySetClipProperties(d, p))
    BY <1>4, SetClipPropertiesAgain
  <2> HIDE DEF d
  <2>2. ApplyCommand(d, p) = ApplySetClipProperties(d, p)
    BY <2>1, CalledByName
  <2>3. QED
    BY <1>1, <2>1, <2>2 DEF d
<1>7. QED
  BY <1>3, <1>5, <1>6 DEF Faithful

LEMMA SetClipPropertyFaithful ==
  ASSUME NEW p \in Documents, NEW c \in Looks, c.op = "SetClipProperty", NEW r, r = ApplyCommand(c, p)
  PROVE  Faithful(c, p, r)
<1>1. r = ApplySetClipProperty(c, p)
  BY CalledByName
<1>2. Honours(c, p, r, RevertSetClipProperty(r.cmd, r.project))
  BY <1>1, LookGoesBack
<1>3. r.project \in Documents /\ (\E x \in Captures : r.cmd = [c EXCEPT !.cap = x])
      /\ (r.ok => Back(c, p, RevertSetClipProperty(r.cmd, r.project)))
  BY <1>2 DEF Honours, LeavesDocument
<1>4. \A x : [c EXCEPT !.cap = x].op = "SetClipProperty"
  BY DEF Looks
<1>5. RevertCommand(r.cmd, r.project) = RevertSetClipProperty(r.cmd, r.project)
  <2>1. r.cmd.op = "SetClipProperty"
    BY <1>3, <1>4
  <2> DEFINE d == r.cmd
  <2>2. d.op = "SetClipProperty"
    BY <2>1
  <2> HIDE DEF d
  <2>3. RevertCommand(d, r.project) = RevertSetClipProperty(d, r.project)
    BY <2>2, CalledByName
  <2>4. QED
    BY <2>3 DEF d
<1>6. ASSUME NEW x PROVE Repeated(r, ApplyCommand([c EXCEPT !.cap = x], p))
  <2> DEFINE d == [c EXCEPT !.cap = x]
  <2>1. d.op = "SetClipProperty" /\ Repeated(ApplySetClipProperty(c, p), ApplySetClipProperty(d, p))
    BY <1>4, SetClipPropertyAgain
  <2> HIDE DEF d
  <2>2. ApplyCommand(d, p) = ApplySetClipProperty(d, p)
    BY <2>1, CalledByName
  <2>3. QED
    BY <1>1, <2>1, <2>2 DEF d
<1>7. QED
  BY <1>3, <1>5, <1>6 DEF Faithful

LEMMA SetClipTransformsFaithful ==
  ASSUME NEW p \in Documents, NEW c \in Layouts, c.op = "SetClipTransforms", NamedOnce(c.placements), NEW r, r = ApplyCommand(c, p)
  PROVE  Faithful(c, p, r)
<1>1. r = ApplySetClipTransforms(c, p)
  BY CalledByName
<1>2. Honours(c, p, r, RevertSetClipTransforms(r.cmd, r.project))
  BY <1>1, LayoutGoesBack
<1>3. r.project \in Documents /\ (\E x \in Captures : r.cmd = [c EXCEPT !.cap = x])
      /\ (r.ok => Back(c, p, RevertSetClipTransforms(r.cmd, r.project)))
  BY <1>2 DEF Honours, LeavesDocument
<1>4. \A x : [c EXCEPT !.cap = x].op = "SetClipTransforms"
  BY DEF Layouts
<1>5. RevertCommand(r.cmd, r.project) = RevertSetClipTransforms(r.cmd, r.project)
  <2>1. r.cmd.op = "SetClipTransforms"
    BY <1>3, <1>4
  <2> DEFINE d == r.cmd
  <2>2. d.op = "SetClipTransforms"
    BY <2>1
  <2> HIDE DEF d
  <2>3. RevertCommand(d, r.project) = RevertSetClipTransforms(d, r.project)
    BY <2>2, CalledByName
  <2>4. QED
    BY <2>3 DEF d
<1>6. ASSUME NEW x PROVE Repeated(r, ApplyCommand([c EXCEPT !.cap = x], p))
  <2> DEFINE d == [c EXCEPT !.cap = x]
  <2>1. d.op = "SetClipTransforms" /\ Repeated(ApplySetClipTransforms(c, p), ApplySetClipTransforms(d, p))
    BY <1>4, SetClipTransformsAgain
  <2> HIDE DEF d
  <2>2. ApplyCommand(d, p) = ApplySetClipTransforms(d, p)
    BY <2>1, CalledByName
  <2>3. QED
    BY <1>1, <2>1, <2>2 DEF d
<1>7. QED
  BY <1>3, <1>5, <1>6 DEF Faithful

LEMMA SetTransitionFaithful ==
  ASSUME NEW p \in Documents, NEW c \in Transitions, c.op = "SetTransition", NEW r, r = ApplyCommand(c, p)
  PROVE  Faithful(c, p, r)
<1>1. r = ApplySetTransition(c, p)
  BY CalledByName
<1>2. Honours(c, p, r, RevertSetTransition(r.cmd, r.project))
  BY <1>1, TransitionGoesBack
<1>3. r.project \in Documents /\ (\E x \in Captures : r.cmd = [c EXCEPT !.cap = x])
      /\ (r.ok => Back(c, p, RevertSetTransition(r.cmd, r.project)))
  BY <1>2 DEF Honours, LeavesDocument
<1>4. \A x : [c EXCEPT !.cap = x].op = "SetTransition"
  BY DEF Transitions
<1>5. RevertCommand(r.cmd, r.project) = RevertSetTransition(r.cmd, r.project)
  <2>1. r.cmd.op = "SetTransition"
    BY <1>3, <1>4
  <2> DEFINE d == r.cmd
  <2>2. d.op = "SetTransition"
    BY <2>1
  <2> HIDE DEF d
  <2>3. RevertCommand(d, r.project) = RevertSetTransition(d, r.project)
    BY <2>2, CalledByName
  <2>4. QED
    BY <2>3 DEF d
<1>6. ASSUME NEW x PROVE Repeated(r, ApplyCommand([c EXCEPT !.cap = x], p))
  <2> DEFINE d == [c EXCEPT !.cap = x]
  <2>1. d.op = "SetTransition" /\ Repeated(ApplySetTransition(c, p), ApplySetTransition(d, p))
    BY <1>4, SetTransitionAgain
  <2> HIDE DEF d
  <2>2. ApplyCommand(d, p) = ApplySetTransition(d, p)
    BY <2>1, CalledByName
  <2>3. QED
    BY <1>1, <2>1, <2>2 DEF d
<1>7. QED
  BY <1>3, <1>5, <1>6 DEF Faithful

LEMMA AddTrackFaithful ==
  ASSUME NEW p \in Documents, NEW c \in TrackAdds, c.op = "AddTrack", NEW r, r = ApplyCommand(c, p)
  PROVE  Faithful(c, p, r)
<1>1. r = ApplyAddTrack(c, p)
  BY CalledByName
<1>2. Honours(c, p, r, RevertAddTrack(r.cmd, r.project))
  BY <1>1, AddTrackGoesBack
<1>3. r.project \in Documents /\ (\E x \in Captures : r.cmd = [c EXCEPT !.cap = x])
      /\ (r.ok => Back(c, p, RevertAddTrack(r.cmd, r.project)))
  BY <1>2 DEF Honours, LeavesDocument
<1>4. \A x : [c EXCEPT !.cap = x].op = "AddTrack"
  BY DEF TrackAdds
<1>5. RevertCommand(r.cmd, r.project) = RevertAddTrack(r.cmd, r.project)
  <2>1. r.cmd.op = "AddTrack"
    BY <1>3, <1>4
  <2> DEFINE d == r.cmd
  <2>2. d.op = "AddTrack"
    BY <2>1
  <2> HIDE DEF d
  <2>3. RevertCommand(d, r.project) = RevertAddTrack(d, r.project)
    BY <2>2, CalledByName
  <2>4. QED
    BY <2>3 DEF d
<1>6. ASSUME NEW x PROVE Repeated(r, ApplyCommand([c EXCEPT !.cap = x], p))
  <2> DEFINE d == [c EXCEPT !.cap = x]
  <2>1. d.op = "AddTrack" /\ Repeated(ApplyAddTrack(c, p), ApplyAddTrack(d, p))
    BY <1>4, AddTrackAgain
  <2> HIDE DEF d
  <2>2. ApplyCommand(d, p) = ApplyAddTrack(d, p)
    BY <2>1, CalledByName
  <2>3. QED
    BY <1>1, <2>1, <2>2 DEF d
<1>7. QED
  BY <1>3, <1>5, <1>6 DEF Faithful

LEMMA RemoveTrackFaithful ==
  ASSUME NEW p \in Documents, NEW c \in TrackRemoves, c.op = "RemoveTrack", NEW r, r = ApplyCommand(c, p)
  PROVE  Faithful(c, p, r)
<1>1. r = ApplyRemoveTrack(c, p)
  BY CalledByName
<1>2. Honours(c, p, r, RevertRemoveTrack(r.cmd, r.project))
  BY <1>1, RemoveTrackGoesBack
<1>3. r.project \in Documents /\ (\E x \in Captures : r.cmd = [c EXCEPT !.cap = x])
      /\ (r.ok => Back(c, p, RevertRemoveTrack(r.cmd, r.project)))
  BY <1>2 DEF Honours, LeavesDocument
<1>4. \A x : [c EXCEPT !.cap = x].op = "RemoveTrack"
  BY DEF TrackRemoves
<1>5. RevertCommand(r.cmd, r.project) = RevertRemoveTrack(r.cmd, r.project)
  <2>1. r.cmd.op = "RemoveTrack"
    BY <1>3, <1>4
  <2> DEFINE d == r.cmd
  <2>2. d.op = "RemoveTrack"
    BY <2>1
  <2> HIDE DEF d
  <2>3. RevertCommand(d, r.project) = RevertRemoveTrack(d, r.project)
    BY <2>2, CalledByName
  <2>4. QED
    BY <2>3 DEF d
<1>6. ASSUME NEW x PROVE Repeated(r, ApplyCommand([c EXCEPT !.cap = x], p))
  <2> DEFINE d == [c EXCEPT !.cap = x]
  <2>1. d.op = "RemoveTrack" /\ Repeated(ApplyRemoveTrack(c, p), ApplyRemoveTrack(d, p))
    BY <1>4, RemoveTrackAgain
  <2> HIDE DEF d
  <2>2. ApplyCommand(d, p) = ApplyRemoveTrack(d, p)
    BY <2>1, CalledByName
  <2>3. QED
    BY <1>1, <2>1, <2>2 DEF d
<1>7. QED
  BY <1>3, <1>5, <1>6 DEF Faithful

LEMMA SetTrackMutedFaithful ==
  ASSUME NEW p \in Documents, NEW c \in Mutes, c.op = "SetTrackMuted", NEW r, r = ApplyCommand(c, p)
  PROVE  Faithful(c, p, r)
<1>1. r = ApplySetTrackMuted(c, p)
  BY CalledByName
<1>2. Honours(c, p, r, RevertSetTrackMuted(r.cmd, r.project))
  BY <1>1, MuteGoesBack
<1>3. r.project \in Documents /\ (\E x \in Captures : r.cmd = [c EXCEPT !.cap = x])
      /\ (r.ok => Back(c, p, RevertSetTrackMuted(r.cmd, r.project)))
  BY <1>2 DEF Honours, LeavesDocument
<1>4. \A x : [c EXCEPT !.cap = x].op = "SetTrackMuted"
  BY DEF Mutes
<1>5. RevertCommand(r.cmd, r.project) = RevertSetTrackMuted(r.cmd, r.project)
  <2>1. r.cmd.op = "SetTrackMuted"
    BY <1>3, <1>4
  <2> DEFINE d == r.cmd
  <2>2. d.op = "SetTrackMuted"
    BY <2>1
  <2> HIDE DEF d
  <2>3. RevertCommand(d, r.project) = RevertSetTrackMuted(d, r.project)
    BY <2>2, CalledByName
  <2>4. QED
    BY <2>3 DEF d
<1>6. ASSUME NEW x PROVE Repeated(r, ApplyCommand([c EXCEPT !.cap = x], p))
  <2> DEFINE d == [c EXCEPT !.cap = x]
  <2>1. d.op = "SetTrackMuted" /\ Repeated(ApplySetTrackMuted(c, p), ApplySetTrackMuted(d, p))
    BY <1>4, SetTrackMutedAgain
  <2> HIDE DEF d
  <2>2. ApplyCommand(d, p) = ApplySetTrackMuted(d, p)
    BY <2>1, CalledByName
  <2>3. QED
    BY <1>1, <2>1, <2>2 DEF d
<1>7. QED
  BY <1>3, <1>5, <1>6 DEF Faithful

LEMMA AddMarkerFaithful ==
  ASSUME NEW p \in Documents, NEW c \in MarkerAdds, c.op = "AddMarker", NEW r, r = ApplyCommand(c, p)
  PROVE  Faithful(c, p, r)
<1>1. r = ApplyAddMarker(c, p)
  BY CalledByName
<1>2. Honours(c, p, r, RevertAddMarker(r.cmd, r.project))
  BY <1>1, AddMarkerGoesBack
<1>3. r.project \in Documents /\ (\E x \in Captures : r.cmd = [c EXCEPT !.cap = x])
      /\ (r.ok => Back(c, p, RevertAddMarker(r.cmd, r.project)))
  BY <1>2 DEF Honours, LeavesDocument
<1>4. \A x : [c EXCEPT !.cap = x].op = "AddMarker"
  BY DEF MarkerAdds
<1>5. RevertCommand(r.cmd, r.project) = RevertAddMarker(r.cmd, r.project)
  <2>1. r.cmd.op = "AddMarker"
    BY <1>3, <1>4
  <2> DEFINE d == r.cmd
  <2>2. d.op = "AddMarker"
    BY <2>1
  <2> HIDE DEF d
  <2>3. RevertCommand(d, r.project) = RevertAddMarker(d, r.project)
    BY <2>2, CalledByName
  <2>4. QED
    BY <2>3 DEF d
<1>6. ASSUME NEW x PROVE Repeated(r, ApplyCommand([c EXCEPT !.cap = x], p))
  <2> DEFINE d == [c EXCEPT !.cap = x]
  <2>1. d.op = "AddMarker" /\ Repeated(ApplyAddMarker(c, p), ApplyAddMarker(d, p))
    BY <1>4, AddMarkerAgain
  <2> HIDE DEF d
  <2>2. ApplyCommand(d, p) = ApplyAddMarker(d, p)
    BY <2>1, CalledByName
  <2>3. QED
    BY <1>1, <2>1, <2>2 DEF d
<1>7. QED
  BY <1>3, <1>5, <1>6 DEF Faithful

LEMMA RemoveMarkerFaithful ==
  ASSUME NEW p \in Documents, NEW c \in MarkerRemoves, c.op = "RemoveMarker", NEW r, r = ApplyCommand(c, p)
  PROVE  Faithful(c, p, r)
<1>1. r = ApplyRemoveMarker(c, p)
  BY CalledByName
<1>2. Honours(c, p, r, RevertRemoveMarker(r.cmd, r.project))
  BY <1>1, RemoveMarkerGoesBack
<1>3. r.project \in Documents /\ (\E x \in Captures : r.cmd = [c EXCEPT !.cap = x])
      /\ (r.ok => Back(c, p, RevertRemoveMarker(r.cmd, r.project)))
  BY <1>2 DEF Honours, LeavesDocument
<1>4. \A x : [c EXCEPT !.cap = x].op = "RemoveMarker"
  BY DEF MarkerRemoves
<1>5. RevertCommand(r.cmd, r.project) = RevertRemoveMarker(r.cmd, r.project)
  <2>1. r.cmd.op = "RemoveMarker"
    BY <1>3, <1>4
  <2> DEFINE d == r.cmd
  <2>2. d.op = "RemoveMarker"
    BY <2>1
  <2> HIDE DEF d
  <2>3. RevertCommand(d, r.project) = RevertRemoveMarker(d, r.project)
    BY <2>2, CalledByName
  <2>4. QED
    BY <2>3 DEF d
<1>6. ASSUME NEW x PROVE Repeated(r, ApplyCommand([c EXCEPT !.cap = x], p))
  <2> DEFINE d == [c EXCEPT !.cap = x]
  <2>1. d.op = "RemoveMarker" /\ Repeated(ApplyRemoveMarker(c, p), ApplyRemoveMarker(d, p))
    BY <1>4, RemoveMarkerAgain
  <2> HIDE DEF d
  <2>2. ApplyCommand(d, p) = ApplyRemoveMarker(d, p)
    BY <2>1, CalledByName
  <2>3. QED
    BY <1>1, <2>1, <2>2 DEF d
<1>7. QED
  BY <1>3, <1>5, <1>6 DEF Faithful

LEMMA SetTextContentFaithful ==
  ASSUME NEW p \in Documents, NEW c \in Wordings, c.op = "SetTextContent", NEW r, r = ApplyCommand(c, p)
  PROVE  Faithful(c, p, r)
<1>1. r = ApplySetTextContent(c, p)
  BY CalledByName
<1>2. Honours(c, p, r, RevertSetTextContent(r.cmd, r.project))
  BY <1>1, WordsGoBack
<1>3. r.project \in Documents /\ (\E x \in Captures : r.cmd = [c EXCEPT !.cap = x])
      /\ (r.ok => Back(c, p, RevertSetTextContent(r.cmd, r.project)))
  BY <1>2 DEF Honours, LeavesDocument
<1>4. \A x : [c EXCEPT !.cap = x].op = "SetTextContent"
  BY DEF Wordings
<1>5. RevertCommand(r.cmd, r.project) = RevertSetTextContent(r.cmd, r.project)
  <2>1. r.cmd.op = "SetTextContent"
    BY <1>3, <1>4
  <2> DEFINE d == r.cmd
  <2>2. d.op = "SetTextContent"
    BY <2>1
  <2> HIDE DEF d
  <2>3. RevertCommand(d, r.project) = RevertSetTextContent(d, r.project)
    BY <2>2, CalledByName
  <2>4. QED
    BY <2>3 DEF d
<1>6. ASSUME NEW x PROVE Repeated(r, ApplyCommand([c EXCEPT !.cap = x], p))
  <2> DEFINE d == [c EXCEPT !.cap = x]
  <2>1. d.op = "SetTextContent" /\ Repeated(ApplySetTextContent(c, p), ApplySetTextContent(d, p))
    BY <1>4, SetTextContentAgain
  <2> HIDE DEF d
  <2>2. ApplyCommand(d, p) = ApplySetTextContent(d, p)
    BY <2>1, CalledByName
  <2>3. QED
    BY <1>1, <2>1, <2>2 DEF d
<1>7. QED
  BY <1>3, <1>5, <1>6 DEF Faithful

LEMMA SetTextStyleFaithful ==
  ASSUME NEW p \in Documents, NEW c \in Styles, c.op = "SetTextStyle", NEW r, r = ApplyCommand(c, p)
  PROVE  Faithful(c, p, r)
<1>1. r = ApplySetTextStyle(c, p)
  BY CalledByName
<1>2. Honours(c, p, r, RevertSetTextStyle(r.cmd, r.project))
  BY <1>1, StyleGoesBack
<1>3. r.project \in Documents /\ (\E x \in Captures : r.cmd = [c EXCEPT !.cap = x])
      /\ (r.ok => Back(c, p, RevertSetTextStyle(r.cmd, r.project)))
  BY <1>2 DEF Honours, LeavesDocument
<1>4. \A x : [c EXCEPT !.cap = x].op = "SetTextStyle"
  BY DEF Styles
<1>5. RevertCommand(r.cmd, r.project) = RevertSetTextStyle(r.cmd, r.project)
  <2>1. r.cmd.op = "SetTextStyle"
    BY <1>3, <1>4
  <2> DEFINE d == r.cmd
  <2>2. d.op = "SetTextStyle"
    BY <2>1
  <2> HIDE DEF d
  <2>3. RevertCommand(d, r.project) = RevertSetTextStyle(d, r.project)
    BY <2>2, CalledByName
  <2>4. QED
    BY <2>3 DEF d
<1>6. ASSUME NEW x PROVE Repeated(r, ApplyCommand([c EXCEPT !.cap = x], p))
  <2> DEFINE d == [c EXCEPT !.cap = x]
  <2>1. d.op = "SetTextStyle" /\ Repeated(ApplySetTextStyle(c, p), ApplySetTextStyle(d, p))
    BY <1>4, SetTextStyleAgain
  <2> HIDE DEF d
  <2>2. ApplyCommand(d, p) = ApplySetTextStyle(d, p)
    BY <2>1, CalledByName
  <2>3. QED
    BY <1>1, <2>1, <2>2 DEF d
<1>7. QED
  BY <1>3, <1>5, <1>6 DEF Faithful

LEMMA SetCaptionTextFaithful ==
  ASSUME NEW p \in Documents, NEW c \in Wordings, c.op = "SetCaptionText", NEW r, r = ApplyCommand(c, p)
  PROVE  Faithful(c, p, r)
<1>1. r = ApplySetCaptionText(c, p)
  BY CalledByName
<1>2. Honours(c, p, r, RevertSetCaptionText(r.cmd, r.project))
  BY <1>1, CueWordsGoBack
<1>3. r.project \in Documents /\ (\E x \in Captures : r.cmd = [c EXCEPT !.cap = x])
      /\ (r.ok => Back(c, p, RevertSetCaptionText(r.cmd, r.project)))
  BY <1>2 DEF Honours, LeavesDocument
<1>4. \A x : [c EXCEPT !.cap = x].op = "SetCaptionText"
  BY DEF Wordings
<1>5. RevertCommand(r.cmd, r.project) = RevertSetCaptionText(r.cmd, r.project)
  <2>1. r.cmd.op = "SetCaptionText"
    BY <1>3, <1>4
  <2> DEFINE d == r.cmd
  <2>2. d.op = "SetCaptionText"
    BY <2>1
  <2> HIDE DEF d
  <2>3. RevertCommand(d, r.project) = RevertSetCaptionText(d, r.project)
    BY <2>2, CalledByName
  <2>4. QED
    BY <2>3 DEF d
<1>6. ASSUME NEW x PROVE Repeated(r, ApplyCommand([c EXCEPT !.cap = x], p))
  <2> DEFINE d == [c EXCEPT !.cap = x]
  <2>1. d.op = "SetCaptionText" /\ Repeated(ApplySetCaptionText(c, p), ApplySetCaptionText(d, p))
    BY <1>4, SetCaptionTextAgain
  <2> HIDE DEF d
  <2>2. ApplyCommand(d, p) = ApplySetCaptionText(d, p)
    BY <2>1, CalledByName
  <2>3. QED
    BY <1>1, <2>1, <2>2 DEF d
<1>7. QED
  BY <1>3, <1>5, <1>6 DEF Faithful

LEMMA RetimeCaptionCueFaithful ==
  ASSUME NEW p \in Documents, NEW c \in Retimes, c.op = "RetimeCaptionCue", NEW r, r = ApplyCommand(c, p)
  PROVE  Faithful(c, p, r)
<1>1. r = ApplyRetimeCaptionCue(c, p)
  BY CalledByName
<1>2. Honours(c, p, r, RevertTrack(r.cmd, r.project))
  BY <1>1, RetimeGoesBack
<1>3. r.project \in Documents /\ (\E x \in Captures : r.cmd = [c EXCEPT !.cap = x])
      /\ (r.ok => Back(c, p, RevertTrack(r.cmd, r.project)))
  BY <1>2 DEF Honours, LeavesDocument
<1>4. \A x : [c EXCEPT !.cap = x].op = "RetimeCaptionCue"
  BY DEF Retimes
<1>5. RevertCommand(r.cmd, r.project) = RevertTrack(r.cmd, r.project)
  <2>1. r.cmd.op = "RetimeCaptionCue"
    BY <1>3, <1>4
  <2> DEFINE d == r.cmd
  <2>2. d.op = "RetimeCaptionCue"
    BY <2>1
  <2> HIDE DEF d
  <2>3. RevertCommand(d, r.project) = RevertTrack(d, r.project)
    BY <2>2, CalledByName
  <2>4. QED
    BY <2>3 DEF d
<1>6. ASSUME NEW x PROVE Repeated(r, ApplyCommand([c EXCEPT !.cap = x], p))
  <2> DEFINE d == [c EXCEPT !.cap = x]
  <2>1. d.op = "RetimeCaptionCue" /\ Repeated(ApplyRetimeCaptionCue(c, p), ApplyRetimeCaptionCue(d, p))
    BY <1>4, RetimeCaptionCueAgain
  <2> HIDE DEF d
  <2>2. ApplyCommand(d, p) = ApplyRetimeCaptionCue(d, p)
    BY <2>1, CalledByName
  <2>3. QED
    BY <1>1, <2>1, <2>2 DEF d
<1>7. QED
  BY <1>3, <1>5, <1>6 DEF Faithful

LEMMA SetProjectSettingsFaithful ==
  ASSUME NEW p \in Documents, NEW c \in SettingsCalls, c.op = "SetProjectSettings", NEW r, r = ApplyCommand(c, p)
  PROVE  Faithful(c, p, r)
<1>1. r = ApplySetProjectSettings(c, p)
  BY CalledByName
<1>2. Honours(c, p, r, RevertSetProjectSettings(r.cmd, r.project))
  BY <1>1, SettingsGoBack
<1>3. r.project \in Documents /\ (\E x \in Captures : r.cmd = [c EXCEPT !.cap = x])
      /\ (r.ok => Back(c, p, RevertSetProjectSettings(r.cmd, r.project)))
  BY <1>2 DEF Honours, LeavesDocument
<1>4. \A x : [c EXCEPT !.cap = x].op = "SetProjectSettings"
  BY DEF SettingsCalls
<1>5. RevertCommand(r.cmd, r.project) = RevertSetProjectSettings(r.cmd, r.project)
  <2>1. r.cmd.op = "SetProjectSettings"
    BY <1>3, <1>4
  <2> DEFINE d == r.cmd
  <2>2. d.op = "SetProjectSettings"
    BY <2>1
  <2> HIDE DEF d
  <2>3. RevertCommand(d, r.project) = RevertSetProjectSettings(d, r.project)
    BY <2>2, CalledByName
  <2>4. QED
    BY <2>3 DEF d
<1>6. ASSUME NEW x PROVE Repeated(r, ApplyCommand([c EXCEPT !.cap = x], p))
  <2> DEFINE d == [c EXCEPT !.cap = x]
  <2>1. d.op = "SetProjectSettings" /\ Repeated(ApplySetProjectSettings(c, p), ApplySetProjectSettings(d, p))
    BY <1>4, SetProjectSettingsAgain
  <2> HIDE DEF d
  <2>2. ApplyCommand(d, p) = ApplySetProjectSettings(d, p)
    BY <2>1, CalledByName
  <2>3. QED
    BY <1>1, <2>1, <2>2 DEF d
<1>7. QED
  BY <1>3, <1>5, <1>6 DEF Faithful

LEMMA CommandName ==
  ASSUME NEW c \in EditCommands, NEW x
  PROVE  [c EXCEPT !.cap = x].op = c.op
<1> HIDE DEF Captures
<1>1. c \in ClipAdds \cup OfClips \cup Moves \cup Trims \cup Splits => [c EXCEPT !.cap = x].op = c.op
  BY DEF ClipAdds, OfClips, Moves, Trims, Splits
<1>2. c \in Reorders \cup Speeds \cup Looks \cup Layouts \cup Transitions => [c EXCEPT !.cap = x].op = c.op
  BY DEF Reorders, Speeds, Looks, Layouts, Transitions
<1>3. c \in TrackAdds \cup TrackRemoves \cup Mutes \cup MarkerAdds \cup MarkerRemoves => [c EXCEPT !.cap = x].op = c.op
  BY DEF TrackAdds, TrackRemoves, Mutes, MarkerAdds, MarkerRemoves
<1>4. c \in Wordings \cup Styles \cup Retimes \cup SettingsCalls => [c EXCEPT !.cap = x].op = c.op
  BY DEF Wordings, Styles, Retimes, SettingsCalls
<1>5. QED
  BY <1>1, <1>2, <1>3, <1>4 DEF EditCommands

LEMMA MayApplyAgain ==
  ASSUME NEW c \in EditCommands, NEW p, MayApply(c, p), NEW x, NEW d, d = [c EXCEPT !.cap = x]
  PROVE  MayApply(d, p)
<1>1. c \in ClipAdds => d.op = c.op /\ d.clip = c.clip
  BY DEF ClipAdds
<1>2. c \in Layouts => d.op = c.op /\ d.placements = c.placements
  BY DEF Layouts
<1>3. c \notin ClipAdds /\ c \notin Layouts => d.op # "AddClip" /\ d.op # "SetClipTransforms"
  <2>1. /\ c \in OfClips \cup Moves \cup Trims \cup Splits \cup Reorders \cup Speeds \cup Looks
            => d.op # "AddClip" /\ d.op # "SetClipTransforms"
        /\ c \in Transitions \cup TrackAdds \cup TrackRemoves \cup Mutes \cup MarkerAdds \cup MarkerRemoves
            => d.op # "AddClip" /\ d.op # "SetClipTransforms"
        /\ c \in Wordings \cup Styles \cup Retimes \cup SettingsCalls
            => d.op # "AddClip" /\ d.op # "SetClipTransforms"
    <3>1. d.op = c.op
      BY CommandName
    <3>2. QED
      BY <3>1 DEF OfClips, Moves, Trims, Splits, Reorders, Speeds, Looks, Transitions, TrackAdds, TrackRemoves, Mutes,
                  MarkerAdds, MarkerRemoves, Wordings, Styles, Retimes, SettingsCalls
  <2>2. QED
    BY <2>1 DEF EditCommands
<1>4. c \in ClipAdds => d.op # "SetClipTransforms"
  BY <1>1 DEF ClipAdds
<1>5. c \in Layouts => d.op # "AddClip"
  BY <1>2 DEF Layouts
<1>6. QED
  BY <1>1, <1>2, <1>3, <1>4, <1>5 DEF MayApply

LEMMA CommandsFaithful ==
  ASSUME NEW p \in Documents, NEW c \in EditCommands, MayApply(c, p), NEW r, r = ApplyCommand(c, p)
  PROVE  Faithful(c, p, r)
<1>1. CASE c \in ClipAdds
  <2>1. c.op = "AddClip"
    BY <1>1 DEF ClipAdds
  <2>2. QED
    BY <1>1, <2>1, AddClipFaithful DEF MayApply
<1>2. CASE c \in OfClips
  <2>1. c.op = "DeleteClip" \/ c.op = "RippleDelete" \/ c.op = "CloseGap"
    BY <1>2 DEF OfClips
  <2>2. QED
    BY <1>2, <2>1, DeleteClipFaithful, RippleDeleteFaithful, CloseGapFaithful
<1>3. CASE c \in Moves
  <2>1. c.op = "MoveClip"
    BY <1>3 DEF Moves
  <2>2. QED
    BY <1>3, <2>1, MoveClipFaithful
<1>4. CASE c \in Trims
  <2>1. c.op = "TrimClip" \/ c.op = "RippleTrim"
    BY <1>4 DEF Trims
  <2>2. QED
    BY <1>4, <2>1, TrimClipFaithful, RippleTrimFaithful
<1>5. CASE c \in Splits
  <2>1. c.op = "SplitClip"
    BY <1>5 DEF Splits
  <2>2. QED
    BY <1>5, <2>1, SplitClipFaithful
<1>6. CASE c \in Reorders
  <2>1. c.op = "ReorderClips"
    BY <1>6 DEF Reorders
  <2>2. QED
    BY <1>6, <2>1, ReorderClipsFaithful
<1>7. CASE c \in Speeds
  <2>1. c.op = "SetClipProperties"
    BY <1>7 DEF Speeds
  <2>2. QED
    BY <1>7, <2>1, SetClipPropertiesFaithful
<1>8. CASE c \in Looks
  <2>1. c.op = "SetClipProperty"
    BY <1>8 DEF Looks
  <2>2. QED
    BY <1>8, <2>1, SetClipPropertyFaithful
<1>9. CASE c \in Layouts
  <2>1. c.op = "SetClipTransforms"
    BY <1>9 DEF Layouts
  <2>2. QED
    BY <1>9, <2>1, SetClipTransformsFaithful DEF MayApply
<1>10. CASE c \in Transitions
  <2>1. c.op = "SetTransition"
    BY <1>10 DEF Transitions
  <2>2. QED
    BY <1>10, <2>1, SetTransitionFaithful
<1>11. CASE c \in TrackAdds
  <2>1. c.op = "AddTrack"
    BY <1>11 DEF TrackAdds
  <2>2. QED
    BY <1>11, <2>1, AddTrackFaithful
<1>12. CASE c \in TrackRemoves
  <2>1. c.op = "RemoveTrack"
    BY <1>12 DEF TrackRemoves
  <2>2. QED
    BY <1>12, <2>1, RemoveTrackFaithful
<1>13. CASE c \in Mutes
  <2>1. c.op = "SetTrackMuted"
    BY <1>13 DEF Mutes
  <2>2. QED
    BY <1>13, <2>1, SetTrackMutedFaithful
<1>14. CASE c \in MarkerAdds
  <2>1. c.op = "AddMarker"
    BY <1>14 DEF MarkerAdds
  <2>2. QED
    BY <1>14, <2>1, AddMarkerFaithful
<1>15. CASE c \in MarkerRemoves
  <2>1. c.op = "RemoveMarker"
    BY <1>15 DEF MarkerRemoves
  <2>2. QED
    BY <1>15, <2>1, RemoveMarkerFaithful
<1>16. CASE c \in Wordings
  <2>1. c.op = "SetTextContent" \/ c.op = "SetCaptionText"
    BY <1>16 DEF Wordings
  <2>2. QED
    BY <1>16, <2>1, SetTextContentFaithful, SetCaptionTextFaithful
<1>17. CASE c \in Styles
  <2>1. c.op = "SetTextStyle"
    BY <1>17 DEF Styles
  <2>2. QED
    BY <1>17, <2>1, SetTextStyleFaithful
<1>18. CASE c \in Retimes
  <2>1. c.op = "RetimeCaptionCue"
    BY <1>18 DEF Retimes
  <2>2. QED
    BY <1>18, <2>1, RetimeCaptionCueFaithful
<1>19. CASE c \in SettingsCalls
  <2>1. c.op = "SetProjectSettings"
    BY <1>19 DEF SettingsCalls
  <2>2. QED
    BY <1>19, <2>1, SetProjectSettingsFaithful
<1>20. QED
  BY <1>1, <1>2, <1>3, <1>4, <1>5, <1>6, <1>7, <1>8, <1>9, <1>10, <1>11, <1>12, <1>13, <1>14, <1>15, <1>16, <1>17, <1>18, <1>19 DEF EditCommands

-----------------------------------------------------------------------------------
(* The engine with these commands: it is offered none that may not be applied.      *)
EditedByCommands ==
  /\ Projects = Documents /\ Commands = EditCommands /\ Initial \subseteq Documents
  /\ \A c \in EditCommands, p \in Documents :
       /\ Apply(c, p) = ApplyCommand(c, p) /\ Revert(c, p) = RevertCommand(c, p)
       /\ Legal(c, p) <=> MayApply(c, p)
  /\ \A p \in Documents : \A c \in Offered(p) : c \in EditCommands /\ MayApply(c, p)

LEMMA Reapplied ==
  ASSUME EditedByCommands, NEW p \in Documents, NEW c \in EditCommands, MayApply(c, p), NEW d \in EditCommands,
         NEW x, d = [c EXCEPT !.cap = x], NEW r, r = ApplyCommand(c, p), r.ok, Faithful(c, p, r)
  PROVE  Repeats(d, p, r.project)
<1>1. ApplyCommand(d, p).ok /\ ApplyCommand(d, p).project = r.project
  BY DEF Faithful, Repeated
<1>2. MayApply(d, p)
  BY MayApplyAgain
<1>3. Apply(d, p) = ApplyCommand(d, p) /\ Legal(d, p)
  BY <1>2 DEF EditedByCommands
<1>4. QED
  BY <1>1, <1>3 DEF Repeats, Redoes

(* Every apply() and revert() of the command files keeps the contract of            *)
(* EditCommand.hpp, for any document, however damaged, and any arguments: a success *)
(* is reverted to the very document it was applied to and repeats after it, a       *)
(* refusal has changed nothing.  What it takes is that AddClip brings an identifier *)
(* the document does not hold and that a layout names no clip twice.                *)
THEOREM CommandsHonourContract ==
  ASSUME EditedByCommands
  PROVE  Contract
<1>1. ASSUME NEW p \in Documents, NEW c \in EditCommands, MayApply(c, p)
      PROVE  LET r == ApplyCommand(c, p) IN
               /\ r.project \in Documents /\ r.cmd \in EditCommands
               /\ r.ok => Reverses(r.cmd, r.project, p)
  <2> DEFINE r == ApplyCommand(c, p)
             u == RevertCommand(r.cmd, r.project)
  <2>1. Faithful(c, p, r)
    <3> HIDE DEF r
    <3>1. r = ApplyCommand(c, p)
      BY DEF r
    <3>2. QED
      BY <1>1, <3>1, CommandsFaithful
  <2>2. r.project \in Documents /\ (\E x \in Captures : r.cmd = [c EXCEPT !.cap = x])
        /\ (r.ok => Back(c, p, u))
    <3> HIDE DEF r
    <3>1. QED
      BY <2>1 DEF Faithful
  <2>3. r = ApplyCommand(c, p)
    OBVIOUS
  <2> HIDE DEF r
  <2>4. r.cmd \in EditCommands
    BY <2>2, Recaptured
  <2>5. ASSUME r.ok PROVE Reverses(r.cmd, r.project, p)
    <3>1. u.ok /\ u.project = p /\ \E x \in Captures : u.cmd = [c EXCEPT !.cap = x]
      BY <2>2, <2>5 DEF Back
    <3>2. PICK x \in Captures : u.cmd = [c EXCEPT !.cap = x]
      BY <3>1
    <3> DEFINE d == [c EXCEPT !.cap = x]
    <3>3. d \in EditCommands
      BY Recaptured
    <3>4. d = [c EXCEPT !.cap = x]
      OBVIOUS
    <3> HIDE DEF d
    <3>5. Repeats(d, p, r.project)
      BY <1>1, <2>1, <2>3, <2>5, <3>3, <3>4, Reapplied
    <3>6. Revert(r.cmd, r.project) = u
      BY <2>2, <2>4 DEF EditedByCommands
    <3> HIDE DEF u
    <3>7. Commands = EditCommands /\ u.cmd = d
      BY <3>2 DEF EditedByCommands, d
    <3>8. QED
      BY <3>1, <3>3, <3>5, <3>6, <3>7 DEF Reverses
  <2>6. QED
    BY <2>2, <2>4, <2>5 DEF r
<1>2. Projects = Documents /\ Commands = EditCommands /\ Initial \subseteq Projects
  BY DEF EditedByCommands
<1>3. \A p \in Projects : \A c \in Offered(p) : c \in Commands /\ Legal(c, p)
  BY DEF EditedByCommands
<1>4. ASSUME NEW p \in Projects, NEW c \in Commands, Legal(c, p)
      PROVE  LET r == Apply(c, p) IN
               /\ r.project \in Projects /\ r.cmd \in Commands
               /\ r.ok => Reverses(r.cmd, r.project, p)
  <2>1. p \in Documents /\ c \in EditCommands /\ MayApply(c, p) /\ Apply(c, p) = ApplyCommand(c, p)
    BY <1>2, <1>4 DEF EditedByCommands
  <2>2. QED
    BY <1>1, <1>2, <2>1
<1>5. QED
  BY <1>2, <1>3, <1>4 DEF Contract

(* The editor's undo and redo are exact, at any depth: the engine with the edit     *)
(* commands of the repository, nothing assumed of them.                             *)
THEOREM CommandsExact ==
  ASSUME EditedByCommands
  PROVE  Spec => []HistoryExact
BY CommandsHonourContract, EngineExact

-----------------------------------------------------------------------------------
(* What edits keep. *)

(* A trim of the start of a clip.                                                  *)
LEMMA UnitLength ==
  ASSUME NEW span \in Int
  PROVE  TimelineLengthForSource(span, UnitSpeed) = span
<1>1. (4 * span + 2) \div 4 = span
  OBVIOUS
<1>2. TimelineLengthForSource(span, UnitSpeed) = (4 * span + 2) \div 4
  BY DEF TimelineLengthForSource, UnitSpeed
<1>3. QED
  BY <1>1, <1>2

LEMMA UnitEnd ==
  ASSUME NEW clip \in AnyClip, clip.speed = UnitSpeed
  PROVE  /\ clip.start \in Int /\ clip.in \in Int /\ clip.out \in Int
         /\ End(clip) = clip.start + (clip.out - clip.in)
<1>1. clip.start \in Int /\ clip.in \in Int /\ clip.out \in Int
  BY DEF AnyClip
<1>2. clip.out - clip.in \in Int
  BY <1>1
<1>3. TimelineLengthForSource(clip.out - clip.in, UnitSpeed) = clip.out - clip.in
  BY <1>2, UnitLength
<1>4. QED
  BY <1>1, <1>3 DEF End, Duration

LEMMA StartTrimKeepsEnd ==
  ASSUME NEW old \in AnyClip, old.speed = UnitSpeed, NEW boundary \in Int,
         NEW new, new = TrimmedClip(old, "start", boundary), new.start > 0
  PROVE  End(new) = End(old)
<1>1. new \in AnyClip
  <2>1. SpanChanged(old, TrimmedClip(old, "start", boundary))
    BY Trimmed
  <2>2. QED
    BY <2>1 DEF SpanChanged
<1> DEFINE newIn == Clamp(boundary, 0, old.out - OneFrame(old.speed))
<1>2. new = [old EXCEPT !.in = newIn, !.start = Max({0, old.start + newIn - old.in})]
  BY DEF TrimmedClip
<1> HIDE DEF newIn
<1>3. /\ new.in = newIn /\ new.out = old.out /\ new.speed = UnitSpeed
      /\ new.start = Max({0, old.start + newIn - old.in})
  BY <1>2 DEF AnyClip
<1>4. \A z \in Int : Max({0, z}) > 0 => Max({0, z}) = z
  BY DEF Max
<1>5. old.start \in Int /\ old.in \in Int /\ old.out \in Int /\ End(old) = old.start + (old.out - old.in)
  BY UnitEnd
<1>6. new.start \in Int /\ new.in \in Int /\ new.out \in Int /\ End(new) = new.start + (new.out - new.in)
  BY <1>1, <1>3, UnitEnd
<1>7. new.start = old.start + newIn - old.in
  <2> DEFINE z == old.start + newIn - old.in
  <2>1. z \in Int
    BY <1>3, <1>5, <1>6
  <2> HIDE DEF z
  <2>2. new.start = Max({0, z})
    BY <1>3 DEF z
  <2>3. new.start = z
    BY <1>4, <2>1, <2>2
  <2>4. QED
    BY <2>3 DEF z
<1>8. QED
  BY <1>3, <1>5, <1>6, <1>7

LEMMA TrimPlaced ==
  ASSUME NEW p \in Documents, NEW c \in Trims, NEW r, r = ApplyTrimClip(c, p), r.ok
  PROVE  LET old == ClipAt(p, FindClip(p, c.clip)) IN
           /\ old \in AnyClip
           /\ ClipAt(r.project, FindClip(r.project, c.clip)) = TrimmedClip(old, c.edge, c.boundary)
<1> DEFINE at == FindClip(p, c.clip)
           old == ClipAt(p, at)
           new == TrimmedClip(old, c.edge, c.boundary)
<1>1. ClipPlaces(p, c.clip) # {} /\ r.project = SetClip(p, at, new)
  BY DEF ApplyTrimClip, Refused, Done
<1>2. old \in AnyClip /\ old.id = c.clip /\ at \in ClipPlaces(p, c.clip)
  BY <1>1, TheClip, ClipFound
<1>3. c.edge \in {"start", "end"} /\ c.boundary \in Int
  BY DEF Trims
<1> HIDE DEF at, old
<1>4. new \in AnyClip /\ new.id = old.id
  <2>1. SpanChanged(old, TrimmedClip(old, c.edge, c.boundary))
    BY <1>2, <1>3, Trimmed
  <2>2. QED
    BY <2>1 DEF SpanChanged
<1> HIDE DEF new
<1>5. Exchanged(p, at, new)
  BY <1>2, <1>4, ClipSet
<1>6. ClipAt(r.project, at) = new /\ FindClip(r.project, c.clip) = FindClip(p, c.clip)
  BY <1>1, <1>5 DEF Exchanged
<1>7. QED
  BY <1>2, <1>6 DEF at, old, new

-----------------------------------------------------------------------------------
(* The step that applied an edit.                                                  *)
LEMMA TrimByName ==
  ASSUME NEW c \in EditCommands, c.op \in {"TrimClip", "RippleTrim"}
  PROVE  c \in Trims
<1> HIDE DEF Captures
<1>1. c \notin ClipAdds \cup OfClips \cup Moves \cup Splits
  BY DEF ClipAdds, OfClips, Moves, Splits
<1>2. c \notin Reorders \cup Speeds \cup Looks \cup Layouts \cup Transitions
  BY DEF Reorders, Speeds, Looks, Layouts, Transitions
<1>3. c \notin TrackAdds \cup TrackRemoves \cup Mutes \cup MarkerAdds \cup MarkerRemoves
  BY DEF TrackAdds, TrackRemoves, Mutes, MarkerAdds, MarkerRemoves
<1>4. c \notin Wordings \cup Styles \cup Retimes \cup SettingsCalls
  BY DEF Wordings, Styles, Retimes, SettingsCalls
<1>5. QED
  BY <1>1, <1>2, <1>3, <1>4 DEF EditCommands

TheEdit(c, op) ==
  /\ c \in EditCommands /\ c.op = op /\ ApplyCommand(c, project).ok
  /\ project' = ApplyCommand(c, project).project
  /\ \E x \in Captures : ThisEdit = [c EXCEPT !.cap = x]

LEMMA AppliedOne ==
  ASSUME EditedByCommands, HistoryInv, NEW c \in Offered(project), ApplyOk(c), NEW op, Edited(op)
  PROVE  TheEdit(c, op)
<1>1. project \in Documents /\ undo \in Seq(EditCommands)
  BY DEF EditedByCommands, HistoryInv, TypeOK
<1>2. c \in EditCommands /\ MayApply(c, project)
  BY <1>1 DEF EditedByCommands
<1> DEFINE r == ApplyCommand(c, project)
<1>3. r = Apply(c, project)
  BY <1>1, <1>2 DEF EditedByCommands
<1>4. Faithful(c, project, r)
  <2> HIDE DEF r
  <2>1. r = ApplyCommand(c, project)
    BY DEF r
  <2>2. QED
    BY <1>1, <1>2, <2>1, CommandsFaithful
<1> HIDE DEF r
<1>5. PICK x \in Captures : r.cmd = [c EXCEPT !.cap = x]
  BY <1>4 DEF Faithful
<1>6. r.ok /\ project' = r.project /\ undo' = Newest(Append(undo, r.cmd))
  BY <1>3 DEF ApplyOk
<1>7. r.cmd \in EditCommands
  BY <1>2, <1>5, Recaptured
<1>8. Top(undo') = r.cmd
  <2> DEFINE s == Append(undo, r.cmd)
             cmd == r.cmd
  <2>1. s \in Seq(EditCommands) /\ Len(s) \in Nat \ {0} /\ s[Len(s)] = cmd
    BY <1>1, <1>7
  <2> HIDE DEF s, cmd
  <2>2. /\ Len(Newest(s)) = IF Len(s) > Bound THEN Bound ELSE Len(s)
        /\ \A i \in 1..Len(Newest(s)) : Newest(s)[i] = s[i + (Len(s) - Len(Newest(s)))]
    BY <2>1, NewestFacts
  <2> DEFINE n == Len(Newest(s))
  <2>3. n \in Nat \ {0}
    BY <2>1, <2>2, BoundIsPositive
  <2> HIDE DEF n
  <2>4. n \in 1..n /\ n + (Len(s) - n) = Len(s)
    BY <2>1, <2>3
  <2>5. Newest(s)[n] = s[n + (Len(s) - n)]
    BY <2>2, <2>4 DEF n
  <2>6. Newest(s)[n] = cmd
    BY <2>1, <2>4, <2>5
  <2>7. QED
    BY <1>6, <2>6 DEF Top, n, s, cmd
<1>9. c.op = op
  <2>1. r.cmd.op = op
    BY <1>8 DEF Edited
  <2>2. QED
    BY <1>2, <1>5, <2>1, CommandName
<1>10. QED
  BY <1>2, <1>5, <1>6, <1>8, <1>9 DEF TheEdit, ThisEdit, r

LEMMA EditStep ==
  ASSUME EditedByCommands, HistoryInv, [Next]_vars, NEW op, Edited(op)
  PROVE  \E c : TheEdit(c, op)
<1>1. reply'.origin = "Apply" /\ undo' # undo
  BY DEF Edited
<1>2. CASE \E c \in Offered(project) : ApplyOk(c)
  BY <1>2, AppliedOne
<1>3. ASSUME NEW c \in Offered(project), ApplyRejected(c) PROVE FALSE
  BY <1>1, <1>3 DEF ApplyRejected
<1>4. ASSUME Undo PROVE FALSE
  BY <1>1, <1>4 DEF Undo, Reply, Silent
<1>5. ASSUME Redo PROVE FALSE
  BY <1>1, <1>5 DEF Redo, Reply, Silent
<1>6. ASSUME NothingToDo PROVE FALSE
  BY <1>1, <1>6 DEF NothingToDo
<1>7. ASSUME NEW p \in Initial, Reset(p) \/ ResetRefused(p) PROVE FALSE
  BY <1>1, <1>7 DEF Reset, ResetRefused, Reply
<1>8. ASSUME UNCHANGED vars PROVE FALSE
  BY <1>1, <1>8 DEF vars
<1>9. QED
  BY <1>2, <1>3, <1>4, <1>5, <1>6, <1>7, <1>8 DEF Next, Edit, Walk, Load

LEMMA TrimStep ==
  ASSUME EditedByCommands, HistoryInv, [Next]_vars, Edited("TrimClip"), ThisEdit.edge = "start"
  PROVE  LET old == ClipAt(project, FindClip(project, ThisEdit.clip))
             new == ClipAt(project', FindClip(project', ThisEdit.clip))
         IN  old.speed = UnitSpeed /\ new.start > 0 => End(new) = End(old)
<1>1. PICK c : TheEdit(c, "TrimClip")
  BY EditStep
<1>2. c \in Trims /\ c.op = "TrimClip"
  BY <1>1, TrimByName DEF TheEdit
<1>3. ThisEdit.clip = c.clip /\ c.edge = "start" /\ c.boundary \in Int
  <2>1. PICK x \in Captures : ThisEdit = [c EXCEPT !.cap = x]
    BY <1>1 DEF TheEdit
  <2>2. [c EXCEPT !.cap = x].clip = c.clip /\ [c EXCEPT !.cap = x].edge = c.edge /\ c.boundary \in Int
    BY <1>2 DEF Trims
  <2>3. QED
    BY <2>1, <2>2
<1>4. project \in Documents
  BY DEF EditedByCommands, HistoryInv, TypeOK
<1> DEFINE r == ApplyTrimClip(c, project)
<1>5. r.ok /\ project' = r.project
  BY <1>1, <1>2, CalledByName DEF TheEdit
<1> DEFINE old == ClipAt(project, FindClip(project, c.clip))
           new == ClipAt(project', FindClip(project', c.clip))
<1>6. old \in AnyClip /\ new = TrimmedClip(old, c.edge, c.boundary)
  <2>1. r = ApplyTrimClip(c, project)
    OBVIOUS
  <2> HIDE DEF r
  <2>2. QED
    BY <1>2, <1>4, <1>5, <2>1, TrimPlaced
<1> HIDE DEF old, new
<1>7. old.speed = UnitSpeed /\ new.start > 0 => End(new) = End(old)
  BY <1>3, <1>6, StartTrimKeepsEnd
<1>8. QED
  BY <1>3, <1>7 DEF old, new

-----------------------------------------------------------------------------------
(* A ripple trim edits each clip of its group once.                                *)
LEMMA MembersOnce ==
  ASSUME NEW targets \in Seq(Data), NEW group \in Seq(Data), NEW id, IsInjective(targets)
  PROVE  IsInjective(AddGroup(targets, group, id))
<1> DEFINE n == Len(group)
<1>1. n \in Nat /\ \A k \in 1..n : group[k] \in Data
  OBVIOUS
<1>2. PICK h : MemberWalk(h, targets, group, n)
  BY MemberSteps
<1> HIDE DEF n
<1> DEFINE T == {k \in 0..n : IsInjective(h[k])}
<1>3. 0 \in T
  BY <1>1, <1>2 DEF MemberWalk
<1>4. ASSUME NEW k \in 0..n - 1, k \in T PROVE k + 1 \in T
  <2>1. k \in 0..n /\ k + 1 \in 0..n /\ k + 1 \in 1..n
    BY <1>1
  <2>2. h[k] \in Seq(Data) /\ IsInjective(h[k]) /\ h[k + 1] = AddMember(h[k], group[k + 1]) /\ group[k + 1] \in Data
    BY <1>1, <1>2, <1>4, <2>1 DEF MemberWalk
  <2> DEFINE s == h[k]
             e == group[k + 1]
  <2>3. s \in Seq(Data) /\ e \in Data /\ IsInjective(s)
    BY <2>2
  <2>4. h[k + 1] = AddMember(s, e)
    BY <2>2
  <2> HIDE DEF s, e
  <2>5. e \notin ToSet(s) => IsInjective(Append(s, e))
    BY <2>3, AppendedSet
  <2>6. IsInjective(h[k + 1])
    BY <2>3, <2>4, <2>5 DEF AddMember
  <2>7. QED
    BY <2>1, <2>6
<1> HIDE DEF T
<1>5. 0..n \subseteq T
  BY <1>1, <1>3, <1>4, Climb
<1>6. n \in T
  BY <1>1, <1>5
<1>7. IsInjective(FoldLeft(AddMember, targets, group))
  BY <1>2, <1>6 DEF MemberWalk, T
<1>8. QED
  BY <1>7 DEF AddGroup

LEMMA TargetsOnce ==
  ASSUME NEW p \in Documents, NEW id \in Data
  PROVE  IsInjective(RippleTargets(p, id))
<1> DEFINE n == Len(p.groups)
<1>1. n \in Nat
  BY GroupSteps
<1>2. \A k \in 1..n : p.groups[k] \in Seq(Data)
  BY DEF Documents, AnyDocument
<1>3. PICK h : GroupWalk(h, p, id, n)
  BY GroupSteps
<1> HIDE DEF n
<1> DEFINE T == {k \in 0..n : IsInjective(h[k])}
<1>4. 0 \in T
  <2>1. IsInjective(<<id>>)
    BY DEF IsInjective
  <2>2. QED
    BY <1>1, <1>3, <2>1 DEF GroupWalk
<1>5. ASSUME NEW k \in 0..n - 1, k \in T PROVE k + 1 \in T
  <2>1. k \in 0..n /\ k + 1 \in 0..n /\ k + 1 \in 1..n
    BY <1>1
  <2>2. h[k] \in Seq(Data) /\ IsInjective(h[k]) /\ h[k + 1] = AddGroup(h[k], p.groups[k + 1], id)
        /\ p.groups[k + 1] \in Seq(Data)
    BY <1>2, <1>3, <1>5, <2>1 DEF GroupWalk
  <2>3. IsInjective(h[k + 1])
    BY <2>2, MembersOnce
  <2>4. QED
    BY <2>1, <2>3
<1> HIDE DEF T
<1>6. 0..n \subseteq T
  BY <1>1, <1>4, <1>5, Climb
<1>7. n \in T
  BY <1>1, <1>6
<1>8. QED
  BY <1>3, <1>7 DEF GroupWalk, T

-----------------------------------------------------------------------------------
(* One clip of a track ripple trimmed.                                             *)
RippledClip(clip, edge, delta) ==
  IF edge = "end" THEN [clip EXCEPT !.out = @ + delta] ELSE [clip EXCEPT !.in = @ + delta, !.start = @ + delta]

Carried(edge, delta) == IF edge = "end" THEN delta ELSE 0

RippledTrack(clips, i, edge, delta) ==
  ShiftFrom(ReplaceAt(clips, i, RippledClip(clips[i], edge, delta)), i + 1, Carried(edge, delta))

SameTrack(new, clips) ==
  /\ new \in Seq(AnyClip) /\ Len(new) = Len(clips) /\ DOMAIN new = DOMAIN clips
  /\ \A k \in DOMAIN clips : new[k].id = clips[k].id

OneTrimmed(new, clips, i, edge, delta) ==
  /\ new[i] = RippledClip(clips[i], edge, delta)
  /\ i + 1 \in DOMAIN clips => new[i + 1].start = clips[i + 1].start + Carried(edge, delta)

LEMMA ClipRippled ==
  ASSUME NEW clip \in AnyClip, NEW edge, NEW delta \in Int
  PROVE  RippledClip(clip, edge, delta) \in AnyClip /\ RippledClip(clip, edge, delta).id = clip.id
<1>1. clip.out \in Int /\ clip.in \in Int /\ clip.start \in Int
  BY DEF AnyClip
<1>2. clip.out + delta \in Int /\ clip.in + delta \in Int /\ clip.start + delta \in Int
  BY <1>1
<1>3. [clip EXCEPT !.out = clip.out + delta] \in AnyClip /\ [clip EXCEPT !.out = clip.out + delta].id = clip.id
  BY <1>2 DEF AnyClip
<1>4. /\ [clip EXCEPT !.in = clip.in + delta, !.start = clip.start + delta] \in AnyClip
      /\ [clip EXCEPT !.in = clip.in + delta, !.start = clip.start + delta].id = clip.id
  BY <1>2 DEF AnyClip
<1>5. QED
  BY <1>3, <1>4 DEF RippledClip

LEMMA TrackRippled ==
  ASSUME NEW clips \in Seq(AnyClip), NEW i \in DOMAIN clips, NEW edge, NEW delta \in Int
  PROVE  /\ SameTrack(RippledTrack(clips, i, edge, delta), clips)
         /\ OneTrimmed(RippledTrack(clips, i, edge, delta), clips, i, edge, delta)
<1> DEFINE clip == RippledClip(clips[i], edge, delta)
           mid == ReplaceAt(clips, i, clip)
           by == Carried(edge, delta)
           new == ShiftFrom(mid, i + 1, by)
<1>1. i \in Nat /\ i + 1 \in Int /\ by \in Int /\ DOMAIN clips = 1..Len(clips) /\ Len(clips) \in Nat
      /\ \A k \in DOMAIN clips : clips[k] \in AnyClip
  BY DEF Carried
<1>2. clip \in AnyClip /\ clip.id = clips[i].id
  BY <1>1, ClipRippled
<1> HIDE DEF clip, by
<1>3. /\ mid \in Seq(AnyClip) /\ DOMAIN mid = DOMAIN clips /\ Len(mid) = Len(clips) /\ mid[i] = clip
      /\ \A k \in DOMAIN clips : k # i => mid[k] = clips[k]
  <2>1. mid = [clips EXCEPT ![i] = clip]
    BY DEF ReplaceAt
  <2> HIDE DEF mid
  <2>2. QED
    BY <1>1, <1>2, <2>1
<1> HIDE DEF mid
<1>4. /\ new \in Seq(AnyClip) /\ Len(new) = Len(mid) /\ DOMAIN new = DOMAIN mid
      /\ \A k \in DOMAIN mid : new[k] = IF k >= i + 1 THEN [mid[k] EXCEPT !.start = @ + by] ELSE mid[k]
  <2>1. new \in Seq(AnyClip) /\ Len(new) = Len(mid)
    BY <1>1, <1>3, Shifted
  <2>2. DOMAIN new = DOMAIN mid
        /\ \A k \in DOMAIN mid : new[k] = IF k >= i + 1 THEN [mid[k] EXCEPT !.start = @ + by] ELSE mid[k]
    BY DEF ShiftFrom
  <2>3. QED
    BY <2>1, <2>2
<1> HIDE DEF new
<1>5. \A x \in AnyClip : \A z : [x EXCEPT !.start = z].id = x.id /\ [x EXCEPT !.start = z].start = z
  BY DEF AnyClip
<1>6. \A k \in DOMAIN clips : new[k].id = clips[k].id
  <2>1. SUFFICES ASSUME NEW k \in DOMAIN clips PROVE new[k].id = clips[k].id
    OBVIOUS
  <2>2. mid[k] \in AnyClip /\ mid[k].id = clips[k].id
    BY <1>1, <1>2, <1>3
  <2>3. new[k].id = mid[k].id
    <3> DEFINE x == mid[k]
               z == x.start + by
    <3>1. new[k] = [x EXCEPT !.start = z] \/ new[k] = x
      BY <1>3, <1>4
    <3>2. x \in AnyClip
      BY <2>2
    <3> HIDE DEF x, z
    <3>3. [x EXCEPT !.start = z].id = x.id
      BY <3>2 DEF AnyClip
    <3> DEFINE later == [x EXCEPT !.start = z]
    <3>5. (new[k] = later \/ new[k] = x) /\ later.id = x.id
      BY <3>1, <3>3
    <3> HIDE DEF later
    <3>6. new[k].id = x.id
      BY <3>5
    <3>4. QED
      BY <3>6 DEF x
  <2>4. QED
    BY <2>2, <2>3
<1>7. new[i] = clip
  <2>1. i \in DOMAIN mid /\ ~(i >= i + 1)
    BY <1>1, <1>3
  <2>2. QED
    BY <1>3, <1>4, <2>1
<1>8. ASSUME i + 1 \in DOMAIN clips PROVE new[i + 1].start = clips[i + 1].start + by
  <2>1. i + 1 \in DOMAIN mid /\ i + 1 >= i + 1 /\ i + 1 # i
    BY <1>1, <1>3, <1>8
  <2>2. mid[i + 1] = clips[i + 1] /\ clips[i + 1] \in AnyClip
    BY <1>1, <1>3, <1>8, <2>1
  <2> DEFINE x == clips[i + 1]
  <2>3. new[i + 1] = [x EXCEPT !.start = x.start + by] /\ x \in AnyClip
    BY <1>4, <2>1, <2>2
  <2> HIDE DEF x
  <2>4. new[i + 1].start = x.start + by
    BY <1>5, <2>3
  <2>5. QED
    BY <2>4 DEF x
<1>9. SameTrack(new, clips)
  BY <1>3, <1>4, <1>6 DEF SameTrack
<1>10. OneTrimmed(new, clips, i, edge, delta)
  BY <1>7, <1>8 DEF OneTrimmed, clip, by
<1>11. QED
  BY <1>9, <1>10 DEF RippledTrack, new, mid, clip, by

(* The clips of a track may change as long as they stay where they are.            *)
StayPut(q, d) == \A x : ClipPlaces(q, x) = ClipPlaces(d, x) /\ FindClip(q, x) = FindClip(d, x)

LEMMA TrackReplaced ==
  ASSUME NEW d \in Documents, NEW t \in DOMAIN d.tracks, NEW new, SameTrack(new, d.tracks[t].clips)
  PROVE  /\ SetClips(d, t, new) \in Documents
         /\ DOMAIN SetClips(d, t, new).tracks = DOMAIN d.tracks
         /\ SetClips(d, t, new).tracks[t].clips = new
         /\ \A s \in DOMAIN d.tracks : s # t => SetClips(d, t, new).tracks[s] = d.tracks[s]
         /\ StayPut(SetClips(d, t, new), d)
<1> DEFINE q == SetClips(d, t, new)
<1>1. new \in Seq(AnyClip)
  BY DEF SameTrack
<1>2. /\ q \in Documents /\ DOMAIN q.tracks = DOMAIN d.tracks /\ q.tracks[t].clips = new
      /\ \A s \in DOMAIN d.tracks : s # t => q.tracks[s] = d.tracks[s]
  BY <1>1, ClipsSet
<1> HIDE DEF q
<1>3. /\ \A s \in DOMAIN d.tracks : DOMAIN q.tracks[s].clips = DOMAIN d.tracks[s].clips
      /\ \A s \in DOMAIN d.tracks : \A k \in DOMAIN d.tracks[s].clips : q.tracks[s].clips[k].id = d.tracks[s].clips[k].id
  BY <1>2 DEF SameTrack
<1>4. \A x : \A b : b \in ClipPlaces(q, x) => b \in ClipPlaces(d, x)
  <2>1. SUFFICES ASSUME NEW x, NEW b \in ClipPlaces(q, x) PROVE b \in ClipPlaces(d, x)
    OBVIOUS
  <2>2. b = <<b[1], b[2]>> /\ b[1] \in DOMAIN q.tracks /\ b[2] \in DOMAIN q.tracks[b[1]].clips
        /\ q.tracks[b[1]].clips[b[2]].id = x
    BY <1>2, Places DEF ClipAt
  <2>3. QED
    BY <1>2, <1>3, <2>2, Places
<1>5. \A x : \A b : b \in ClipPlaces(d, x) => b \in ClipPlaces(q, x)
  <2>1. SUFFICES ASSUME NEW x, NEW b \in ClipPlaces(d, x) PROVE b \in ClipPlaces(q, x)
    OBVIOUS
  <2>2. b = <<b[1], b[2]>> /\ b[1] \in DOMAIN d.tracks /\ b[2] \in DOMAIN d.tracks[b[1]].clips
        /\ d.tracks[b[1]].clips[b[2]].id = x
    BY Places DEF ClipAt
  <2>3. QED
    BY <1>2, <1>3, <2>2, Places
<1>6. ASSUME NEW x PROVE ClipPlaces(q, x) = ClipPlaces(d, x)
  <2>1. \A b : b \in ClipPlaces(q, x) <=> b \in ClipPlaces(d, x)
    BY <1>4, <1>5
  <2>2. QED
    BY <2>1
<1>7. \A x : FindClip(q, x) = FindClip(d, x)
  BY <1>6 DEF FindClip
<1>8. QED
  BY <1>2, <1>6, <1>7 DEF q, StayPut

LEMMA OneRippledAway ==
  ASSUME NEW d \in Documents, NEW id, NEW edge, NEW delta \in Int, NEW r, r = RippleOne(d, id, edge, delta), r.ok
  PROVE  /\ ClipPlaces(d, id) # {}
         /\ r.project = SetClips(d, FindClip(d, id)[1],
                          RippledTrack(d.tracks[FindClip(d, id)[1]].clips, FindClip(d, id)[2], edge, delta))
<1>1. ClipPlaces(d, id) # {}
  BY DEF RippleOne
<1>2. QED
  BY <1>1 DEF RippleOne, RippledTrack, RippledClip, Carried, ClipAt
-----------------------------------------------------------------------------------
(* The angles of a group, one after the other.                                     *)
Row(p, id) == FindClip(p, id)[1]

AngleRippled(d, p, id, edge, delta) ==
  /\ ClipPlaces(p, id) # {}
  /\ d.tracks[Row(p, id)].clips = RippledTrack(p.tracks[Row(p, id)].clips, FindClip(p, id)[2], edge, delta)

AnglesRippled(d, p, s, k, edge, delta) ==
  /\ d \in Documents /\ DOMAIN d.tracks = DOMAIN p.tracks /\ StayPut(d, p)
  /\ \A j \in 1..k : AngleRippled(d, p, s[j], edge, delta)
  /\ \A t \in DOMAIN p.tracks : (\A j \in 1..k : Row(p, s[j]) # t) => d.tracks[t].clips = p.tracks[t].clips

RowsApart(p, s) == \A i, j \in DOMAIN s : Row(p, s[i]) = Row(p, s[j]) => i = j

LEMMA NextAngle ==
  ASSUME NEW p \in Documents, NEW d, NEW s \in Seq(Data), NEW k \in Nat, k + 1 \in DOMAIN s, RowsApart(p, s),
         NEW edge, NEW delta \in Int, AnglesRippled(d, p, s, k, edge, delta),
         NEW r, r = RippleOne(d, s[k + 1], edge, delta), r.ok
  PROVE  AnglesRippled(r.project, p, s, k + 1, edge, delta)
<1> DEFINE id == s[k + 1]
           t == Row(p, id)
           i == FindClip(p, id)[2]
           new == RippledTrack(p.tracks[t].clips, i, edge, delta)
           q == r.project
<1>1. d \in Documents /\ DOMAIN d.tracks = DOMAIN p.tracks /\ StayPut(d, p)
  BY DEF AnglesRippled
<1>2. ClipPlaces(p, id) # {} /\ FindClip(d, id) = FindClip(p, id) /\ ClipPlaces(d, id) = ClipPlaces(p, id)
  <2> DEFINE x == id
  <2>1. r = RippleOne(d, x, edge, delta)
    OBVIOUS
  <2> HIDE DEF x
  <2>2. ClipPlaces(d, x) # {}
    BY <1>1, <2>1, OneRippledAway
  <2>3. ClipPlaces(p, x) # {} /\ FindClip(d, x) = FindClip(p, x) /\ ClipPlaces(d, x) = ClipPlaces(p, x)
    BY <1>1, <2>2 DEF StayPut
  <2>4. QED
    BY <2>3 DEF x
<1>3. t \in DOMAIN p.tracks /\ i \in DOMAIN p.tracks[t].clips
  BY <1>2, ClipFound, Places DEF Row
<1>4. \A j \in 1..k : j \in DOMAIN s /\ j # k + 1
  OBVIOUS
<1>5. \A j \in 1..k : Row(p, s[j]) # t
  BY <1>4 DEF RowsApart
<1>6. d.tracks[t].clips = p.tracks[t].clips
  BY <1>3, <1>5 DEF AnglesRippled
<1>7. q = SetClips(d, t, new)
  <2>1. q = SetClips(d, FindClip(d, id)[1],
                     RippledTrack(d.tracks[FindClip(d, id)[1]].clips, FindClip(d, id)[2], edge, delta))
    <3> DEFINE x == id
    <3>1. r = RippleOne(d, x, edge, delta)
      OBVIOUS
    <3> HIDE DEF x
    <3>2. r.project = SetClips(d, FindClip(d, x)[1],
                     RippledTrack(d.tracks[FindClip(d, x)[1]].clips, FindClip(d, x)[2], edge, delta))
      BY <1>1, <3>1, OneRippledAway
    <3>3. QED
      BY <3>2 DEF x
  <2>2. QED
    BY <1>2, <1>6, <2>1 DEF Row
<1>8. SameTrack(new, d.tracks[t].clips)
  <2> DEFINE clips == p.tracks[t].clips
  <2>1. clips \in Seq(AnyClip) /\ i \in DOMAIN clips /\ clips = d.tracks[t].clips
    BY <1>3, <1>6, DocumentFields
  <2>2. new = RippledTrack(clips, i, edge, delta)
    OBVIOUS
  <2> HIDE DEF clips, i, new
  <2>3. SameTrack(new, clips)
    BY <2>1, <2>2, TrackRippled
  <2>4. QED
    BY <2>1, <2>3
<1> HIDE DEF new, t, i
<1>9. /\ q \in Documents /\ DOMAIN q.tracks = DOMAIN d.tracks /\ q.tracks[t].clips = new
      /\ \A u \in DOMAIN d.tracks : u # t => q.tracks[u] = d.tracks[u]
      /\ StayPut(q, d)
  BY <1>1, <1>3, <1>7, <1>8, TrackReplaced
<1> HIDE DEF q, id
<1>10. StayPut(q, p)
  BY <1>1, <1>9 DEF StayPut
<1>11. ASSUME NEW j \in 1..k + 1 PROVE AngleRippled(q, p, s[j], edge, delta)
  <2>1. CASE j = k + 1
    BY <1>2, <1>9, <2>1 DEF AngleRippled, id, t, i, new
  <2>2. CASE j # k + 1
    <3>1. j \in 1..k
      BY <2>2
    <3>2. AngleRippled(d, p, s[j], edge, delta) /\ Row(p, s[j]) # t
      BY <1>5, <3>1 DEF AnglesRippled
    <3>3. Row(p, s[j]) \in DOMAIN d.tracks
      BY <1>1, <3>2, ClipFound, Places DEF AngleRippled, Row
    <3>4. q.tracks[Row(p, s[j])] = d.tracks[Row(p, s[j])]
      BY <1>9, <3>2, <3>3
    <3>5. QED
      BY <3>2, <3>4 DEF AngleRippled
  <2>3. QED
    BY <2>1, <2>2
<1>12. ASSUME NEW u \in DOMAIN p.tracks, \A j \in 1..k + 1 : Row(p, s[j]) # u
       PROVE  q.tracks[u].clips = p.tracks[u].clips
  <2>1. k + 1 \in 1..k + 1 /\ \A j \in 1..k : j \in 1..k + 1
    OBVIOUS
  <2>2. u # t /\ \A j \in 1..k : Row(p, s[j]) # u
    BY <1>12, <2>1 DEF t, id
  <2>3. d.tracks[u].clips = p.tracks[u].clips
    BY <2>2 DEF AnglesRippled
  <2>4. QED
    BY <1>1, <1>9, <2>2, <2>3
<1>13. AnglesRippled(q, p, s, k + 1, edge, delta)
  BY <1>1, <1>9, <1>10, <1>11, <1>12 DEF AnglesRippled
<1>14. QED
  BY <1>13 DEF q

LEMMA GroupRippled ==
  ASSUME NEW p \in Documents, NEW id \in Data, NEW edge, NEW delta \in Int, OnOwnTracks(p, Angles(p, id)),
         RippledAll(p, id, edge, delta).ok
  PROVE  AnglesRippled(RippledAll(p, id, edge, delta).project, p, RippleTargets(p, id), Len(RippleTargets(p, id)),
                       edge, delta)
<1> DEFINE s == RippleTargets(p, id)
           n == Len(s)
<1>1. n \in Nat
  BY RippleSteps
<1>2. PICK h : RippleWalk(h, p, id, edge, delta, n)
  BY RippleSteps
<1>3. s \in Seq(Data) /\ IsInjective(s) /\ DOMAIN s = 1..n
  BY TargetsTyped, TargetsOnce
<1>4. h[0] = [ok |-> TRUE, project |-> p] /\ RippledAll(p, id, edge, delta) = h[n]
      /\ \A k \in 0..n - 1 : h[k + 1] = IF h[k].ok THEN RippleOne(h[k].project, s[k + 1], edge, delta) ELSE h[k]
  BY <1>2 DEF RippleWalk
<1>5. \A x, y \in ToSet(s) : Row(p, x) = Row(p, y) => x = y
  BY DEF OnOwnTracks, Angles, Row
<1> HIDE DEF s, n
<1>6. RowsApart(p, s)
  <2>1. \A i \in DOMAIN s : s[i] \in ToSet(s)
    BY DEF ToSet
  <2>2. QED
    BY <1>3, <1>5, <2>1 DEF RowsApart, IsInjective
<1> DEFINE T == {k \in 0..n : h[k].ok => AnglesRippled(h[k].project, p, s, k, edge, delta)}
<1>7. 0 \in T
  <2>1. AnglesRippled(p, p, s, 0, edge, delta)
    BY DEF AnglesRippled, StayPut
  <2>2. QED
    BY <1>1, <1>4, <2>1
<1>8. ASSUME NEW k \in 0..n - 1, k \in T PROVE k + 1 \in T
  <2>1. k \in Nat /\ k + 1 \in 0..n /\ k + 1 \in DOMAIN s
    BY <1>1, <1>3
  <2>2. CASE ~h[k].ok
    BY <1>4, <2>1, <2>2
  <2>3. CASE h[k].ok
    <3> DEFINE d == h[k].project
               r == h[k + 1]
    <3>1. AnglesRippled(d, p, s, k, edge, delta) /\ r = RippleOne(d, s[k + 1], edge, delta)
      BY <1>4, <1>8, <2>3
    <3> HIDE DEF d, r
    <3>2. r.ok => AnglesRippled(r.project, p, s, k + 1, edge, delta)
      BY <1>3, <1>6, <2>1, <3>1, NextAngle
    <3>3. QED
      BY <2>1, <3>2 DEF r
  <2>4. QED
    BY <2>2, <2>3
<1> HIDE DEF T
<1>9. 0..n \subseteq T
  BY <1>1, <1>7, <1>8, Climb
<1>10. n \in T
  BY <1>1, <1>9
<1>11. h[n].ok => AnglesRippled(h[n].project, p, s, n, edge, delta)
  BY <1>10 DEF T
<1>12. QED
  BY <1>4, <1>11 DEF s, n
-----------------------------------------------------------------------------------
(* What the ripple trim of a group keeps.                                          *)
LEMMA RippledFields ==
  ASSUME NEW clip \in AnyClip, NEW edge, NEW delta \in Int
  PROVE  /\ clip.start \in Int /\ clip.in \in Int /\ clip.out \in Int
         /\ RippledClip(clip, edge, delta).speed = clip.speed
         /\ RippledClip(clip, edge, delta).start = clip.start + (IF edge = "end" THEN 0 ELSE delta)
         /\ RippledClip(clip, edge, delta).in = clip.in + (IF edge = "end" THEN 0 ELSE delta)
         /\ RippledClip(clip, edge, delta).out = clip.out + Carried(edge, delta)
<1>1. clip.start \in Int /\ clip.in \in Int /\ clip.out \in Int
  BY DEF AnyClip
<1>2. CASE edge = "end"
  <2> DEFINE z == clip.out + delta
             new == [clip EXCEPT !.out = z]
  <2>1. new.speed = clip.speed /\ new.start = clip.start /\ new.in = clip.in /\ new.out = z
    BY DEF AnyClip
  <2>2. RippledClip(clip, edge, delta) = new
    BY <1>2 DEF RippledClip
  <2> HIDE DEF new
  <2>3. QED
    BY <1>1, <1>2, <2>1, <2>2 DEF Carried
<1>3. CASE edge # "end"
  <2> DEFINE y == clip.in + delta
             z == clip.start + delta
             new == [clip EXCEPT !.in = y, !.start = z]
  <2>1. new.speed = clip.speed /\ new.start = z /\ new.in = y /\ new.out = clip.out
    BY DEF AnyClip
  <2>2. RippledClip(clip, edge, delta) = new
    BY <1>3 DEF RippledClip
  <2> HIDE DEF new
  <2>3. QED
    BY <1>1, <1>3, <2>1, <2>2 DEF Carried
<1>4. QED
  BY <1>1, <1>2, <1>3

LEMMA RippledEnd ==
  ASSUME NEW clip \in AnyClip, NEW edge, NEW delta \in Int, clip.speed = UnitSpeed
  PROVE  End(clip) \in Int /\ End(RippledClip(clip, edge, delta)) = End(clip) + Carried(edge, delta)
<1> DEFINE new == RippledClip(clip, edge, delta)
           z == IF edge = "end" THEN 0 ELSE delta
           carry == Carried(edge, delta)
<1>1. z \in Int /\ carry \in Int
  BY DEF Carried
<1>2. /\ clip.start \in Int /\ clip.in \in Int /\ clip.out \in Int /\ new.speed = UnitSpeed
      /\ new.start = clip.start + z /\ new.in = clip.in + z /\ new.out = clip.out + carry
  BY RippledFields
<1>3. new \in AnyClip
  BY ClipRippled
<1> HIDE DEF new, z, carry
<1>4. End(clip) = clip.start + (clip.out - clip.in)
  BY UnitEnd
<1>5. End(new) = new.start + (new.out - new.in)
  BY <1>2, <1>3, UnitEnd
<1>6. End(clip) \in Int /\ End(new) = End(clip) + carry
  BY <1>1, <1>2, <1>4, <1>5
<1>7. QED
  BY <1>6 DEF new, carry

LEMMA AngleKept ==
  ASSUME NEW p \in Documents, NEW d, NEW id, NEW edge, NEW delta \in Int,
         AngleRippled(d, p, id, edge, delta), FindClip(d, id) = FindClip(p, id)
  PROVE  LET old == ClipAt(p, FindClip(p, id))
             new == ClipAt(d, FindClip(d, id))
         IN  /\ new.start = old.start + (IF edge = "end" THEN 0 ELSE delta)
             /\ old.speed = UnitSpeed => Spacing(d, id) = Spacing(p, id)
<1> DEFINE t == Row(p, id)
           i == FindClip(p, id)[2]
           clips == p.tracks[t].clips
           rippled == RippledTrack(clips, i, edge, delta)
           carry == Carried(edge, delta)
<1>1. t \in DOMAIN p.tracks /\ i \in DOMAIN clips
  BY ClipFound, Places DEF AngleRippled, Row
<1>2. clips \in Seq(AnyClip)
  BY <1>1, DocumentFields
<1>3. d.tracks[t].clips = rippled
  BY DEF AngleRippled
<1>4. /\ ClipAt(p, FindClip(p, id)) = clips[i] /\ ClipAt(d, FindClip(d, id)) = rippled[i]
      /\ Spacing(p, id) = IF i = Len(clips) THEN 0 ELSE clips[i + 1].start - End(clips[i])
      /\ Spacing(d, id) = IF i = Len(rippled) THEN 0 ELSE rippled[i + 1].start - End(rippled[i])
  BY <1>3 DEF ClipAt, Spacing, Row
<1> HIDE DEF t, i, clips, rippled
<1>5. SameTrack(rippled, clips) /\ OneTrimmed(rippled, clips, i, edge, delta)
  BY <1>1, <1>2, TrackRippled DEF rippled
<1> DEFINE clip == clips[i]
<1>6. clip \in AnyClip
  BY <1>1, <1>2
<1>7. rippled[i] = RippledClip(clip, edge, delta)
  BY <1>5 DEF OneTrimmed
<1> HIDE DEF clip
<1>8. rippled[i].start = clip.start + (IF edge = "end" THEN 0 ELSE delta)
  BY <1>6, <1>7, RippledFields
<1>9. ASSUME clip.speed = UnitSpeed PROVE Spacing(d, id) = Spacing(p, id)
  <2>1. End(clip) \in Int /\ End(rippled[i]) = End(clip) + carry
    BY <1>6, <1>7, <1>9, RippledEnd
  <2>2. Len(rippled) = Len(clips)
    BY <1>5 DEF SameTrack
  <2>3. CASE i = Len(clips)
    BY <1>4, <2>2, <2>3
  <2>4. CASE i # Len(clips)
    <3>1. i + 1 \in DOMAIN clips
      BY <1>1, <1>2, <2>4
    <3>2. rippled[i + 1].start = clips[i + 1].start + carry
      BY <1>5, <3>1 DEF OneTrimmed
    <3>3. clips[i + 1].start \in Int /\ carry \in Int
      <4> DEFINE next == clips[i + 1]
      <4>1. next \in AnyClip
        BY <1>2, <3>1
      <4> HIDE DEF next
      <4>2. next.start \in Int
        BY <4>1 DEF AnyClip
      <4>3. carry \in Int
        BY DEF Carried
      <4>4. QED
        BY <4>2, <4>3 DEF next
    <3> DEFINE a == clips[i + 1].start
    <3>4. rippled[i + 1].start - End(rippled[i]) = a - End(clip)
      <4> HIDE DEF carry, a
      <4>1. (a + carry) - (End(clip) + carry) = a - End(clip)
        BY <2>1, <3>3 DEF a
      <4>2. QED
        BY <2>1, <3>2, <4>1 DEF a
    <3>5. QED
      BY <1>4, <2>2, <2>4, <3>4 DEF clip
  <2>5. QED
    BY <2>3, <2>4
<1>10. QED
  BY <1>4, <1>8, <1>9 DEF clip

(* A ripple trim that succeeds moved every angle of the group by the same amount.  *)
AllRippled(p, q, id) ==
  \E edge, delta : /\ delta \in Int
                   /\ AnglesRippled(q, p, RippleTargets(p, id), Len(RippleTargets(p, id)), edge, delta)

LEMMA RippleTrimmed ==
  ASSUME NEW p \in Documents, NEW c \in Trims, NEW r, r = ApplyRippleTrim(c, p), r.ok,
         OnOwnTracks(p, Angles(p, c.clip))
  PROVE  AllRippled(p, r.project, c.clip)
<1> DEFINE clip == ClipAt(p, FindClip(p, c.clip))
           delta == RippleDelta(clip, c.edge, c.boundary)
           all == RippledAll(p, c.clip, c.edge, delta)
<1>1. c.clip \in Data /\ c.boundary \in Int
  BY DEF Trims
<1>2. ClipPlaces(p, c.clip) # {} /\ all.ok /\ r.project = all.project
  BY DEF ApplyRippleTrim, RippledAll, FoldLeft, MapThenFoldSet, Refused, Done
<1>3. clip \in AnyClip
  BY <1>2, TheClip
<1> HIDE DEF clip
<1>4. delta \in Int
  <2>1. clip.in \in Int /\ clip.out \in Int
    BY <1>3 DEF AnyClip
  <2> DEFINE lo == clip.in + Frame
             hi == clip.out - Frame
             zero == 0
  <2>2. lo \in Int /\ hi \in Int /\ zero \in Int /\ SourceLength \in Int
    BY <2>1, FrameAssumption
  <2> HIDE DEF lo, hi, zero
  <2>3. Clamp(c.boundary, lo, SourceLength) \in Int /\ Clamp(c.boundary, zero, hi) \in Int
    BY <1>1, <2>2, ClampTyped
  <2>4. delta = IF c.edge = "end" THEN Clamp(c.boundary, lo, SourceLength) - clip.out
                ELSE Clamp(c.boundary, zero, hi) - clip.in
    BY DEF RippleDelta, lo, hi, zero
  <2> HIDE DEF delta
  <2>5. QED
    BY <2>1, <2>3, <2>4
<1> HIDE DEF delta
<1>5. AnglesRippled(all.project, p, RippleTargets(p, c.clip), Len(RippleTargets(p, c.clip)), c.edge, delta)
  BY <1>1, <1>2, <1>4, GroupRippled
<1>6. QED
  BY <1>2, <1>4, <1>5 DEF AllRippled

LEMMA RippleStep ==
  ASSUME EditedByCommands, HistoryInv, [Next]_vars, Edited("RippleTrim"),
         OnOwnTracks(project, Angles(project, ThisEdit.clip))
  PROVE  AllRippled(project, project', ThisEdit.clip)
<1>1. PICK c : TheEdit(c, "RippleTrim")
  BY EditStep
<1>2. c \in Trims /\ c.op = "RippleTrim"
  BY <1>1, TrimByName DEF TheEdit
<1>3. ThisEdit.clip = c.clip
  <2>1. PICK x \in Captures : ThisEdit = [c EXCEPT !.cap = x]
    BY <1>1 DEF TheEdit
  <2>2. [c EXCEPT !.cap = x].clip = c.clip
    BY <1>2 DEF Trims
  <2>3. QED
    BY <2>1, <2>2
<1>4. project \in Documents
  BY DEF EditedByCommands, HistoryInv, TypeOK
<1> DEFINE r == ApplyRippleTrim(c, project)
<1>5. r.ok /\ project' = r.project
  BY <1>1, <1>2, CalledByName DEF TheEdit
<1>6. r = ApplyRippleTrim(c, project)
  OBVIOUS
<1> HIDE DEF r
<1>7. OnOwnTracks(project, Angles(project, c.clip))
  BY <1>3
<1>8. AllRippled(project, r.project, c.clip)
  BY <1>2, <1>4, <1>5, <1>6, <1>7, RippleTrimmed
<1>9. QED
  BY <1>3, <1>5, <1>8

LEMMA EachAngle ==
  ASSUME NEW p \in Documents, NEW q, NEW id \in Data, AllRippled(p, q, id)
  PROVE  \E z \in Int : \A x \in Angles(p, id) :
           /\ ClipAt(q, FindClip(q, x)).start = ClipAt(p, FindClip(p, x)).start + z
           /\ ClipAt(p, FindClip(p, x)).start \in Int
           /\ ClipAt(p, FindClip(p, x)).speed = UnitSpeed => Spacing(q, x) = Spacing(p, x)
<1> DEFINE s == RippleTargets(p, id)
<1>1. PICK edge, delta : delta \in Int /\ AnglesRippled(q, p, s, Len(s), edge, delta)
  BY DEF AllRippled
<1>2. s \in Seq(Data) /\ DOMAIN s = 1..Len(s)
  BY TargetsTyped
<1> DEFINE z == IF edge = "end" THEN 0 ELSE delta
<1>3. z \in Int
  BY <1>1
<1>4. ASSUME NEW x \in Angles(p, id)
      PROVE  /\ ClipAt(q, FindClip(q, x)).start = ClipAt(p, FindClip(p, x)).start + z
             /\ ClipAt(p, FindClip(p, x)).start \in Int
             /\ ClipAt(p, FindClip(p, x)).speed = UnitSpeed => Spacing(q, x) = Spacing(p, x)
  <2>1. PICK j \in DOMAIN s : x = s[j]
    BY DEF Angles, ToSet
  <2>2. AngleRippled(q, p, x, edge, delta) /\ FindClip(q, x) = FindClip(p, x)
    BY <1>1, <1>2, <2>1 DEF AnglesRippled, StayPut
  <2>3. ClipAt(p, FindClip(p, x)) \in AnyClip
    BY <2>2, TheClip DEF AngleRippled
  <2>4. ClipAt(p, FindClip(p, x)).start \in Int
    BY <2>3 DEF AnyClip
  <2>5. /\ ClipAt(q, FindClip(q, x)).start = ClipAt(p, FindClip(p, x)).start + z
        /\ ClipAt(p, FindClip(p, x)).speed = UnitSpeed => Spacing(q, x) = Spacing(p, x)
    BY <1>1, <2>2, AngleKept
  <2>6. QED
    BY <2>4, <2>5
<1> HIDE DEF z
<1>5. QED
  BY <1>3, <1>4

LEMMA ThisEditNamed ==
  ASSUME EditedByCommands, HistoryInv, [Next]_vars, Edited("RippleTrim")
  PROVE  project \in Documents /\ ThisEdit.clip \in Data
<1>1. PICK c : TheEdit(c, "RippleTrim")
  BY EditStep
<1>2. c \in Trims
  BY <1>1, TrimByName DEF TheEdit
<1>3. PICK x \in Captures : ThisEdit = [c EXCEPT !.cap = x]
  BY <1>1 DEF TheEdit
<1>4. [c EXCEPT !.cap = x].clip = c.clip /\ c.clip \in Data
  BY <1>2 DEF Trims
<1>5. project \in Documents
  BY DEF EditedByCommands, HistoryInv, TypeOK
<1>6. QED
  BY <1>3, <1>4, <1>5

LEMMA RippleKeeps ==
  ASSUME EditedByCommands, HistoryInv, [Next]_vars, Edited("RippleTrim"),
         OnOwnTracks(project, Angles(project, ThisEdit.clip))
  PROVE  \A x \in Angles(project, ThisEdit.clip) :
           /\ ClipAt(project, FindClip(project, x)).speed = UnitSpeed => Spacing(project', x) = Spacing(project, x)
           /\ \A y \in Angles(project, ThisEdit.clip) :
                ClipAt(project, FindClip(project, x)).start = ClipAt(project, FindClip(project, y)).start
                  => ClipAt(project', FindClip(project', x)).start = ClipAt(project', FindClip(project', y)).start
<1> DEFINE p == project
           q == project'
           id == ThisEdit.clip
<1>1. p \in Documents /\ id \in Data
  BY ThisEditNamed
<1>2. AllRippled(p, q, id)
  BY RippleStep
<1> HIDE DEF p, q, id
<1>3. PICK z \in Int : \A x \in Angles(p, id) :
        /\ ClipAt(q, FindClip(q, x)).start = ClipAt(p, FindClip(p, x)).start + z
        /\ ClipAt(p, FindClip(p, x)).start \in Int
        /\ ClipAt(p, FindClip(p, x)).speed = UnitSpeed => Spacing(q, x) = Spacing(p, x)
  BY <1>1, <1>2, EachAngle
<1>4. QED
  BY <1>3 DEF p, q, id

(* The comments of ClipEditCommands.hpp:127-128 and RippleEditCommands.hpp:66-79: *)
(* trimming the start of a clip at its source's speed leaves its end in place, and *)
(* a ripple trim of a group whose angles are on tracks of their own leaves aligned *)
(* angles aligned and opens neither gaps nor overlaps.  For any project, group and *)
(* trim, whatever was edited, undone or loaded before.                             *)
THEOREM EditsKeepTheirContent ==
  ASSUME EditedByCommands
  PROVE  Spec => EditsKeepContent
<1>1. ASSUME HistoryInv, [Next]_vars, Edited("TrimClip"), ThisEdit.edge = "start"
      PROVE  LET old == ClipAt(project, FindClip(project, ThisEdit.clip))
                 new == ClipAt(project', FindClip(project', ThisEdit.clip))
             IN  old.speed = UnitSpeed /\ new.start > 0 => End(new) = End(old)
  BY <1>1, TrimStep
<1>2. ASSUME HistoryInv, [Next]_vars, Edited("RippleTrim"), OnOwnTracks(project, Angles(project, ThisEdit.clip))
      PROVE  \A x \in Angles(project, ThisEdit.clip) :
           /\ ClipAt(project, FindClip(project, x)).speed = UnitSpeed => Spacing(project', x) = Spacing(project, x)
           /\ \A y \in Angles(project, ThisEdit.clip) :
                ClipAt(project, FindClip(project, x)).start = ClipAt(project, FindClip(project, y)).start
                  => ClipAt(project', FindClip(project', x)).start = ClipAt(project', FindClip(project', y)).start
  BY <1>2, RippleKeeps
<1>3. Contract
  BY CommandsHonourContract
<1>4. Spec => []HistoryInv
  BY <1>3, EngineInvariant
<1>5. HistoryInv /\ [Next]_vars =>
        (Edited("TrimClip") /\ ThisEdit.edge = "start" =>
           LET old == ClipAt(project, FindClip(project, ThisEdit.clip))
               new == ClipAt(project', FindClip(project', ThisEdit.clip))
           IN  old.speed = UnitSpeed /\ new.start > 0 => End(new) = End(old))
  BY <1>1
<1>6. HistoryInv /\ [Next]_vars =>
        (Edited("RippleTrim") =>
           LET targets == Angles(project, ThisEdit.clip)
               speed(id) == ClipAt(project, FindClip(project, id)).speed
           IN  OnOwnTracks(project, targets) /\ (\A id \in targets : speed(id) = UnitSpeed)
                 => \A id \in targets : Spacing(project', id) = Spacing(project, id))
  BY <1>2
<1>7. HistoryInv /\ [Next]_vars =>
        (Edited("RippleTrim") =>
           LET targets == Angles(project, ThisEdit.clip)
               start(p, id) == ClipAt(p, FindClip(p, id)).start
           IN  OnOwnTracks(project, targets) =>
                 \A x, y \in targets :
                   start(project, x) = start(project, y) => start(project', x) = start(project', y))
  BY <1>2
<1>8. QED
  BY <1>4, <1>5, <1>6, <1>7, PTL DEF Spec, EditsKeepContent, TrimKeepsContent, UnitSpeedRippleKeepsSpacing, GroupStaysAligned

-----------------------------------------------------------------------------------
(* The tool executor. *)

Snapshots == [project : Projects, undo : Seq(Commands)]

(* With m commands applied since the engine looked like f, n of them not yet       *)
(* undone, what is left of f's undo history lies at the bottom of the history u,   *)
(* and f's project is n steps down the walk p of projects that ends in x.          *)
Left(f, m) == Len(f.undo) - Dropped(f.undo, m)

Recovers(f, m, n, u, p, x) ==
  /\ Len(f.undo) <= Bound
  /\ Len(u) = Left(f, m) + n
  /\ \A i \in 1..Left(f, m) : u[i] = f.undo[i + Dropped(f.undo, m)]
  /\ IF n = 0 THEN x = f.project ELSE p[Left(f, m) + 1] = f.project

Abortable(c) == c.stage # "idle" /\ c.found # None /\ c.counted <= Bound

CallInv(c) ==
  /\ c.stage = "running" => c.undone = 0
  /\ c.undone <= c.counted
  /\ Abortable(c) =>
       Recovers(c.found[1], c.counted, c.counted - c.undone, undo, past, project)

CallsInv ==
  /\ call \in [Callers -> Calls]
  /\ \A t \in Callers : CallInv(call[t])

(* The inductive invariant.                                                        *)
ToolInv == HistoryInv /\ CallsInv

-----------------------------------------------------------------------------------
LEMMA LeftFacts ==
  ASSUME NEW f \in Snapshots, NEW m \in Nat, m <= Bound, Len(f.undo) <= Bound
  PROVE  /\ Len(f.undo) \in Nat /\ Dropped(f.undo, m) \in Nat /\ Left(f, m) \in Nat
         /\ Left(f, m) + Dropped(f.undo, m) = Len(f.undo)
<1>1. Len(f.undo) \in Nat
  BY LenProperties DEF Snapshots
<1>2. QED
  BY <1>1, BoundIsPositive DEF Left, Dropped

(* record() keeps the found history recoverable, one step further away.            *)
LEMMA RecordKeeps ==
  ASSUME NEW f \in Snapshots, NEW m \in Nat, m + 1 <= Bound,
         NEW u \in Seq(Commands), NEW p \in Seq(Projects), Len(p) = Len(u),
         NEW x \in Projects, NEW c \in Commands, NEW y,
         Recovers(f, m, m, u, p, x)
  PROVE  Recovers(f, m + 1, m + 1, Newest(Append(u, c)), Newest(Append(p, x)), y)
<1> DEFINE u2 == Newest(Append(u, c))
           p2 == Newest(Append(p, x))
           d  == Dropped(f.undo, m)
           d2 == Dropped(f.undo, m + 1)
           k  == Left(f, m)
           k2 == Left(f, m + 1)
<1>1. /\ Bound \in Nat \ {0} /\ m <= Bound
      /\ Len(f.undo) \in Nat /\ Len(f.undo) <= Bound
      /\ d \in Nat /\ k \in Nat /\ k + d = Len(f.undo)
      /\ d2 \in Nat /\ k2 \in Nat /\ k2 + d2 = Len(f.undo)
  <2>1. Bound \in Nat \ {0} /\ m <= Bound /\ m + 1 \in Nat
    BY BoundIsPositive
  <2>2. Len(f.undo) <= Bound
    BY DEF Recovers
  <2>3. /\ Len(f.undo) \in Nat
        /\ d \in Nat /\ k \in Nat /\ k + d = Len(f.undo)
    BY <2>1, <2>2, LeftFacts
  <2>4. d2 \in Nat /\ k2 \in Nat /\ k2 + d2 = Len(f.undo)
    BY <2>1, <2>2, LeftFacts
  <2> HIDE DEF d, d2, k, k2
  <2>5. QED
    BY <2>4, <2>3, <2>2, <2>1
<1>2. /\ Len(u) \in Nat /\ Append(u, c) \in Seq(Commands) /\ Len(Append(u, c)) = Len(u) + 1
      /\ \A i \in 1..Len(u) : Append(u, c)[i] = u[i]
  BY AppendFacts
<1>3. /\ Append(p, x) \in Seq(Projects) /\ Len(Append(p, x)) = Len(u) + 1
      /\ \A i \in 1..Len(u) : Append(p, x)[i] = p[i]
      /\ Append(p, x)[Len(u) + 1] = x
  BY AppendFacts
<1>4. /\ Len(u2) = IF Len(u) + 1 > Bound THEN Bound ELSE Len(u) + 1
      /\ \A i \in 1..Len(u2) : u2[i] = Append(u, c)[i + ((Len(u) + 1) - Len(u2))]
  <2> DEFINE a == Append(u, c)
             l == Len(u) + 1
  <2>1. a \in Seq(Commands) /\ Len(a) = l /\ u2 = Newest(a)
    BY <1>2
  <2> HIDE DEF u2, p2, d, d2, k, k2, a, l
  <2>2. /\ Len(u2) = IF l > Bound THEN Bound ELSE l
        /\ \A i \in 1..Len(u2) : u2[i] = a[i + (l - Len(u2))]
    BY <2>1, NewestFacts
  <2>3. a = Append(u, c) /\ l = Len(u) + 1
    BY DEF a, l
  <2>4. QED
    BY <2>2, <2>3
<1>5. /\ Len(p2) = IF Len(u) + 1 > Bound THEN Bound ELSE Len(u) + 1
      /\ \A i \in 1..Len(p2) : p2[i] = Append(p, x)[i + ((Len(u) + 1) - Len(p2))]
  <2> DEFINE a == Append(p, x)
             l == Len(u) + 1
  <2>1. a \in Seq(Projects) /\ Len(a) = l /\ p2 = Newest(a)
    BY <1>3
  <2> HIDE DEF u2, p2, d, d2, k, k2, a, l
  <2>2. /\ Len(p2) = IF l > Bound THEN Bound ELSE l
        /\ \A i \in 1..Len(p2) : p2[i] = a[i + (l - Len(p2))]
    BY <2>1, NewestFacts
  <2>3. a = Append(p, x) /\ l = Len(u) + 1
    BY DEF a, l
  <2>4. QED
    BY <2>2, <2>3
<1>6. /\ Len(u) = k + m
      /\ \A i \in 1..k : u[i] = f.undo[i + d]
      /\ IF m = 0 THEN x = f.project ELSE p[k + 1] = f.project
  BY DEF Recovers
<1>7. \/ Len(u) + 1 <= Bound /\ d2 = d /\ k2 = k /\ Len(u2) = Len(u) + 1
      \/ Len(u) = Bound /\ d2 = d + 1 /\ k2 = k - 1 /\ Len(u2) = Bound
  <2>1. /\ d  = IF Len(f.undo) + m > Bound THEN Len(f.undo) + m - Bound ELSE 0
        /\ d2 = IF Len(f.undo) + (m + 1) > Bound THEN Len(f.undo) + (m + 1) - Bound ELSE 0
    BY DEF Dropped
  <2>2. Len(u2) = (IF Len(u) + 1 > Bound THEN Bound ELSE Len(u) + 1) /\ Len(u) = k + m
    BY <1>4, <1>6
  <2> DEFINE b == Len(f.undo)
  <2> HIDE DEF d, d2, k, k2, u2, b
  <2>3. /\ Bound \in Nat /\ b \in Nat /\ b <= Bound /\ d \in Nat /\ d2 \in Nat
        /\ k \in Nat /\ k2 \in Nat /\ k + d = b /\ k2 + d2 = b
    BY <1>1 DEF b
  <2>4. /\ d  = IF b + m > Bound THEN b + m - Bound ELSE 0
        /\ d2 = IF b + (m + 1) > Bound THEN b + (m + 1) - Bound ELSE 0
    BY <2>1 DEF b
  <2>5. CASE b + (m + 1) <= Bound
    BY <2>2, <2>3, <2>4, <2>5
  <2>6. CASE b + (m + 1) > Bound
    BY <2>2, <2>3, <2>4, <2>6
  <2>7. QED
    BY <2>3, <2>5, <2>6
<1> HIDE DEF d, d2, k, k2, u2, p2
<1>8. Len(u2) = k2 + (m + 1) /\ Len(p2) = Len(u2)
  <2>1. /\ Len(u2) = IF Len(u) + 1 > Bound THEN Bound ELSE Len(u) + 1
        /\ Len(p2) = IF Len(u) + 1 > Bound THEN Bound ELSE Len(u) + 1
    BY <1>4, <1>5
  <2>2. Len(u) = k + m
    BY <1>6
  <2>3. Bound \in Nat /\ k \in Nat /\ k2 \in Nat
    BY <1>1
  <2>4. CASE Len(u) + 1 <= Bound /\ k2 = k
    BY <2>1, <2>2, <2>3, <2>4
  <2>5. CASE Len(u) = Bound /\ k2 = k - 1
    BY <2>1, <2>2, <2>3, <2>5
  <2>6. QED
    BY <1>7, <2>4, <2>5
<1>9. ASSUME NEW i \in 1..k2 PROVE u2[i] = f.undo[i + d2]
  <2>1. CASE Len(u2) = Len(u) + 1 /\ d2 = d /\ k2 = k
    <3>1. i \in 1..Len(u2) /\ i \in 1..k /\ i \in 1..Len(u)
      BY SMTT(30), <1>1, <1>6, <1>8, <2>1
    <3>2. i + ((Len(u) + 1) - Len(u2)) = i
      BY <1>2, <2>1
    <3>3. QED
      BY <1>2, <1>4, <1>6, <2>1, <3>1, <3>2
  <2>2. CASE Len(u) = Bound /\ Len(u2) = Bound /\ d2 = d + 1 /\ k2 = k - 1
    <3>1. i \in 1..Len(u2) /\ i + 1 \in 1..k /\ i + 1 \in 1..Len(u)
      BY <1>1, <1>6, <1>8, <2>2
    <3>2. u2[i] = u[i + 1]
      <4>1. i + ((Len(u) + 1) - Len(u2)) = i + 1
        BY <1>1, <2>2
      <4>2. QED
        BY <1>2, <1>4, <3>1, <4>1
    <3>3. (i + 1) + d = i + d2
      BY <1>1, <2>2
    <3>4. QED
      BY <1>6, <3>1, <3>2, <3>3
  <2>3. QED
    BY <1>7, <2>1, <2>2
<1>10. p2[k2 + 1] = f.project
  <2>1. k2 + 1 \in 1..Len(p2)
    BY <1>1, <1>8
  <2>2. (k2 + 1) + ((Len(u) + 1) - Len(p2)) = k + 1
    BY <1>1, <1>2, <1>7, <1>8
  <2> DEFINE j == k2 + 1
  <2>3. p2[k2 + 1] = Append(p, x)[k + 1]
    <3>1. j \in 1..Len(p2) /\ j + ((Len(u) + 1) - Len(p2)) = k + 1
      BY <2>1, <2>2
    <3> HIDE DEF j
    <3>2. p2[j] = Append(p, x)[j + ((Len(u) + 1) - Len(p2))]
      BY <1>5, <3>1
    <3>3. QED
      BY <3>1, <3>2 DEF j
  <2>4. CASE m = 0
    BY <1>1, <1>3, <1>6, <2>3, <2>4
  <2>5. CASE m # 0
    <3>1. k + 1 \in 1..Len(u)
      BY <1>1, <1>6, <2>5
    <3>2. QED
      BY <1>3, <1>6, <2>3, <2>5, <3>1
  <2>6. QED
    BY <2>4, <2>5
<1>11. QED
  BY <1>1, <1>8, <1>9, <1>10 DEF Recovers, u2, p2, k2, d2

(* One turn of the rollback loop: there is something to undo, and the found       *)
(* project is one step closer.                                                     *)
LEMMA UndoCloser ==
  ASSUME NEW f \in Snapshots, NEW m \in Nat, m <= Bound, NEW n \in Nat \ {0}, n <= m,
         NEW u \in Seq(Commands), NEW p \in Seq(Projects), Len(p) = Len(u), NEW x,
         Recovers(f, m, n, u, p, x)
  PROVE  /\ u # <<>>
         /\ Recovers(f, m, n - 1, ButLast(u), ButLast(p), Top(p))
<1> DEFINE k == Left(f, m)
<1>1. k \in Nat /\ Len(f.undo) <= Bound
  BY LeftFacts DEF Recovers
<1>2. /\ Len(u) = k + n
      /\ \A i \in 1..k : u[i] = f.undo[i + Dropped(f.undo, m)]
      /\ p[k + 1] = f.project
  BY DEF Recovers
<1> HIDE DEF k
<1>3. u # <<>> /\ p # <<>>
  BY <1>1, <1>2, EmptySeq
<1>4. /\ Len(ButLast(u)) = Len(u) - 1 /\ \A i \in 1..(Len(u) - 1) : ButLast(u)[i] = u[i]
      /\ \A i \in 1..(Len(u) - 1) : ButLast(p)[i] = p[i]
  BY <1>3, ButLastFacts
<1>5. Len(ButLast(u)) = k + (n - 1)
  BY <1>1, <1>2, <1>4
<1>6. \A i \in 1..k : ButLast(u)[i] = f.undo[i + Dropped(f.undo, m)]
  BY <1>1, <1>2, <1>4
<1>7. IF n - 1 = 0 THEN Top(p) = f.project ELSE ButLast(p)[k + 1] = f.project
  <2>1. CASE n = 1
    BY <1>1, <1>2, <2>1 DEF Top
  <2>2. CASE n # 1
    BY <1>1, <1>2, <1>4, <2>2
  <2>3. QED
    BY <2>1, <2>2
<1>8. QED
  BY <1>1, <1>3, <1>5, <1>6, <1>7 DEF Recovers, k

(* After the last turn, nothing but the evicted entries is missing.                *)
LEMMA FullyUndone ==
  ASSUME NEW f \in Snapshots, NEW m \in Nat, m <= Bound,
         NEW u \in Seq(Commands), NEW p, NEW x,
         Recovers(f, m, 0, u, p, x)
  PROVE  x = f.project /\ u = Kept(f.undo, m)
<1> DEFINE k == Left(f, m)
           d == Dropped(f.undo, m)
<1>1. /\ k \in Nat /\ d \in Nat /\ Len(f.undo) \in Nat /\ k + d = Len(f.undo)
      /\ f.undo \in Seq(Commands)
  BY LeftFacts DEF Recovers, Snapshots
<1>2. Len(u) = k /\ x = f.project /\ \A i \in 1..k : u[i] = f.undo[i + d]
  BY <1>1 DEF Recovers
<1>3. Kept(f.undo, m) = SubSeq(f.undo, d + 1, Len(f.undo))
  BY DEF Kept
<1> HIDE DEF k, d
<1>4. /\ SubSeq(f.undo, d + 1, Len(f.undo)) \in Seq(Commands)
      /\ Len(SubSeq(f.undo, d + 1, Len(f.undo))) = k
      /\ \A i \in 1..k : SubSeq(f.undo, d + 1, Len(f.undo))[i] = f.undo[i + d]
  <2>1. d + 1 \in Nat \ {0} /\ d + 1 <= Len(f.undo) + 1 /\ Len(f.undo) + 1 - (d + 1) = k
    <3> DEFINE b == Len(f.undo)
    <3>1. k \in Nat /\ d \in Nat /\ b \in Nat /\ k + d = b
      BY <1>1
    <3> HIDE DEF b
    <3>2. d + 1 \in Nat \ {0} /\ d + 1 <= b + 1 /\ b + 1 - (d + 1) = k
      BY <3>1
    <3>3. QED
      BY <3>2 DEF b
  <2>2. \A i \in 1..k : (d + 1) + i - 1 = i + d
    BY <1>1
  <2>3. QED
    BY <1>1, <2>1, <2>2, SegmentFacts
<1>5. u = SubSeq(f.undo, d + 1, Len(f.undo))
  BY <1>2, <1>4, SeqEqual
<1>6. QED
  BY <1>2, <1>3, <1>5
-----------------------------------------------------------------------------------
(* The executor adds no step of its own to the engine.                             *)
LEMMA ToolStepIsEngineStep ==
  ASSUME [ToolNext]_toolVars
  PROVE  [Next]_vars
  BY DEF ToolNext, Applying, Moving, toolVars, Next, Edit, Walk, GuiEdits, GuiWalks, Begin,
         HandlerEdits, HandlerWalks, Return, UndoOne, Answer

LEMMA FoundIsSnapshot ==
  ASSUME NEW c \in Calls, c.found # None
  PROVE  c.found[1] \in Snapshots
<1>1. c.found \in Seq(Snapshots)
  BY DEF Calls, Snapshots
<1>2. QED
  BY <1>1, EmptySeq, ElementOfSeq DEF None

LEMMA IdleFacts ==
  /\ Idle \in Calls
  /\ Idle.stage = "idle" /\ Idle.counted = 0 /\ Idle.undone = 0
<1>1. None \in Seq([project : Projects, undo : Seq(Commands)])
  BY EmptySeq DEF None
<1>2. QED
  BY <1>1 DEF Idle, Calls

LEMMA HeardFacts ==
  ASSUME NEW c \in Calls, NEW t, NEW by
  PROVE  LET counts == c.stage = "running" /\ reply'.outcome = "applied"
             h == Heard(c, t, by)
         IN  /\ h \in Calls
             /\ h.stage = c.stage /\ h.undone = c.undone
             /\ h.counted = (IF counts THEN c.counted + 1 ELSE c.counted)
             /\ h.found = (IF t = by THEN c.found ELSE None)
<1>1. None \in Seq([project : Projects, undo : Seq(Commands)])
  BY EmptySeq DEF None
<1> DEFINE counts == c.stage = "running" /\ reply'.outcome = "applied"
           counted == IF counts THEN c.counted + 1 ELSE c.counted
           own == IF counts /\ t = by THEN c.own + 1 ELSE c.own
           found == IF t = by THEN c.found ELSE None
<1>2. Heard(c, t, by) = [c EXCEPT !.counted = counted, !.own = own, !.found = found]
  BY DEF Heard
<1>3. c.counted \in Nat /\ c.own \in Nat
      /\ c.found \in Seq([project : Projects, undo : Seq(Commands)])
  BY DEF Calls
<1>4. counted \in Nat /\ own \in Nat
      /\ found \in Seq([project : Projects, undo : Seq(Commands)])
  BY <1>1, <1>3
<1>5. counted = (IF counts THEN c.counted + 1 ELSE c.counted)
      /\ found = (IF t = by THEN c.found ELSE None)
  OBVIOUS
<1>6. /\ Heard(c, t, by) \in Calls
      /\ Heard(c, t, by).stage = c.stage /\ Heard(c, t, by).undone = c.undone
      /\ Heard(c, t, by).counted = counted /\ Heard(c, t, by).found = found
  <2> HIDE DEF counted, own, found
  <2> QED
    BY <1>2, <1>4 DEF Calls
<1>7. QED
  BY <1>5, <1>6

LEMMA OverheardFacts ==
  ASSUME NEW c \in Calls
  PROVE  LET h == Overheard(c)
         IN  /\ h \in Calls /\ h.stage = c.stage /\ h.undone = c.undone
             /\ h.counted = c.counted /\ h.found = None
<1>1. None \in Seq([project : Projects, undo : Seq(Commands)])
  BY EmptySeq DEF None
<1>2. QED
  BY <1>1 DEF Overheard, Calls

(* An invocation that the step leaves alone.                                       *)
LEMMA Untouched ==
  ASSUME CallsInv, UNCHANGED vars, NEW t \in Callers, call'[t] = call[t]
  PROVE  CallInv(call[t])'
  BY DEF CallsInv, CallInv, Abortable, vars

LEMMA StepBegin ==
  ASSUME ToolInv, NEW t \in Callers, Begin(t)
  PROVE  CallsInv'
<1> DEFINE snap == [project |-> project, undo |-> undo]
           new  == [Idle EXCEPT !.stage = "running", !.found = <<snap>>]
<1>1. /\ call \in [Callers -> Calls] /\ call' = [call EXCEPT ![t] = new] /\ UNCHANGED vars
  BY DEF ToolInv, CallsInv, Begin
<1>2. snap \in Snapshots /\ snap.undo = undo /\ snap.project = project
  BY DEF ToolInv, HistoryInv, TypeOK, Snapshots
<1>3. /\ new \in Calls /\ new.stage = "running" /\ new.counted = 0 /\ new.undone = 0
      /\ new.found[1] = snap
  <2> HIDE DEF snap
  <2>1. <<snap>> \in Seq([project : Projects, undo : Seq(Commands)]) /\ <<snap>>[1] = snap
    BY <1>2 DEF Snapshots
  <2>2. QED
    BY <2>1, IdleFacts DEF Idle, Calls
<1>4. call' \in [Callers -> Calls] /\ call'[t] = new
  <2> HIDE DEF new
  <2> QED BY <1>1, <1>3
<1>5. Recovers(snap, 0, 0, undo, past, project)
  <2>1. Len(undo) \in Nat /\ Len(redo) \in Nat /\ Len(undo) <= Bound
    BY LenProperties, BoundIsPositive DEF ToolInv, HistoryInv, TypeOK, HistoryBounded
  <2>2. Dropped(undo, 0) = 0
    BY <2>1, BoundIsPositive DEF Dropped
  <2> HIDE DEF snap
  <2>3. Left(snap, 0) = Len(undo)
    BY <1>2, <2>1, <2>2 DEF Left
  <2>4. QED
    BY <1>2, <2>1, <2>2, <2>3 DEF Recovers
<1>6. CallInv(call[t])'
  <2> HIDE DEF new, snap
  <2> QED BY <1>1, <1>3, <1>4, <1>5 DEF CallInv, Abortable, vars
<1>7. ASSUME NEW u \in Callers, u # t PROVE CallInv(call[u])'
  <2>1. call'[u] = call[u]
    BY <1>1, <1>7
  <2>2. QED
    BY <1>1, <2>1, Untouched DEF ToolInv
<1>8. QED
  BY <1>4, <1>6, <1>7 DEF CallsInv

(* Return and Answer touch the stage only.                                         *)
LEMMA StepStage ==
  ASSUME ToolInv, UNCHANGED vars, NEW t \in Callers, NEW new \in Calls,
         call' = [call EXCEPT ![t] = new],
         \/ new = Idle
         \/ /\ call[t].stage # "idle" /\ new.stage = "undoing" /\ new.found = call[t].found
            /\ new.counted = call[t].counted /\ new.undone = call[t].undone
  PROVE  CallsInv'
<1>1. call \in [Callers -> Calls] /\ call' \in [Callers -> Calls] /\ call'[t] = new
  BY DEF ToolInv, CallsInv
<1>2. CallInv(call[t])'
  <2>1. CASE new = Idle
    BY <1>1, <2>1, IdleFacts DEF CallInv, Abortable
  <2>2. CASE new # Idle
    <3>1. CallInv(call[t])
      BY DEF ToolInv, CallsInv
    <3>2. QED
      BY <1>1, <2>2, <3>1 DEF CallInv, Abortable, vars
  <2>3. QED
    BY <2>1, <2>2
<1>3. ASSUME NEW u \in Callers, u # t PROVE CallInv(call[u])'
  <2>1. call'[u] = call[u]
    BY <1>1, <1>3
  <2>2. QED
    BY <2>1, Untouched DEF ToolInv
<1>4. QED
  BY <1>1, <1>2, <1>3 DEF CallsInv
-----------------------------------------------------------------------------------
(* An invocation that something else disturbed promises nothing more.              *)
LEMMA Disturbed ==
  ASSUME NEW c \in Calls, CallInv(c), NEW t \in Callers,
         call'[t].found = None, call'[t].stage = c.stage,
         call'[t].undone = c.undone, call'[t].counted \in {c.counted, c.counted + 1}
  PROVE  CallInv(call[t])'
<1>1. c.counted \in Nat /\ c.undone \in Nat
  BY DEF Calls
<1>2. QED
  BY <1>1 DEF CallInv, Abortable

(* An applied command, heard by every invocation.                                  *)
LEMMA StepHeard ==
  ASSUME Contract, ToolInv, NEW c \in Offered(project), ApplyOk(c), NEW by \in Callers,
         call[by].stage \in {"idle", "running"},
         call' = [u \in Callers |-> Heard(call[u], u, by)]
  PROVE  CallsInv'
<1>1. /\ call \in [Callers -> Calls] /\ \A u \in Callers : CallInv(call[u])
      /\ reply'.outcome = "applied"
  BY DEF ToolInv, CallsInv, ApplyOk, Reply
<1>2. ASSUME NEW u \in Callers
      PROVE  /\ call'[u] \in Calls /\ call'[u].stage = call[u].stage
             /\ call'[u].undone = call[u].undone
             /\ call'[u].counted = (IF call[u].stage = "running" THEN call[u].counted + 1
                                                                 ELSE call[u].counted)
             /\ call'[u].found = (IF u = by THEN call[u].found ELSE None)
  BY <1>1, <1>2, HeardFacts
<1>3. call' \in [Callers -> Calls]
  BY <1>2
<1>4. ASSUME NEW u \in Callers, u # by PROVE CallInv(call[u])'
  <2>1. call[u] \in Calls
    BY <1>1
  <2>2. QED
    BY <1>1, <1>2, <1>4, <2>1, Disturbed
<1>5. CASE call[by].stage = "idle"
  <2>1. CallInv(call[by])'
    BY <1>1, <1>2, <1>5 DEF CallInv, Abortable
  <2>2. QED
    BY <1>3, <1>4, <2>1 DEF CallsInv
<1>6. CASE call[by].stage = "running"
  <2> DEFINE f == call[by].found[1]
             m == call[by].counted
  <2>1. m \in Nat /\ call[by].undone = 0 /\ call'[by].undone = 0 /\ call'[by].counted = m + 1
    BY <1>1, <1>2, <1>6 DEF CallInv, Calls
  <2>2. ASSUME call[by].found # None, m + 1 <= Bound
        PROVE  Recovers(f, m + 1, m + 1, undo', past', project')
    <3>1. f \in Snapshots
      BY <1>1, <2>2, FoundIsSnapshot
    <3>2. m <= Bound
      BY <2>1, <2>2, BoundIsPositive
    <3>3. Recovers(f, m, m, undo, past, project)
      <4>1. CallInv(call[by])
        BY <1>1
      <4>2. call[by].counted - call[by].undone = m
        BY <2>1
      <4>3. QED
        BY <1>6, <2>2, <3>2, <4>1, <4>2 DEF CallInv, Abortable
    <3>4. /\ undo \in Seq(Commands) /\ past \in Seq(Projects) /\ Len(past) = Len(undo)
          /\ project \in Projects /\ Apply(c, project).cmd \in Commands
      BY DEF ToolInv, HistoryInv, TypeOK, Contract
    <3>5. /\ undo' = Newest(Append(undo, Apply(c, project).cmd))
          /\ past' = Newest(Append(past, project))
      BY DEF ApplyOk
    <3> HIDE DEF f, m
    <3>6. QED
      BY <2>1, <2>2, <3>1, <3>3, <3>4, <3>5, RecordKeeps
  <2>3. CallInv(call[by])'
    <3>1. m + 1 - 0 = m + 1 /\ 0 <= m + 1
      BY <2>1
    <3> HIDE DEF f, m
    <3>2. CallInv(call[by])' <=>
            (call[by].found # None /\ m + 1 <= Bound =>
               Recovers(call[by].found[1], m + 1, m + 1, undo', past', project'))
      BY <1>2, <1>6, <2>1, <3>1 DEF CallInv, Abortable, Bound
    <3>3. QED
      BY <2>2, <3>2 DEF f
  <2>4. QED
    BY <1>3, <1>4, <2>3 DEF CallsInv
<1>7. QED
  BY <1>5, <1>6
--------------------------------------------------------------------------------
(* A call of the engine that changed nothing, heard by every invocation.           *)
LEMMA StepRefused ==
  ASSUME ToolInv, UNCHANGED <<project, undo, past>>, NEW by \in Callers,
         call' \in [Callers -> Calls],
         \A u \in Callers :
           /\ call'[u].stage = call[u].stage /\ call'[u].undone = call[u].undone
           /\ call'[u].counted = call[u].counted
           /\ call'[u].found = (IF u = by THEN call[u].found ELSE None)
  PROVE  CallsInv'
<1>1. \A u \in Callers : call[u] \in Calls /\ CallInv(call[u])
  BY DEF ToolInv, CallsInv
<1>2. ASSUME NEW u \in Callers, u # by PROVE CallInv(call[u])'
  BY <1>1, <1>2, Disturbed
<1>3. CallInv(call[by])'
  BY <1>1 DEF CallInv, Abortable, Bound
<1>4. QED
  BY <1>2, <1>3 DEF CallsInv

LEMMA StepEdits ==
  ASSUME Contract, ToolInv, Applying
  PROVE  CallsInv'
<1>1. call \in [Callers -> Calls]
  BY DEF ToolInv, CallsInv
<1>2. CASE GuiEdits
  <2>1. call' = [u \in Callers |-> Heard(call[u], u, Gui)] /\ call[Gui].stage = "idle" /\ Gui \in Callers
    BY <1>2, GuiAssumption DEF GuiEdits
  <2>2. ASSUME NEW c \in Offered(project), ApplyOk(c) PROVE CallsInv'
    BY <2>1, <2>2, StepHeard
  <2>3. ASSUME NEW c \in Offered(project), ApplyRejected(c) PROVE CallsInv'
    <3>1. reply'.outcome # "applied" /\ UNCHANGED <<project, undo, past>>
      BY <2>3 DEF ApplyRejected, Reply
    <3>2. ASSUME NEW u \in Callers
          PROVE  /\ call'[u] \in Calls
                 /\ call'[u].stage = call[u].stage /\ call'[u].undone = call[u].undone
                 /\ call'[u].counted = call[u].counted
                 /\ call'[u].found = (IF u = Gui THEN call[u].found ELSE None)
      BY <1>1, <2>1, <3>1, <3>2, HeardFacts
    <3>3. call' \in [Callers -> Calls]
      BY <2>1, <3>2
    <3>4. QED
      BY <2>1, <3>1, <3>2, <3>3, StepRefused
  <2>4. QED
    BY <1>2, <2>2, <2>3 DEF GuiEdits
<1>3. ASSUME NEW t \in Callers, HandlerEdits(t) PROVE CallsInv'
  <2>1. call[t].stage = "running"
    BY <1>3 DEF HandlerEdits, Running
  <2>2. ASSUME NEW c \in Offered(project), ApplyOk(c) PROVE CallsInv'
    <3>1. reply'.outcome # "failed"
      BY <2>2 DEF ApplyOk, Reply
    <3>2. call' = [u \in Callers |-> Heard(call[u], u, t)]
      BY <1>3, <3>1 DEF HandlerEdits
    <3>3. QED
      BY <2>1, <2>2, <3>2, StepHeard
  <2>3. ASSUME NEW c \in Offered(project), ApplyRejected(c) PROVE CallsInv'
    <3>1. reply'.outcome = "failed" /\ UNCHANGED <<project, undo, past>>
      BY <2>3 DEF ApplyRejected, Reply
    <3>2. ASSUME NEW u \in Callers
          PROVE  /\ call'[u] \in Calls
                 /\ call'[u].stage = call[u].stage /\ call'[u].undone = call[u].undone
                 /\ call'[u].counted = call[u].counted
                 /\ call'[u].found = (IF u = t THEN call[u].found ELSE None)
      <4> DEFINE h == Heard(call[u], u, t)
      <4>1. /\ h \in Calls /\ h.stage = call[u].stage /\ h.undone = call[u].undone
            /\ h.counted = call[u].counted
            /\ h.found = (IF u = t THEN call[u].found ELSE None)
        BY <1>1, <3>1, HeardFacts
      <4>2. call'[u] = IF u = t THEN [h EXCEPT !.answer = "error"] ELSE h
        BY <1>3, <3>1 DEF HandlerEdits
      <4> HIDE DEF h
      <4>3. QED
        BY <4>1, <4>2 DEF Calls
    <3>3. call' \in [Callers -> Calls]
      <4>1. call' = [u \in Callers |-> call'[u]]
        BY <1>3 DEF HandlerEdits
      <4>2. QED
        BY <3>2, <4>1
    <3>4. QED
      BY <3>1, <3>2, <3>3, StepRefused
  <2>4. QED
    BY <1>3, <2>2, <2>3 DEF HandlerEdits, Edit
<1>4. QED
  BY <1>2, <1>3 DEF Applying

(* Calls that are not counted, and that nobody can vouch for afterwards.           *)
LEMMA StepWalks ==
  ASSUME ToolInv, GuiWalks \/ \E t \in Callers : HandlerWalks(t)
  PROVE  CallsInv'
<1>1. /\ call \in [Callers -> Calls] /\ \A u \in Callers : CallInv(call[u])
      /\ None \in Seq([project : Projects, undo : Seq(Commands)])
  BY EmptySeq DEF ToolInv, CallsInv, None
<1>2. ASSUME NEW u \in Callers
      PROVE  /\ call'[u] \in Calls
             /\ call'[u].stage = call[u].stage /\ call'[u].undone = call[u].undone
             /\ call'[u].counted = call[u].counted /\ call'[u].found = None
  <2>1. CASE GuiWalks
    BY <1>1, <2>1, OverheardFacts DEF GuiWalks
  <2>2. ASSUME NEW t \in Callers, HandlerWalks(t)
        PROVE  /\ call'[u] \in Calls
               /\ call'[u].stage = call[u].stage /\ call'[u].undone = call[u].undone
               /\ call'[u].counted = call[u].counted /\ call'[u].found = None
    <3>1. CASE u = t
      <4> DEFINE answer == IF reply'.outcome = "failed" THEN "error" ELSE "ok"
      <4>1. call'[u] = [call[u] EXCEPT !.found = None, !.answer = answer]
        BY <2>2, <3>1 DEF HandlerWalks
      <4>2. answer \in {"pending", "ok", "error"} /\ call[u] \in Calls
        BY <1>1
      <4> HIDE DEF answer
      <4>3. QED
        BY <1>1, <4>1, <4>2 DEF Calls
    <3>2. CASE u # t
      BY <1>1, <2>2, <3>2, OverheardFacts DEF HandlerWalks
    <3>3. QED
      BY <3>1, <3>2
  <2>3. QED
    BY <2>1, <2>2
<1>3. call' \in [Callers -> Calls]
  <2>1. call' = [u \in Callers |-> call'[u]]
    BY DEF GuiWalks, HandlerWalks
  <2>2. QED
    BY <1>2, <2>1
<1>4. ASSUME NEW u \in Callers PROVE CallInv(call[u])'
  BY <1>1, <1>2, Disturbed
<1>5. QED
  BY <1>3, <1>4 DEF CallsInv
--------------------------------------------------------------------------------
(* The rollback of an undisturbed invocation always finds a command to undo.       *)
LEMMA RollbackState ==
  ASSUME ToolInv, NEW t \in Callers, Undoing(t),
         call[t].found # None, call[t].counted <= Bound
  PROVE  /\ call[t].found[1] \in Snapshots /\ call[t].counted \in Nat /\ call[t].undone \in Nat
         /\ call[t].undone <= call[t].counted
         /\ Recovers(call[t].found[1], call[t].counted, call[t].counted - call[t].undone,
                     undo, past, project)
         /\ call[t].undone < call[t].counted => undo # <<>>
<1>1. call[t] \in Calls /\ CallInv(call[t])
  BY DEF ToolInv, CallsInv
<1>2. /\ call[t].found[1] \in Snapshots /\ call[t].counted \in Nat /\ call[t].undone \in Nat
      /\ call[t].undone <= call[t].counted
  BY <1>1, FoundIsSnapshot DEF CallInv, Calls
<1>3. Recovers(call[t].found[1], call[t].counted, call[t].counted - call[t].undone,
               undo, past, project)
  BY <1>1 DEF CallInv, Abortable, Undoing
<1>4. ASSUME call[t].undone < call[t].counted PROVE undo # <<>>
  <2>1. /\ call[t].counted - call[t].undone \in Nat \ {0}
        /\ call[t].counted - call[t].undone <= call[t].counted
    BY <1>2, <1>4
  <2>2. undo \in Seq(Commands) /\ past \in Seq(Projects) /\ Len(past) = Len(undo)
    BY DEF ToolInv, HistoryInv, TypeOK
  <2>3. QED
    BY <1>2, <1>3, <2>1, <2>2, UndoCloser
<1>5. QED
  BY <1>2, <1>3, <1>4

LEMMA StepUndoOne ==
  ASSUME Contract, ToolInv, NEW t \in Callers, UndoOne(t)
  PROVE  CallsInv'
<1>1. /\ call \in [Callers -> Calls] /\ \A u \in Callers : CallInv(call[u])
      /\ None \in Seq([project : Projects, undo : Seq(Commands)])
      /\ Undoing(t) /\ call[t].undone < call[t].counted
  BY EmptySeq DEF ToolInv, CallsInv, None, UndoOne
<1>2. ASSUME NEW u \in Callers, u # t
      PROVE  call'[u] \in Calls /\ CallInv(call[u])'
  <2>1. call'[u] = Overheard(call[u])
    BY <1>2 DEF UndoOne
  <2>2. /\ call'[u] \in Calls /\ call'[u].stage = call[u].stage
        /\ call'[u].undone = call[u].undone
        /\ call'[u].counted = call[u].counted /\ call'[u].found = None
    BY <1>1, <2>1, OverheardFacts
  <2>3. call[u] \in Calls /\ CallInv(call[u])
    BY <1>1
  <2>4. QED
    BY <1>2, <2>2, <2>3, Disturbed
<1>3. CASE reply'.outcome = "applied"
  <2>1. call'[t] = [call[t] EXCEPT !.undone = @ + 1]
    BY <1>3 DEF UndoOne
  <2>2. /\ call[t] \in Calls /\ call'[t] \in Calls /\ call'[t].stage = "undoing"
        /\ call'[t].undone = call[t].undone + 1
        /\ call'[t].counted = call[t].counted /\ call'[t].found = call[t].found
        /\ call[t].undone \in Nat /\ call[t].counted \in Nat
    <3>1. call[t] \in Calls /\ call[t].stage = "undoing"
      BY <1>1 DEF Undoing
    <3> DEFINE c == call[t]
               d == call'[t]
    <3>2. c \in Calls /\ d = [c EXCEPT !.undone = @ + 1] /\ c.stage = "undoing"
      BY <2>1, <3>1
    <3>3. /\ d \in Calls /\ d.stage = "undoing" /\ d.undone = c.undone + 1
          /\ d.counted = c.counted /\ d.found = c.found
          /\ c.undone \in Nat /\ c.counted \in Nat
      <4> HIDE DEF c, d
      <4>1. c.undone \in Nat /\ c.counted \in Nat
        BY <3>2 DEF Calls
      <4> DEFINE n == c.undone + 1
      <4>2. n \in Nat /\ d = [c EXCEPT !.undone = n]
        BY <3>2, <4>1
      <4>3. n = c.undone + 1
        OBVIOUS
      <4> HIDE DEF n
      <4>4. d \in Calls /\ d.stage = "undoing" /\ d.undone = n
            /\ d.counted = c.counted /\ d.found = c.found
        BY <3>2, <4>2 DEF Calls
      <4>5. QED
        BY <4>1, <4>3, <4>4
    <3>4. QED
      BY <3>1, <3>3
  <2>3. Undo
    BY <1>3 DEF UndoOne, NothingToDo, Reply
  <2>4. ASSUME call[t].found # None, call[t].counted <= Bound
        PROVE  Recovers(call[t].found[1], call[t].counted, call[t].counted - (call[t].undone + 1),
                        undo', past', project')
    <3> DEFINE f == call[t].found[1]
               m == call[t].counted
               n == call[t].counted - call[t].undone
    <3>1. /\ f \in Snapshots /\ m \in Nat /\ Recovers(f, m, n, undo, past, project)
          /\ n \in Nat \ {0} /\ n <= m /\ n - 1 = call[t].counted - (call[t].undone + 1)
      BY <1>1, <2>2, <2>4, RollbackState
    <3>2. undo \in Seq(Commands) /\ past \in Seq(Projects) /\ Len(past) = Len(undo)
      BY DEF ToolInv, HistoryInv, TypeOK
    <3>3. project' = Top(past) /\ past' = ButLast(past) /\ undo' = ButLast(undo)
      BY <1>3, <2>3, UndoReturns DEF ToolInv, Undo, Reply
    <3>4. m <= Bound
      BY <2>4
    <3> HIDE DEF f, m, n
    <3>5. Recovers(f, m, n - 1, undo', past', project')
      BY <3>1, <3>2, <3>3, <3>4, UndoCloser
    <3>6. QED
      BY <3>1, <3>5 DEF f, m
  <2>5. CallInv(call[t])'
    BY <1>1, <2>2, <2>4 DEF CallInv, Abortable, Bound
  <2>6. call' \in [Callers -> Calls]
    <3>1. call' = [u \in Callers |-> call'[u]]
      BY DEF UndoOne
    <3>2. QED
      BY <1>2, <2>2, <3>1
  <2>7. QED
    BY <1>2, <2>5, <2>6 DEF CallsInv
<1>4. CASE reply'.outcome # "applied"
  <2>1. call'[t] = Idle
    BY <1>4 DEF UndoOne
  <2>2. call'[t] \in Calls /\ CallInv(call[t])'
    BY <2>1, IdleFacts DEF CallInv, Abortable
  <2>3. call' \in [Callers -> Calls]
    <3>1. call' = [u \in Callers |-> call'[u]]
      BY DEF UndoOne
    <3>2. QED
      BY <1>2, <2>2, <3>1
  <2>4. QED
    BY <1>2, <2>2, <2>3 DEF CallsInv
<1>5. QED
  BY <1>3, <1>4

LEMMA NextTool ==
  ASSUME Contract, ToolInv, [ToolNext]_toolVars
  PROVE  ToolInv'
<1>1. HistoryInv'
  BY ToolStepIsEngineStep, NextHistory DEF ToolInv
<1>2. ASSUME Applying PROVE CallsInv'
  BY <1>2, StepEdits
<1>3. ASSUME GuiWalks \/ \E t \in Callers : HandlerWalks(t) PROVE CallsInv'
  BY <1>3, StepWalks
<1>4. ASSUME NEW t \in Callers, Begin(t) PROVE CallsInv'
  BY <1>4, StepBegin
<1>5. ASSUME NEW t \in Callers, Return(t) PROVE CallsInv'
  <2>1. call[t] \in Calls /\ UNCHANGED vars /\ call[t].stage = "running"
    BY <1>5 DEF ToolInv, CallsInv, Return, Running
  <2>2. PICK new \in {Idle, [call[t] EXCEPT !.stage = "undoing", !.answer = "error"]} :
          call' = [call EXCEPT ![t] = new]
    BY <1>5 DEF Return
  <2>3. CASE new = Idle
    BY <2>1, <2>2, <2>3, IdleFacts, StepStage
  <2>4. CASE new = [call[t] EXCEPT !.stage = "undoing", !.answer = "error"]
    <3>1. /\ new \in Calls /\ new.stage = "undoing" /\ new.found = call[t].found
          /\ new.counted = call[t].counted /\ new.undone = call[t].undone
      BY <2>1, <2>4 DEF Calls
    <3>2. QED
      BY <2>1, <2>2, <3>1, StepStage
  <2>5. QED
    BY <2>2, <2>3, <2>4
<1>6. ASSUME NEW t \in Callers, Answer(t) PROVE CallsInv'
  BY <1>6, IdleFacts, StepStage DEF Answer
<1>7. ASSUME NEW t \in Callers, UndoOne(t) PROVE CallsInv'
  BY <1>7, StepUndoOne
<1>8. ASSUME UNCHANGED toolVars PROVE CallsInv'
  <2>1. CallsInv /\ UNCHANGED vars /\ call' = call
    BY <1>8 DEF ToolInv, toolVars
  <2>2. ASSUME NEW t \in Callers PROVE CallInv(call[t])'
    BY <2>1, Untouched
  <2>3. QED
    BY <2>1, <2>2 DEF CallsInv
<1>9. QED
  BY <1>1, <1>2, <1>3, <1>4, <1>5, <1>6, <1>7, <1>8 DEF ToolInv, ToolNext, Moving

-----------------------------------------------------------------------------------
(* Whatever the callers of McpToolExecutor do, the engine only ever sees the four *)
(* operations it offers, so all that holds of the engine holds of it under them.  *)
THEOREM ToolsUseEngine == ToolSpec => Spec
<1>1. ToolInit => Init
  BY DEF ToolInit
<1>2. [ToolNext]_toolVars => [Next]_vars
  BY ToolStepIsEngineStep
<1>3. QED
  BY <1>1, <1>2, PTL DEF ToolSpec, Spec

(* Every undisturbed invocation of McpToolExecutor can be rolled back to where it *)
(* began, at every point of its handler and of its rollback.                       *)
THEOREM ToolInvariant ==
  ASSUME Contract
  PROVE  ToolSpec => []ToolInv
<1>1. ToolInit => ToolInv
  <2>1. SUFFICES ASSUME ToolInit PROVE ToolInv
    OBVIOUS
  <2>2. HistoryInv
    BY <2>1, InitHistory DEF ToolInit
  <2>3. CallsInv
    BY <2>1, IdleFacts DEF ToolInit, CallsInv, CallInv, Abortable
  <2>4. QED
    BY <2>2, <2>3 DEF ToolInv
<1>2. ToolInv /\ [ToolNext]_toolVars => ToolInv'
  BY NextTool
<1>3. QED
  BY <1>1, <1>2, PTL DEF ToolSpec

(* The state of the executor and the engine below it stays typed.                  *)
THEOREM ToolsTyped ==
  ASSUME Contract
  PROVE  ToolSpec => []ToolTypeOK
<1>1. ToolInv => ToolTypeOK
  BY DEF ToolInv, HistoryInv, CallsInv, ToolTypeOK
<1>2. QED
  BY <1>1, ToolInvariant, PTL

(* The rollback of McpToolExecutor restores the project exactly, and the undo     *)
(* history but for the entries the aborted commands evicted.                       *)
THEOREM ToolsAbortRestores ==
  ASSUME Contract
  PROVE  ToolSpec => AbortRestores
<1>1. ASSUME ToolInv, [ToolNext]_toolVars, NEW t \in Callers,
             Undoing(t), call'[t].stage = "idle",
             call[t].found # None, call[t].counted <= Bound
      PROVE  /\ project' = Found(t).project
             /\ undo' = Kept(Found(t).undo, call[t].counted)
  <2>1. /\ call \in [Callers -> Calls] /\ call[t] \in Calls /\ call[t].stage = "undoing"
        /\ undo \in Seq(Commands)
    BY <1>1 DEF ToolInv, CallsInv, Undoing, HistoryInv, TypeOK
  <2>2. CASE Answer(t)
    <3>1. /\ Found(t) \in Snapshots /\ call[t].counted \in Nat
          /\ Recovers(Found(t), call[t].counted, 0, undo, past, project)
      BY <1>1, <2>2, RollbackState DEF Answer, Found
    <3>2. project = Found(t).project /\ undo = Kept(Found(t).undo, call[t].counted)
      BY <1>1, <2>1, <3>1, FullyUndone
    <3>3. QED
      BY <2>2, <3>2 DEF Answer, vars
  <2>3. CASE UndoOne(t)
    <3>1. reply'.outcome # "applied"
      BY <1>1, <2>1, <2>3 DEF UndoOne, Calls
    <3>2. undo # <<>> /\ Undo
      BY <1>1, <2>3, RollbackState DEF UndoOne
    <3>3. QED
      BY <1>1, <3>1, <3>2, UndoReturns DEF ToolInv, Reply
  <2>4. CASE ~Answer(t) /\ ~UndoOne(t)
    <3>1. call'[t].stage = call[t].stage
      <4>1. CASE GuiEdits
        BY <2>1, <4>1, HeardFacts DEF GuiEdits
      <4>2. CASE GuiWalks
        BY <2>1, <4>2, OverheardFacts DEF GuiWalks
      <4>3. ASSUME NEW u \in Callers, HandlerEdits(u) PROVE call'[t].stage = call[t].stage
        <5>1. u # t
          BY <2>1, <4>3 DEF HandlerEdits, Running
        <5>2. QED
          BY <2>1, <4>3, <5>1, HeardFacts DEF HandlerEdits
      <4>4. ASSUME NEW u \in Callers, HandlerWalks(u) PROVE call'[t].stage = call[t].stage
        <5>1. u # t
          BY <2>1, <4>4 DEF HandlerWalks, Running
        <5>2. QED
          BY <2>1, <4>4, <5>1, OverheardFacts DEF HandlerWalks
      <4>5. ASSUME NEW u \in Callers, Begin(u) \/ Return(u) PROVE call'[t].stage = call[t].stage
        <5>1. u # t
          BY <2>1, <4>5 DEF Begin, Return, Running
        <5>2. QED
          BY <2>1, <4>5, <5>1 DEF Begin, Return
      <4>6. ASSUME NEW u \in Callers, u # t, UndoOne(u) \/ Answer(u)
            PROVE  call'[t].stage = call[t].stage
        BY <2>1, <4>6, OverheardFacts DEF UndoOne, Answer
      <4>7. CASE UNCHANGED toolVars
        BY <4>7 DEF toolVars
      <4>8. QED
        BY <1>1, <2>4, <4>1, <4>2, <4>3, <4>4, <4>5, <4>6, <4>7 DEF ToolNext, Applying, Moving
    <3>2. QED
      BY <1>1, <2>1, <3>1
  <2>5. QED
    BY <2>2, <2>3, <2>4
<1>2. ASSUME ToolInv, [ToolNext]_toolVars
      PROVE  [\A t \in Callers :
                /\ Undoing(t) /\ call'[t].stage = "idle"
                /\ call[t].found # None /\ call[t].counted <= Bound
                => /\ project' = Found(t).project
                   /\ undo' = Kept(Found(t).undo, call[t].counted)]_toolVars
  BY <1>1, <1>2
<1>3. QED
  BY <1>2, ToolInvariant, PTL DEF ToolSpec, AbortRestores

-----------------------------------------------------------------------------------
(* The sessions. *)

Minted ==
  /\ issued \in 0..MaxIssued /\ active \in Nat
  /\ DOMAIN live \subseteq 1..issued
  /\ live \in [DOMAIN live -> [initialized : BOOLEAN, idle : 0..(IdleTimeout + 1)]]

SessionsInv == Minted /\ SessionsBounded

(* What a step may do to the sessions.                                             *)
StaysDead == \A id \in (1..issued) \ DOMAIN live : id \notin DOMAIN live'
StaysUsable == \A id \in DOMAIN live : live[id].idle <= IdleTimeout => id \in DOMAIN live'

-----------------------------------------------------------------------------------
LEMMA LiveFinite == ASSUME Minted PROVE IsFiniteSet(DOMAIN live) /\ Cardinality(DOMAIN live) \in Nat
<1>1. IsFiniteSet(1..issued)
  <2>1. 1 \in Int /\ issued \in Int
    BY DEF Minted
  <2>2. QED
    BY <2>1, FS_Interval
<1>2. IsFiniteSet(DOMAIN live)
  BY <1>1, FS_Subset DEF Minted
<1>3. QED
  BY <1>2, FS_CardinalityType

(* Sessions age, are touched, are closed, or nothing happens to them.              *)
LEMMA NoneIsAdded ==
  ASSUME SessionsInv, UNCHANGED <<issued, active>>,
         DOMAIN live' \subseteq DOMAIN live,
         live' \in [DOMAIN live' -> [initialized : BOOLEAN, idle : 0..(IdleTimeout + 1)]]
  PROVE  SessionsInv' /\ StaysDead
<1>1. Minted' /\ StaysDead
  BY DEF SessionsInv, Minted, StaysDead
<1>2. Cardinality(DOMAIN live') <= Cardinality(DOMAIN live) /\ Cardinality(DOMAIN live') \in Nat
  BY <1>1, LiveFinite, FS_Subset, FS_CardinalityType DEF SessionsInv
<1>3. SessionsBounded'
  BY <1>2, LiveFinite, EndpointAssumption DEF SessionsInv, SessionsBounded, Minted
<1>4. QED
  BY <1>1, <1>3 DEF SessionsInv

LEMMA NothingHappens ==
  ASSUME SessionsInv, UNCHANGED <<live, issued, active>>
  PROVE  SessionsInv' /\ StaysDead /\ StaysUsable
BY DEF SessionsInv, Minted, SessionsBounded, StaysDead, StaysUsable

(* What expireIdle() keeps.                                                        *)
LEMMA ExpireIdleKeeps ==
  ASSUME SessionsInv
  PROVE  /\ DOMAIN ExpireIdle(live) = {id \in DOMAIN live : live[id].idle <= IdleTimeout}
         /\ ExpireIdle(live) \in [DOMAIN ExpireIdle(live) -> [initialized : BOOLEAN, idle : 0..(IdleTimeout + 1)]]
         /\ IsFiniteSet(DOMAIN ExpireIdle(live))
         /\ Cardinality(DOMAIN ExpireIdle(live)) \in Nat
         /\ Cardinality(DOMAIN ExpireIdle(live)) <= Cardinality(DOMAIN live)
<1>1. /\ DOMAIN ExpireIdle(live) = {id \in DOMAIN live : live[id].idle <= IdleTimeout}
      /\ \A id \in DOMAIN ExpireIdle(live) : ExpireIdle(live)[id] = live[id]
      /\ ExpireIdle(live) = [id \in DOMAIN ExpireIdle(live) |-> live[id]]
  BY EndpointAssumption DEF ExpireIdle, IdleTooLong, Restrict, SessionsInv, Minted
<1>2. DOMAIN ExpireIdle(live) \subseteq DOMAIN live
  BY <1>1
<1>3. ExpireIdle(live) \in [DOMAIN ExpireIdle(live) -> [initialized : BOOLEAN, idle : 0..(IdleTimeout + 1)]]
  BY <1>1, <1>2 DEF SessionsInv, Minted
<1>4. QED
  BY <1>1, <1>2, <1>3, LiveFinite, FS_Subset, FS_CardinalityType DEF SessionsInv

-----------------------------------------------------------------------------------
LEMMA EndpointStarts == EndpointInit => SessionsInv
<1> SUFFICES ASSUME EndpointInit PROVE SessionsInv
  OBVIOUS
<1>1. DOMAIN live = {}
  BY DEF EndpointInit
<1>2. Cardinality(DOMAIN live) = 0
  BY <1>1, FS_EmptySet
<1>3. QED
  BY <1>1, <1>2, EndpointAssumption DEF EndpointInit, SessionsInv, Minted, SessionsBounded

(* A new session is one more than those that are left.                             *)
LEMMA InitializeKeeps ==
  ASSUME SessionsInv, NEW method, NEW id, Initialize(method, id)
  PROVE  SessionsInv' /\ StaysDead /\ StaysUsable
<1> DEFINE left == DOMAIN ExpireIdle(live)
<1>1. CASE Cardinality(left) < MaxSessions
  <2>1. /\ issued' = issued + 1 /\ active' = active + 1
        /\ DOMAIN live' = left \cup {issued + 1}
        /\ live' \in [DOMAIN live' -> [initialized : BOOLEAN, idle : 0..(IdleTimeout + 1)]]
    <3>1. /\ issued' = issued + 1 /\ active' = active + 1
          /\ live' = [new \in left \cup {issued + 1} |->
                       IF new = issued + 1 THEN [initialized |-> FALSE, idle |-> 0] ELSE live[new]]
      BY <1>1 DEF Initialize
    <3>2. \A old \in left : live[old] \in [initialized : BOOLEAN, idle : 0..(IdleTimeout + 1)]
      BY ExpireIdleKeeps DEF SessionsInv, Minted
    <3>3. [initialized |-> FALSE, idle |-> 0] \in [initialized : BOOLEAN, idle : 0..(IdleTimeout + 1)]
      BY EndpointAssumption
    <3>4. QED
      BY <3>1, <3>2, <3>3
  <2>2. issued + 1 \notin left /\ left \subseteq 1..issued
    BY ExpireIdleKeeps DEF SessionsInv, Minted
  <2>3. Cardinality(DOMAIN live') = Cardinality(left) + 1
    BY <2>1, <2>2, ExpireIdleKeeps, FS_AddElement
  <2>4. Minted'
    <3>1. issued' \in 0..MaxIssued
      BY <1>1, <2>1, EndpointAssumption DEF SessionsInv, Minted, Initialize
    <3>2. QED
      BY <2>1, <2>2, <3>1 DEF SessionsInv, Minted
  <2>5. SessionsBounded'
    BY <1>1, <2>1, <2>3, ExpireIdleKeeps, LiveFinite, EndpointAssumption
    DEF SessionsInv, SessionsBounded, Minted
  <2>6. StaysDead /\ StaysUsable
    BY <2>1, ExpireIdleKeeps DEF StaysDead, StaysUsable, SessionsInv, Minted
  <2>7. QED
    BY <2>4, <2>5, <2>6 DEF SessionsInv
<1>2. CASE ~(Cardinality(left) < MaxSessions)
  <2>1. live' = ExpireIdle(live) /\ UNCHANGED <<issued, active>>
    BY <1>2 DEF Initialize
  <2>2. QED
    BY <2>1, ExpireIdleKeeps, NoneIsAdded DEF StaysUsable
<1>3. QED
  BY <1>1, <1>2

(* touch() closes a session only when it was idle for too long.                    *)
LEMMA UnknownKeeps ==
  ASSUME SessionsInv, NEW method, NEW id, Unknown(method, id)
  PROVE  SessionsInv' /\ StaysDead /\ StaysUsable
<1>1. CASE id \notin DOMAIN live
  BY <1>1, NothingHappens DEF Unknown
<1>2. CASE id \in DOMAIN live
  <2>1. live' = [other \in DOMAIN live \ {id} |-> live[other]] /\ UNCHANGED <<issued, active>>
    BY <1>2 DEF Unknown, Closed, Restrict
  <2>2. DOMAIN live' = DOMAIN live \ {id} /\ ~(live[id].idle <= IdleTimeout)
    BY <1>2, <2>1, ExpireIdleKeeps DEF Unknown
  <2>3. live' \in [DOMAIN live' -> [initialized : BOOLEAN, idle : 0..(IdleTimeout + 1)]]
    BY <2>1, <2>2 DEF SessionsInv, Minted
  <2>4. QED
    BY <2>1, <2>2, <2>3, NoneIsAdded DEF StaysUsable
<1>3. QED
  BY <1>1, <1>2

(* A request of a session that is known sets its idle time back.                   *)
LEMMA KnownKeeps ==
  ASSUME SessionsInv, NEW method, NEW id,
         Initialized(method, id) \/ List(method, id) \/ Call(method, id)
  PROVE  SessionsInv' /\ StaysDead /\ StaysUsable
<1>1. id \in DOMAIN live /\ UNCHANGED <<issued, active>>
  BY ExpireIdleKeeps DEF Initialized, List, Call, Known
<1>2. DOMAIN live' = DOMAIN live
      /\ live' \in [DOMAIN live' -> [initialized : BOOLEAN, idle : 0..(IdleTimeout + 1)]]
  <2>1. PICK state \in [initialized : BOOLEAN, idle : 0..(IdleTimeout + 1)] : live' = [live EXCEPT ![id] = state]
    <3>1. CASE Initialized(method, id)
      <4>1. [initialized |-> TRUE, idle |-> 0] \in [initialized : BOOLEAN, idle : 0..(IdleTimeout + 1)]
        BY EndpointAssumption
      <4>2. QED
        BY <3>1, <4>1 DEF Initialized
    <3>2. CASE List(method, id) \/ Call(method, id)
      <4>1. [live[id] EXCEPT !.idle = 0] \in [initialized : BOOLEAN, idle : 0..(IdleTimeout + 1)]
        BY <1>1, EndpointAssumption DEF SessionsInv, Minted
      <4>2. live' = [live EXCEPT ![id] = [live[id] EXCEPT !.idle = 0]]
        BY <3>2 DEF List, Call, Touched
      <4>3. QED
        BY <4>1, <4>2
    <3>3. QED
      BY <3>1, <3>2
  <2>2. live \in [DOMAIN live -> [initialized : BOOLEAN, idle : 0..(IdleTimeout + 1)]]
    BY DEF SessionsInv, Minted
  <2>3. QED
    BY <2>1, <2>2
<1>3. QED
  BY <1>1, <1>2, NoneIsAdded DEF StaysUsable

LEMMA TickKeeps == ASSUME SessionsInv, Tick PROVE SessionsInv' /\ StaysDead /\ StaysUsable
<1>1. live' = [id \in DOMAIN live |-> [live[id] EXCEPT !.idle = Older(@, IdleTimeout)]]
      /\ UNCHANGED <<issued, active>>
  BY DEF Tick
<1>2. \A id \in DOMAIN live :
        [live[id] EXCEPT !.idle = Older(@, IdleTimeout)] \in [initialized : BOOLEAN, idle : 0..(IdleTimeout + 1)]
  BY EndpointAssumption DEF Older, SessionsInv, Minted
<1>3. DOMAIN live' = DOMAIN live
      /\ live' \in [DOMAIN live' -> [initialized : BOOLEAN, idle : 0..(IdleTimeout + 1)]]
  BY <1>1, <1>2
<1>4. QED
  BY <1>1, <1>3, NoneIsAdded DEF StaysUsable

-----------------------------------------------------------------------------------
LEMMA EndpointStep ==
  SessionsInv /\ [EndpointNext]_endpointVars => SessionsInv' /\ StaysDead /\ StaysUsable
<1> SUFFICES ASSUME SessionsInv, [EndpointNext]_endpointVars
             PROVE  SessionsInv' /\ StaysDead /\ StaysUsable
  OBVIOUS
<1>1. CASE UNCHANGED endpointVars
  BY <1>1, NothingHappens DEF endpointVars, gateVars
<1>2. CASE Start \/ StopRequest \/ StopReturn \/ \E c \in Clients : Connect(c)
  BY <1>2, NothingHappens DEF Start, StopRequest, StopReturn, Connect, gateVars
<1>3. CASE \/ StopSeen \/ ConnectionSeen \/ CallReturns
           \/ Accept \/ AcceptFails \/ Handshake \/ HandshakeFails \/ ReadFails
  BY <1>3, NothingHappens
  DEF StopSeen, ConnectionSeen, CallReturns, Accept, AcceptFails, Handshake, HandshakeFails,
      ReadFails, gateVars
<1>4. CASE Dispatch
  <2>1. CASE Stray \/ RefusedBlocked \/ RefusedCredential \/ RefusedOrigin \/ RefusedCeiling
    BY <2>1, NothingHappens
    DEF Stray, RefusedBlocked, RefusedCredential, RefusedOrigin, RefusedCeiling, gateVars
  <2>2. CASE \E method \in Methods, id \in Sessions :
               \/ Report(method, id) \/ Initialize(method, id) \/ Unknown(method, id)
               \/ Initialized(method, id) \/ List(method, id) \/ Call(method, id)
    <3>1. PICK method \in Methods, id \in Sessions :
               \/ Report(method, id) \/ Initialize(method, id) \/ Unknown(method, id)
               \/ Initialized(method, id) \/ List(method, id) \/ Call(method, id)
      BY <2>2
    <3>2. CASE Report(method, id)
      BY <3>2, NothingHappens DEF Report
    <3>3. QED
      BY <3>1, <3>2, InitializeKeeps, UnknownKeeps, KnownKeeps
  <2>3. QED
    BY <1>4, <2>1, <2>2 DEF Dispatch
<1>5. CASE Tick
  BY <1>5, TickKeeps
<1>6. QED
  BY <1>1, <1>2, <1>3, <1>4, <1>5 DEF EndpointNext, Serve

-----------------------------------------------------------------------------------
(* Whatever clients ask for: the registry holds no more sessions than it may, and   *)
(* the gate counts at least as many.                                               *)
THEOREM EndpointBounded == EndpointSpec => []SessionsBounded
<1>1. SessionsInv => SessionsBounded
  BY DEF SessionsInv
<1>2. SessionsInv /\ [EndpointNext]_endpointVars => SessionsInv'
  BY EndpointStep
<1>3. QED
  BY <1>1, <1>2, EndpointStarts, PTL DEF EndpointSpec

(* No request, refused or admitted, ends a session that is in use, and none brings  *)
(* back an identifier that was closed or has expired.                              *)
THEOREM EndpointKeepsSessions == EndpointSpec => SessionsKept
<1>1. SessionsInv /\ [EndpointNext]_endpointVars => SessionsInv'
  BY EndpointStep
<1>2. SessionsInv /\ [EndpointNext]_endpointVars => StaysDead /\ StaysUsable
  BY EndpointStep
<1>3. SessionsInv /\ [EndpointNext]_endpointVars
        => /\ [\A id \in (1..issued) \ DOMAIN live : id \notin DOMAIN live']_endpointVars
           /\ [\A id \in DOMAIN live : live[id].idle <= IdleTimeout => id \in DOMAIN live']_endpointVars
  BY <1>2 DEF StaysDead, StaysUsable
<1>4. QED
  BY <1>1, <1>3, EndpointStarts, PTL DEF EndpointSpec, SessionsKept, DeadStaysDead, EstablishedStayUsable

-----------------------------------------------------------------------------------
(* The accept thread and the gate. *)

(* Ages in the order of time: the oldest first.                                    *)
Ordered(ages) == \A i, j \in DOMAIN ages : i <= j => ages[j] <= ages[i]

(* What the gate keeps of a source, and the refusals since the last admission: a   *)
(* source that is not blocked is remembered for each of them, at the end of its    *)
(* failures; one that is blocked has had none since the block began, and has none  *)
(* that is younger than the block.                                                  *)
Watched(s, ages) ==
  /\ Ordered(s.failures) /\ Ordered(ages)
  /\ \A i \in DOMAIN ages : ages[i] <= Window /\ ages[i] < Block
  /\ s.left = NoBlock =>
       /\ Len(ages) <= Len(s.failures) /\ Len(s.failures) < Threshold
       /\ \A i \in DOMAIN ages : s.failures[Len(s.failures) - Len(ages) + i] = ages[i]
  /\ s.left # NoBlock =>
       /\ Len(ages) <= Threshold
       /\ \A i \in DOMAIN ages : ages[i] + s.left >= Block

SourceStates == [failures : Seq(Nat), left : {NoBlock} \cup 0..Block]

SourcesTyped == source \in [Clients -> SourceStates] /\ tried \in [Clients -> Seq(Nat)]

SourcesWatched == \A c \in Clients : Watched(source[c], tried[c])

(* The accept thread and the connections.                                          *)
ThreadTyped ==
  /\ decision \in [loopbackOnly : BOOLEAN, tlsEnabled : BOOLEAN]
  /\ running \in BOOLEAN /\ stopping \in BOOLEAN
  /\ thread \in {"none", "polling", "accepting", "handshake", "receiving", "calling", "ended"}
  /\ serving \in Clients \cup {Nobody} /\ backlog \in Seq(Clients)

EndpointInv ==
  /\ SessionsInv /\ ThreadTyped /\ ThreadWhileRunning /\ SourcesTyped /\ SourcesWatched

-----------------------------------------------------------------------------------
(* Ages in the order of time that are within a limit are an end of the sequence.   *)
LEMMA WithinIsAnEnd ==
  ASSUME NEW ages \in Seq(Nat), Ordered(ages), NEW limit \in Int
  PROVE  \E n \in 0..Len(ages) :
           /\ \A i \in DOMAIN ages : ages[i] > limit <=> i <= n
           /\ Within(ages, limit) \in Seq(Nat)
           /\ DOMAIN Within(ages, limit) = 1..(Len(ages) - n)
           /\ Len(Within(ages, limit)) = Len(ages) - n
           /\ \A i \in 1..(Len(ages) - n) : Within(ages, limit)[i] = ages[n + i]
           /\ Ordered(Within(ages, limit))
           /\ \A i \in DOMAIN Within(ages, limit) : Within(ages, limit)[i] <= limit
<1> DEFINE size == Len(ages)
           Ends == {m \in 0..size : \A i \in 1..size : i > m => ages[i] <= limit}
           Split(n) == \A i \in DOMAIN ages : ages[i] > limit <=> i <= n
           old == CHOOSE n \in 0..size : Split(n)
           rest == SubSeq(ages, old + 1, size)
<1>1. size \in Nat /\ DOMAIN ages = 1..size /\ \A i \in 1..size : ages[i] \in Nat
  OBVIOUS
<1>2. Within(ages, limit) = rest
  BY DEF Within
<1> HIDE DEF size
<1>3. size \in Ends
  BY <1>1
<1>4. PICK m \in Ends : \A k \in Ends : m <= k
  <2>1. Ends \in SUBSET Nat /\ Ends # {}
    <3>1. \A m \in 0..size : m \in Nat
      BY <1>1
    <3>2. QED
      BY <3>1, <1>3
  <2> HIDE DEF Ends
  <2>2. QED
    BY <2>1, LeastOf
<1>5. ASSUME NEW i \in 1..size, i <= m PROVE ages[i] > limit
  <2>1. SUFFICES ASSUME ages[i] <= limit PROVE FALSE
    BY <1>1, <1>5
  <2>2. \A j \in 1..size : j > i - 1 => ages[j] <= limit
    <3>1. SUFFICES ASSUME NEW j \in 1..size, j > i - 1 PROVE ages[j] <= limit
      OBVIOUS
    <3>2. i <= j /\ i \in DOMAIN ages /\ j \in DOMAIN ages
      BY <1>1, <3>1
    <3>3. ages[j] <= ages[i]
      BY <3>2 DEF Ordered
    <3>4. ages[i] \in Nat /\ ages[j] \in Nat
      BY <1>1
    <3>5. QED
      BY <3>3, <3>4, <2>1
  <2>3. i - 1 \in Ends
    BY <1>1, <2>2, <1>5
  <2>4. QED
    BY <1>4, <2>3, <1>5
<1>6. m \in 0..size /\ Split(m)
  BY <1>1, <1>4, <1>5
<1>7. old \in 0..size /\ Split(old)
  <2> HIDE DEF Split
  <2>1. QED
    BY <1>6
<1> HIDE DEF old
<1>8. /\ rest \in Seq(Nat) /\ Len(rest) = size - old
      /\ \A i \in 1..(size - old) : rest[i] = ages[old + i]
  <2>1. old + 1 \in Int /\ size \in Int /\ \A i \in old + 1 .. size : ages[i] \in Nat
    BY <1>1, <1>7
  <2>2. /\ rest \in Seq(Nat)
        /\ Len(rest) = IF old + 1 <= size THEN size - (old + 1) + 1 ELSE 0
        /\ \A i \in 1..(size - (old + 1) + 1) : rest[i] = ages[(old + 1) + i - 1]
    BY <2>1, SubSeqProperties
  <2> HIDE DEF rest
  <2>3. QED
    BY <2>2, <1>1, <1>7
<1> HIDE DEF rest
<1>9. DOMAIN rest = 1..(size - old)
  BY <1>8
<1>10. \A i \in 1..(size - old) : rest[i] <= limit
  <2> SUFFICES ASSUME NEW i \in 1..(size - old) PROVE rest[i] <= limit
    OBVIOUS
  <2>1. old + i \in DOMAIN ages /\ ~(old + i <= old)
    BY <1>1, <1>7
  <2>2. ~(ages[old + i] > limit) /\ ages[old + i] \in Nat
    BY <2>1, <1>1, <1>7
  <2>3. QED
    BY <2>2, <1>8
<1>11. Ordered(rest)
  <2>1. ASSUME NEW i \in 1..(size - old), NEW j \in 1..(size - old), i <= j PROVE rest[j] <= rest[i]
    <3>1. old + i \in 1..size /\ old + j \in 1..size /\ old + i <= old + j
      BY <1>1, <1>7, <2>1
    <3>2. ages[old + j] <= ages[old + i]
      BY <3>1, <1>1 DEF Ordered
    <3>3. QED
      BY <3>2, <1>8
  <2>2. QED
    BY <1>9, <2>1 DEF Ordered
<1>12. QED
  BY <1>2, <1>7, <1>8, <1>9, <1>10, <1>11 DEF size

LEMMA AppendedAge ==
  ASSUME NEW ages \in Seq(Nat), Ordered(ages)
  PROVE  /\ Append(ages, 0) \in Seq(Nat) /\ Ordered(Append(ages, 0))
         /\ Len(Append(ages, 0)) = Len(ages) + 1 /\ DOMAIN Append(ages, 0) = 1..(Len(ages) + 1)
         /\ \A i \in 1..Len(ages) : Append(ages, 0)[i] = ages[i]
         /\ Append(ages, 0)[Len(ages) + 1] = 0
<1> DEFINE more == Append(ages, 0)
<1>1. /\ Len(ages) \in Nat /\ \A i \in 1..Len(ages) : ages[i] \in Nat
      /\ more \in Seq(Nat) /\ Len(more) = Len(ages) + 1 /\ DOMAIN more = 1..(Len(ages) + 1)
      /\ \A i \in 1..Len(ages) : more[i] = ages[i]
      /\ more[Len(ages) + 1] = 0 /\ DOMAIN ages = 1..Len(ages)
  OBVIOUS
<1> HIDE DEF more
<1>2. Ordered(more)
  BY SMTT(30), <1>1 DEF Ordered
<1>3. QED
  BY <1>1, <1>2 DEF more

-----------------------------------------------------------------------------------
(* A refusal is remembered, and the one that fills the window blocks its source.   *)
LEMMA FailureIsWatched ==
  ASSUME NEW s \in SourceStates, NEW ages \in Seq(Nat), Watched(s, ages), s.left = NoBlock
  PROVE  /\ NoteAuthFailure(s) \in SourceStates
         /\ Watched(NoteAuthFailure(s), Append(ages, 0))
<1> USE EndpointAssumption
<1> DEFINE f == s.failures
           recent == Within(f, Window)
           all == Append(recent, 0)
           tries == Append(ages, 0)
           t == NoteAuthFailure(s)
<1>1. f \in Seq(Nat) /\ Ordered(f) /\ Len(f) \in Nat /\ Len(ages) \in Nat /\ Ordered(ages)
      /\ DOMAIN ages = 1..Len(ages)
      /\ DOMAIN f = 1..Len(f) /\ Len(ages) <= Len(f) /\ Len(f) < Threshold
      /\ \A i \in 1..Len(ages) : f[Len(f) - Len(ages) + i] = ages[i] /\ ages[i] <= Window /\ ages[i] < Block
  BY SMTT(30) DEF Watched, SourceStates
<1>2. t = [failures |-> all, left |-> IF Len(all) >= Threshold THEN Block ELSE NoBlock]
  BY DEF NoteAuthFailure
<1> HIDE DEF t, f
<1>3. PICK n \in 0..Len(f) :
           /\ \A i \in DOMAIN f : f[i] > Window <=> i <= n
           /\ recent \in Seq(Nat)
           /\ DOMAIN recent = 1..(Len(f) - n)
           /\ Len(recent) = Len(f) - n
           /\ \A i \in 1..(Len(f) - n) : recent[i] = f[n + i]
           /\ Ordered(recent)
  <2>1. Window \in Int
    OBVIOUS
  <2>2. QED
    BY <1>1, <2>1, WithinIsAnEnd
<1> HIDE DEF recent
<1>4. /\ all \in Seq(Nat) /\ Ordered(all) /\ Len(all) = Len(recent) + 1
      /\ DOMAIN all = 1..(Len(recent) + 1)
      /\ \A i \in 1..Len(recent) : all[i] = recent[i]
      /\ all[Len(recent) + 1] = 0
  BY <1>3, AppendedAge
<1>5. /\ tries \in Seq(Nat) /\ Ordered(tries) /\ Len(tries) = Len(ages) + 1
      /\ DOMAIN tries = 1..(Len(ages) + 1)
      /\ \A i \in 1..Len(ages) : tries[i] = ages[i]
      /\ tries[Len(ages) + 1] = 0
  BY <1>1, AppendedAge
<1> HIDE DEF all, tries
<1>6. t \in SourceStates /\ t.failures = all
      /\ t.left = IF Len(all) >= Threshold THEN Block ELSE NoBlock
  BY <1>2, <1>4 DEF SourceStates
<1>7. Len(ages) <= Len(f) - n
  <2>1. CASE Len(ages) = 0
    BY <2>1, <1>1
  <2>2. CASE Len(ages) > 0
    <3>1. 1 \in 1..Len(ages) /\ Len(f) - Len(ages) + 1 \in DOMAIN f
      BY <2>2, <1>1
    <3>2. f[Len(f) - Len(ages) + 1] <= Window
      BY <3>1, <1>1
    <3>3. f[Len(f) - Len(ages) + 1] \in Nat
      BY <3>1, <1>1
    <3>4. ~(Len(f) - Len(ages) + 1 <= n)
      <4>1. ~(f[Len(f) - Len(ages) + 1] > Window)
        BY <3>2, <3>3
      <4>2. QED
        BY <4>1, <3>1, <1>3
    <3>5. QED
      BY <3>4, <1>1
  <2>3. QED
    BY <2>1, <2>2, <1>1
<1>8. \A i \in DOMAIN tries : all[Len(all) - Len(tries) + i] = tries[i]
  <2> SUFFICES ASSUME NEW i \in 1..(Len(ages) + 1) PROVE all[Len(all) - Len(tries) + i] = tries[i]
    BY <1>5
  <2>1. CASE i = Len(ages) + 1
    BY SMTT(30), <2>1, <1>4, <1>5, <1>3, <1>1
  <2>2. CASE i \in 1..Len(ages)
    <3>1. Len(all) - Len(tries) + i = (Len(f) - n) - Len(ages) + i
      BY <1>1, <1>3, <1>4, <1>5
    <3>2. (Len(f) - n) - Len(ages) + i \in 1..(Len(f) - n)
      BY <2>2, <1>1, <1>3, <1>7
    <3>3. recent[(Len(f) - n) - Len(ages) + i] = f[n + ((Len(f) - n) - Len(ages) + i)]
      BY <3>2, <1>3
    <3>4. n + ((Len(f) - n) - Len(ages) + i) = Len(f) - Len(ages) + i
      BY <1>1
    <3>5. all[(Len(f) - n) - Len(ages) + i] = recent[(Len(f) - n) - Len(ages) + i]
      BY <3>2, <1>3, <1>4
    <3>6. QED
      BY <3>1, <3>3, <3>4, <3>5, <2>2, <1>1, <1>5
  <2>3. QED
    BY <2>1, <2>2, <1>1
<1>9. \A i \in DOMAIN tries : tries[i] <= Window /\ tries[i] < Block
  <2> SUFFICES ASSUME NEW i \in 1..(Len(ages) + 1) PROVE tries[i] <= Window /\ tries[i] < Block
    BY <1>5
  <2>1. CASE i = Len(ages) + 1
    BY <2>1, <1>5
  <2>2. CASE i \in 1..Len(ages)
    BY <2>2, <1>1, <1>5
  <2>3. QED
    BY <2>1, <2>2, <1>1
<1>10. ASSUME Len(all) >= Threshold PROVE Watched(t, tries)
  <2>1. t.left = Block /\ t.left # NoBlock
    BY <1>6, <1>10 DEF NoBlock
  <2>2. Len(tries) <= Threshold
    BY <1>1, <1>5
  <2>3. \A i \in DOMAIN tries : tries[i] + t.left >= Block
    <3>1. \A i \in DOMAIN tries : tries[i] \in Nat
      BY <1>5
    <3>2. QED
      BY <3>1, <2>1
  <2>4. QED
    BY <1>4, <1>5, <1>6, <1>9, <2>1, <2>2, <2>3 DEF Watched
<1>11. ASSUME ~(Len(all) >= Threshold) PROVE Watched(t, tries)
  <2>1. t.left = NoBlock
    BY <1>6, <1>11
  <2>2. Len(tries) <= Len(all)
    BY <1>1, <1>3, <1>4, <1>5, <1>7
  <2>3. Len(all) < Threshold
    <3>1. Len(all) \in Nat
      BY <1>4
    <3>2. QED
      BY <3>1, <1>11
  <2>4. QED
    BY <1>4, <1>5, <1>6, <1>8, <1>9, <2>1, <2>2, <2>3 DEF Watched
<1>12. QED
  BY <1>6, <1>10, <1>11 DEF t, tries

(* A block that has run out is cleared: no refusal is as young as that any more.   *)
LEMMA LookedIsWatched ==
  ASSUME NEW s \in SourceStates, NEW ages \in Seq(Nat), Watched(s, ages), ~IsBlocked(Looked(s))
  PROVE  Looked(s) \in SourceStates /\ Watched(Looked(s), ages) /\ Looked(s).left = NoBlock
<1> USE EndpointAssumption
<1>1. CASE s.left = 0
  <2>1. Looked(s) = Innocent /\ Innocent \in SourceStates /\ Innocent.left = NoBlock /\ Innocent.failures = <<>>
    BY <1>1 DEF Looked, Innocent, SourceStates
  <2>2. \A i \in DOMAIN ages : FALSE
    <3>1. 0 # NoBlock
      BY DEF NoBlock
    <3>2. \A i \in DOMAIN ages : ages[i] + 0 >= Block /\ ages[i] < Block
      BY <1>1, <3>1 DEF Watched
    <3>3. \A i \in DOMAIN ages : ages[i] \in Nat
      OBVIOUS
    <3>4. QED
      BY <3>2, <3>3
  <2>3. Len(ages) = 0 /\ Len(<<>>) = 0 /\ DOMAIN <<>> = {}
    <3>1. Len(ages) \in Nat /\ DOMAIN ages = 1..Len(ages)
      OBVIOUS
    <3>2. Len(ages) > 0 => 1 \in DOMAIN ages
      BY <3>1
    <3>3. Len(ages) = 0
      BY <3>1, <3>2, <2>2
    <3>4. QED
      BY <3>3
  <2>4. Watched(Innocent, ages)
    BY <2>1, <2>2, <2>3 DEF Watched, Ordered
  <2>5. QED
    BY <2>1, <2>4
<1>2. CASE s.left # 0
  BY <1>2 DEF Looked, IsBlocked, SourceStates, NoBlock
<1>3. QED
  BY <1>1, <1>2

LEMMA AgedIsWatched ==
  ASSUME NEW s \in SourceStates, NEW ages \in Seq(Nat), Watched(s, ages)
  PROVE  LET older == [i \in DOMAIN ages |-> ages[i] + 1]
             kept == Within(older, IF Window < Block THEN Window ELSE Block - 1)
             t == [failures |-> [i \in DOMAIN s.failures |-> Older(s.failures[i], Window)],
                   left     |-> IF IsBlocked(s) THEN s.left - 1 ELSE s.left]
         IN  t \in SourceStates /\ kept \in Seq(Nat) /\ Watched(t, kept)
<1> USE EndpointAssumption
<1> DEFINE limit == IF Window < Block THEN Window ELSE Block - 1
           older == [i \in DOMAIN ages |-> ages[i] + 1]
           kept == Within(older, limit)
           f == s.failures
           g == [i \in DOMAIN f |-> Older(f[i], Window)]
           left == IF IsBlocked(s) THEN s.left - 1 ELSE s.left
           t == [failures |-> g, left |-> left]
           size == Len(ages)
<1>1. /\ f \in Seq(Nat) /\ Ordered(f) /\ Len(f) \in Nat /\ size \in Nat /\ Ordered(ages)
      /\ DOMAIN ages = 1..size /\ DOMAIN f = 1..Len(f)
      /\ \A i \in 1..size : ages[i] \in Nat
      /\ \A i \in 1..Len(f) : f[i] \in Nat
      /\ \A i \in 1..size : ages[i] <= Window /\ ages[i] < Block
      /\ s.left \in {NoBlock} \cup 0..Block
  BY DEF Watched, SourceStates
<1>2. /\ limit \in Int /\ \A x \in Nat : x <= limit <=> x <= Window /\ x < Block
  OBVIOUS
<1>3. /\ older \in Seq(Nat) /\ Len(older) = size /\ DOMAIN older = 1..size
      /\ \A i \in 1..size : older[i] = ages[i] + 1
  BY <1>1
<1>4. Ordered(older)
  BY <1>1, <1>3 DEF Ordered
<1>5. /\ g \in Seq(Nat) /\ Len(g) = Len(f) /\ DOMAIN g = 1..Len(f)
      /\ \A i \in 1..Len(f) : g[i] = IF f[i] > Window THEN f[i] ELSE f[i] + 1
  <2>1. \A i \in 1..Len(f) : Older(f[i], Window) \in Nat
    BY <1>1 DEF Older
  <2>2. QED
    BY <1>1, <2>1 DEF Older
<1> HIDE DEF f, limit, older, size, g
<1>6. Ordered(g)
  <2> SUFFICES ASSUME NEW i \in 1..Len(f), NEW j \in 1..Len(f), i <= j PROVE g[j] <= g[i]
    BY <1>5 DEF Ordered
  <2>1. f[j] <= f[i]
    BY <1>1 DEF Ordered
  <2>2. f[i] \in Nat /\ f[j] \in Nat
    BY <1>1
  <2>3. /\ g[i] = IF f[i] > Window THEN f[i] ELSE f[i] + 1
        /\ g[j] = IF f[j] > Window THEN f[j] ELSE f[j] + 1
    BY <1>5
  <2>4. QED
    BY <2>1, <2>2, <2>3
<1>7. PICK n \in 0..size :
           /\ \A i \in 1..size : older[i] > limit <=> i <= n
           /\ kept \in Seq(Nat)
           /\ DOMAIN kept = 1..(size - n)
           /\ Len(kept) = size - n
           /\ \A i \in 1..(size - n) : kept[i] = older[n + i]
           /\ Ordered(kept)
           /\ \A i \in DOMAIN kept : kept[i] <= limit
  BY <1>2, <1>3, <1>4, WithinIsAnEnd
<1> HIDE DEF kept
<1>8. \A i \in DOMAIN kept : kept[i] \in Nat /\ kept[i] <= Window /\ kept[i] < Block
  <2> SUFFICES ASSUME NEW i \in DOMAIN kept
               PROVE  kept[i] \in Nat /\ kept[i] <= Window /\ kept[i] < Block
    OBVIOUS
  <2>1. kept[i] \in Nat /\ kept[i] <= limit
    BY <1>7
  <2>2. QED
    BY <2>1, <1>2
<1>9. \A i \in 1..(size - n) : n + i \in 1..size /\ kept[i] = ages[n + i] + 1
  BY <1>1, <1>3, <1>7
<1>10. t.failures = g /\ t.left = left /\ left \in {NoBlock} \cup 0..Block /\ t \in SourceStates
  BY <1>1, <1>5 DEF IsBlocked, SourceStates, NoBlock
<1>11. left = NoBlock <=> s.left = NoBlock
  BY <1>1 DEF IsBlocked, NoBlock
<1>12. ASSUME left = NoBlock
       PROVE  /\ Len(kept) <= Len(g) /\ Len(g) < Threshold
              /\ \A i \in DOMAIN kept : g[Len(g) - Len(kept) + i] = kept[i]
  <2>1. /\ size <= Len(f) /\ Len(f) < Threshold
        /\ \A i \in 1..size : f[Len(f) - size + i] = ages[i]
    BY <1>1, <1>11, <1>12 DEF Watched, f, size
  <2>2. ASSUME NEW i \in 1..(size - n) PROVE g[Len(g) - Len(kept) + i] = kept[i]
    <3>1. /\ Len(g) - Len(kept) + i = Len(f) - size + (n + i)
          /\ n + i \in 1..size /\ Len(f) - size + (n + i) \in 1..Len(f)
      BY <1>1, <1>5, <1>7, <1>9, <2>1
    <3>2. f[Len(f) - size + (n + i)] = ages[n + i]
      BY <3>1, <2>1
    <3>3. ages[n + i] <= Window /\ ages[n + i] \in Nat
      BY <3>1, <1>1
    <3>4. g[Len(f) - size + (n + i)] = ages[n + i] + 1
      BY <3>1, <3>2, <3>3, <1>5
    <3>5. QED
      BY <3>1, <3>4, <1>9
  <2>3. Len(kept) <= Len(g) /\ Len(g) < Threshold
    BY <2>1, <1>1, <1>5, <1>7
  <2>4. \A i \in DOMAIN kept : g[Len(g) - Len(kept) + i] = kept[i]
    BY <2>2, <1>7
  <2>5. QED
    BY <2>3, <2>4
<1>13. ASSUME left # NoBlock
       PROVE  Len(kept) <= Threshold /\ \A i \in DOMAIN kept : kept[i] + left >= Block
  <2>1. s.left # NoBlock /\ s.left \in 0..Block /\ left \in 0..Block /\ left + 1 >= s.left
    BY <1>1, <1>10, <1>11, <1>13 DEF IsBlocked
  <2>2. size <= Threshold /\ \A i \in 1..size : ages[i] + s.left >= Block
    BY <1>1, <2>1 DEF Watched, size
  <2>3. ASSUME NEW i \in 1..(size - n) PROVE kept[i] + left >= Block
    <3>1. ages[n + i] + s.left >= Block /\ ages[n + i] \in Nat /\ kept[i] = ages[n + i] + 1
      BY <1>1, <1>9, <2>2
    <3> HIDE DEF left
    <3>2. QED
      BY SMTT(30), <3>1, <2>1
  <2>4. QED
    BY <2>2, <2>3, <1>1, <1>7
<1> HIDE DEF left
<1>14. Watched(t, kept)
  <2> HIDE DEF t
  <2>1. QED
    BY <1>6, <1>7, <1>8, <1>10, <1>12, <1>13 DEF Watched
<1>15. QED
  BY <1>7, <1>10, <1>14 DEF kept, older, limit, t, g, f, left

LEMMA InnocentIsWatched ==
  /\ Innocent \in SourceStates /\ Watched(Innocent, <<>>) /\ <<>> \in Seq(Nat)
<1>1. Innocent.failures = <<>> /\ Innocent.left = NoBlock /\ Innocent \in SourceStates
  BY DEF Innocent, SourceStates
<1>2. Len(<<>>) = 0 /\ DOMAIN <<>> = {} /\ <<>> \in Seq(Nat)
  OBVIOUS
<1>3. QED
  BY <1>1, <1>2, EndpointAssumption DEF Watched, Ordered

-----------------------------------------------------------------------------------
LEMMA EndpointInvStarts == EndpointInit => EndpointInv
<1> SUFFICES ASSUME EndpointInit PROVE EndpointInv
  OBVIOUS
<1>1. SessionsInv
  BY EndpointStarts
<1>2. decision \in [loopbackOnly : BOOLEAN, tlsEnabled : BOOLEAN]
  <2>1. PICK c \in Configs : decision = ComputeDecision(c)
    BY DEF EndpointInit
  <2>2. \A a, b \in BOOLEAN : [loopbackOnly |-> a, tlsEnabled |-> b] \in [loopbackOnly : BOOLEAN, tlsEnabled : BOOLEAN]
    OBVIOUS
  <2>3. (c.address = "loopback") \in BOOLEAN /\ (c.tls = "usable") \in BOOLEAN
    OBVIOUS
  <2>4. QED
    BY <2>1, <2>2, <2>3 DEF ComputeDecision
<1>3. ThreadTyped /\ ThreadWhileRunning
  <2>1. <<>> \in Seq(Clients)
    OBVIOUS
  <2>2. QED
    BY <1>2, <2>1 DEF EndpointInit, ThreadTyped, ThreadWhileRunning
<1>4. SourcesTyped /\ SourcesWatched
  BY InnocentIsWatched DEF EndpointInit, SourcesTyped, SourcesWatched
<1>5. QED
  BY <1>1, <1>3, <1>4 DEF EndpointInv

(* The thread is started and joined by the main thread, and serves one client at a *)
(* time.                                                                            *)
LEMMA ThreadKeeps ==
  ASSUME ThreadTyped, ThreadWhileRunning, [EndpointNext]_endpointVars
  PROVE  ThreadTyped' /\ ThreadWhileRunning'
<1> USE EndpointAssumption DEF ThreadTyped, ThreadWhileRunning
<1>1. CASE UNCHANGED endpointVars \/ Tick
  BY <1>1 DEF endpointVars, serverVars, Tick
<1>2. CASE Start \/ StopRequest \/ StopReturn
  <2>1. <<>> \in Seq(Clients)
    OBVIOUS
  <2>2. QED
    BY <1>2, <2>1 DEF Start, StopRequest, StopReturn
<1>3. CASE \E c \in Clients : Connect(c)
  <2>1. PICK c \in Clients : Connect(c)
    BY <1>3
  <2>2. Append(backlog, c) \in Seq(Clients) /\ Append(backlog, c) # <<>>
    OBVIOUS
  <2>3. QED
    BY <2>1, <2>2 DEF Connect
<1>4. CASE StopSeen \/ ConnectionSeen \/ Handshake
  BY <1>4 DEF StopSeen, ConnectionSeen, Handshake
<1>5. CASE Accept \/ AcceptFails
  <2>1. backlog # <<>>
    BY <1>5 DEF Accept, AcceptFails
  <2>2. Head(backlog) \in Clients /\ Tail(backlog) \in Seq(Clients)
    BY <2>1, HeadTailProperties
  <2>3. QED
    BY <1>5, <2>2 DEF Accept, AcceptFails
<1>6. ASSUME HangUp, thread \in {"handshake", "receiving", "calling"}
      PROVE  ThreadTyped' /\ ThreadWhileRunning'
  BY <1>6 DEF HangUp
<1>7. CASE CallReturns \/ HandshakeFails \/ ReadFails
  BY <1>6, <1>7 DEF CallReturns, HandshakeFails, ReadFails
<1>8. CASE Dispatch
  <2>1. CASE Stray \/ RefusedBlocked \/ RefusedCredential \/ RefusedOrigin \/ RefusedCeiling
    BY <1>6, <2>1
    DEF Stray, RefusedBlocked, RefusedCredential, RefusedOrigin, RefusedCeiling, AtGate, Got
  <2>2. CASE \E method \in Methods, id \in Sessions :
               \/ Report(method, id) \/ Initialize(method, id) \/ Unknown(method, id)
               \/ Initialized(method, id) \/ List(method, id) \/ Call(method, id)
    <3>1. PICK method \in Methods, id \in Sessions :
               \/ Report(method, id) \/ Initialize(method, id) \/ Unknown(method, id)
               \/ Initialized(method, id) \/ List(method, id) \/ Call(method, id)
      BY <2>2
    <3>2. Admitted(id)
      BY <3>1 DEF Report, Initialize, Unknown, Initialized, List, Call, Known
    <3>3. thread = "receiving"
      BY <3>2 DEF Admitted, AtGate, Got
    <3>4. CASE Call(method, id)
      BY <3>3, <3>4 DEF Call
    <3>5. QED
      BY <1>6, <3>1, <3>3, <3>4 DEF Report, Initialize, Unknown, Initialized, List
  <2>3. QED
    BY <1>8, <2>1, <2>2 DEF Dispatch
<1>9. QED
  BY <1>1, <1>2, <1>3, <1>4, <1>5, <1>7, <1>8 DEF EndpointNext, Serve

(* What a step may do to the source of the client that is served.                  *)
LEMMA OneSourceKeeps ==
  ASSUME SourcesTyped, SourcesWatched, NEW c \in Clients,
         NEW s \in SourceStates, NEW ages \in Seq(Nat), Watched(s, ages),
         source' = [source EXCEPT ![c] = s], tried' = [tried EXCEPT ![c] = ages]
  PROVE  SourcesTyped' /\ SourcesWatched'
BY DEF SourcesTyped, SourcesWatched

LEMMA SourcesKeep ==
  ASSUME ThreadTyped, ThreadWhileRunning, SourcesTyped, SourcesWatched, [EndpointNext]_endpointVars
  PROVE  SourcesTyped' /\ SourcesWatched'
<1>1. ASSUME UNCHANGED <<source, tried>> PROVE SourcesTyped' /\ SourcesWatched'
  BY <1>1 DEF SourcesTyped, SourcesWatched
<1>2. CASE UNCHANGED endpointVars \/ Start \/ StopRequest \/ StopReturn
           \/ (\E c \in Clients : Connect(c)) \/ StopSeen \/ ConnectionSeen \/ CallReturns
           \/ Accept \/ AcceptFails \/ Handshake \/ HandshakeFails \/ ReadFails
           \/ Stray \/ RefusedBlocked
  BY <1>1, <1>2
  DEF endpointVars, gateVars, Start, StopRequest, StopReturn, Connect, StopSeen, ConnectionSeen,
      CallReturns, Accept, AcceptFails, Handshake, HandshakeFails, ReadFails, Stray, RefusedBlocked
<1>3. ASSUME AtGate
      PROVE  /\ serving \in Clients /\ source[serving] \in SourceStates
             /\ tried[serving] \in Seq(Nat) /\ Watched(source[serving], tried[serving])
  <2>1. serving \in Clients
    BY <1>3 DEF AtGate, Got, ThreadTyped, ThreadWhileRunning
  <2>2. QED
    BY <2>1 DEF SourcesTyped, SourcesWatched
<1>4. ASSUME AtGate, ~IsBlocked(Noted)
      PROVE  Noted \in SourceStates /\ Watched(Noted, tried[serving]) /\ Noted.left = NoBlock
  BY <1>3, <1>4, LookedIsWatched DEF Noted
<1>5. CASE RefusedCredential
  <2>1. AtGate /\ ~IsBlocked(Noted)
    BY <1>5 DEF RefusedCredential
  <2>2. /\ source' = [source EXCEPT ![serving] = NoteAuthFailure(Noted)]
        /\ tried' = [tried EXCEPT ![serving] = Append(tried[serving], 0)]
    BY <1>5 DEF RefusedCredential
  <2>3. Append(tried[serving], 0) \in Seq(Nat)
    BY <2>1, <1>3
  <2>4. /\ NoteAuthFailure(Noted) \in SourceStates
        /\ Watched(NoteAuthFailure(Noted), Append(tried[serving], 0))
    BY <2>1, <1>3, <1>4, FailureIsWatched
  <2>5. QED
    BY <1>3, <2>1, <2>2, <2>3, <2>4, OneSourceKeeps
<1>6. CASE RefusedOrigin \/ RefusedCeiling
  <2>1. AtGate /\ ~IsBlocked(Noted)
    BY <1>6 DEF RefusedOrigin, RefusedCeiling
  <2>2. source' = [source EXCEPT ![serving] = Noted] /\ tried' = tried
    BY <1>6 DEF RefusedOrigin, RefusedCeiling
  <2>3. tried' = [tried EXCEPT ![serving] = tried[serving]]
    BY <2>1, <2>2, <1>3 DEF SourcesTyped
  <2>4. QED
    BY <2>1, <2>2, <2>3, <1>3, <1>4, OneSourceKeeps
<1>7. ASSUME NEW id, Admitted(id) PROVE SourcesTyped' /\ SourcesWatched'
  <2>1. CASE UNCHANGED <<source, tried>>
    BY <2>1, <1>1
  <2>2. CASE /\ AtGate
             /\ source' = [source EXCEPT ![serving] = Innocent]
             /\ tried' = [tried EXCEPT ![serving] = <<>>]
    BY <2>2, <1>3, InnocentIsWatched, OneSourceKeeps
  <2>3. QED
    BY <1>7, <2>1, <2>2 DEF Admitted
<1>8. CASE \E method \in Methods, id \in Sessions :
               \/ Report(method, id) \/ Initialize(method, id) \/ Unknown(method, id)
               \/ Initialized(method, id) \/ List(method, id) \/ Call(method, id)
  BY <1>7, <1>8 DEF Report, Initialize, Unknown, Initialized, List, Call, Known
<1>9. CASE Tick
  <2> DEFINE limit == IF Window < Block THEN Window ELSE Block - 1
             Aged(s) == [failures |-> [i \in DOMAIN s.failures |-> Older(s.failures[i], Window)],
                         left     |-> IF IsBlocked(s) THEN s.left - 1 ELSE s.left]
             StillIn(ages) == Within([i \in DOMAIN ages |-> ages[i] + 1], limit)
  <2>1. /\ source' = [c \in Clients |-> Aged(source[c])]
        /\ tried' = [c \in Clients |-> StillIn(tried[c])]
    BY <1>9 DEF Tick
  <2>2. ASSUME NEW c \in Clients
        PROVE  /\ Aged(source[c]) \in SourceStates /\ StillIn(tried[c]) \in Seq(Nat)
               /\ Watched(Aged(source[c]), StillIn(tried[c]))
    <3>1. source[c] \in SourceStates /\ tried[c] \in Seq(Nat) /\ Watched(source[c], tried[c])
      BY DEF SourcesTyped, SourcesWatched
    <3>2. QED
      BY <3>1, AgedIsWatched
  <2> HIDE DEF Aged, StillIn
  <2>3. QED
    BY <2>1, <2>2 DEF SourcesTyped, SourcesWatched
<1>10. QED
  BY <1>2, <1>5, <1>6, <1>8, <1>9 DEF EndpointNext, Serve, Dispatch

LEMMA EndpointInvStep == EndpointInv /\ [EndpointNext]_endpointVars => EndpointInv'
BY EndpointStep, ThreadKeeps, SourcesKeep DEF EndpointInv

LEMMA EndpointInvSound == EndpointInv => EndpointSound
<1> SUFFICES ASSUME EndpointInv PROVE EndpointSound
  OBVIOUS
<1>1. EndpointTypeOK
  BY DEF EndpointInv, SessionsInv, Minted, ThreadTyped, SourcesTyped, SourceStates, EndpointTypeOK
<1>2. ASSUME NEW c \in Clients PROVE Len(tried[c]) <= Threshold
  <2>1. /\ source[c] \in SourceStates /\ tried[c] \in Seq(Nat)
        /\ Watched(source[c], tried[c])
    BY DEF EndpointInv, SourcesTyped, SourcesWatched
  <2>2. Len(tried[c]) \in Nat /\ Len(source[c].failures) \in Nat
    BY <2>1 DEF SourceStates
  <2>3. QED
    BY <2>1, <2>2, EndpointAssumption DEF Watched
<1>3. QED
  BY <1>1, <1>2 DEF EndpointInv, SessionsInv, RateLimited, EndpointSound

(* Whatever the clients send and whenever: the registry keeps to its limit, no     *)
(* source is refused more than the threshold of credentials within a window, and a *)
(* thread serves exactly while the server runs.                                    *)
THEOREM EndpointIsSound == EndpointSpec => []EndpointSound
<1>1. QED
  BY EndpointInvStarts, EndpointInvStep, EndpointInvSound, PTL DEF EndpointSpec

-----------------------------------------------------------------------------------
(* The accounts. *)

(* The records behind AccountsTypeOK.                                              *)
Attempts == [failures : 0..MaxConsecutiveFailures, lockedUntil : Nat \cup {Unlocked}]
AccountRecords ==
  /\ now \in 0..MaxTime /\ changes \in 0..MaxChanges
  /\ attempts \in [Users -> Attempts] /\ rejections \in [Users -> Seq(Nat)]
  /\ session.entitlement \in {"none", "active", "expired"} /\ authorized \subseteq Providers
  /\ entries \in [Providers -> Keys \cup {NoKey}] /\ job \in {NoToken, "session", "placeholder"}
  /\ backend.id = "byok" => backend.provider \in Providers
  /\ accepted \in [Providers -> SUBSET Keys]
  /\ heard \in [Providers -> [key : Keys \cup {NoKey}, verdict : Verdicts \cup {"none"}]]

(* Rejected logins are kept in the order of their times, none in the future.       *)
InOrder(times, t) ==
  \A i, j \in 1..Len(times) : (i <= j => times[i] <= times[j]) /\ times[j] <= t

(* What the lock's record says of the rejected logins: while there is a lock, the  *)
(* last of them set it; without one, those counted are fewer than would lock, and  *)
(* the one before them is at least a lock's duration old.                          *)
LockKnows(a, times, t) ==
  IF a.lockedUntil # Unlocked
  THEN Len(times) > 0 /\ a.lockedUntil = times[Len(times)] + LockoutDuration
  ELSE /\ a.failures < MaxConsecutiveFailures
       /\ Len(times) > a.failures => times[Len(times) - a.failures] + LockoutDuration <= t

Spaced(times) ==
  \A i \in 1..Len(times) - MaxConsecutiveFailures :
    times[i + MaxConsecutiveFailures] - times[i] >= LockoutDuration

LocksHold ==
  \A u \in Users : /\ InOrder(rejections[u], now) /\ Spaced(rejections[u])
                   /\ LockKnows(attempts[u], rejections[u], now)

(* A key in the store was accepted by the provider it is filed for.                *)
FiledWereAccepted == \A p \in Providers : entries[p] = NoKey \/ entries[p] \in accepted[p]

KeysSentAreKnown == \A request \in sent : request.provider \in Providers

AccountsInv ==
  /\ AccountRecords /\ LocksHold /\ AuthorizedIsProven
  /\ FiledWereAccepted /\ KeysSentAreKnown /\ KeysSentWereAccepted

-----------------------------------------------------------------------------------
LEMMA AccountsStart == AccountsInit => AccountsInv
<1> SUFFICES ASSUME AccountsInit PROVE AccountsInv
  OBVIOUS
<1> USE AccountsAssumption DEF AccountsInit
<1>1. NoAttempts \in Attempts /\ NoAttempts.lockedUntil = Unlocked /\ NoAttempts.failures = 0
  BY DEF NoAttempts, Attempts
<1>2. AccountRecords
  BY <1>1 DEF AccountRecords, SignedOut, Offline
<1>3. LocksHold
  <2>1. Len(<<>>) = 0
    OBVIOUS
  <2>2. \A u \in Users : rejections[u] = <<>> /\ attempts[u] = NoAttempts
    OBVIOUS
  <2>3. InOrder(<<>>, now) /\ Spaced(<<>>) /\ LockKnows(NoAttempts, <<>>, now)
    BY <1>1, <2>1 DEF InOrder, Spaced, LockKnows
  <2>4. QED
    BY <2>2, <2>3 DEF LocksHold
<1>4. AuthorizedIsProven /\ FiledWereAccepted /\ KeysSentAreKnown /\ KeysSentWereAccepted
  BY DEF AuthorizedIsProven, FiledWereAccepted, KeysSentAreKnown, KeysSentWereAccepted
<1>5. QED
  BY <1>2, <1>3, <1>4 DEF AccountsInv

(* One more time, not before the others.                                           *)
LEMMA Appended ==
  ASSUME NEW r \in Seq(Nat), NEW t \in Nat
  PROVE  /\ Append(r, t) \in Seq(Nat) /\ Len(Append(r, t)) = Len(r) + 1 /\ Len(r) \in Nat
         /\ Append(r, t)[Len(r) + 1] = t
         /\ \A i \in 1..Len(r) : Append(r, t)[i] = r[i] /\ r[i] \in Nat
OBVIOUS

LEMMA AppendInOrder ==
  ASSUME NEW r \in Seq(Nat), NEW t \in Nat, InOrder(r, t) PROVE InOrder(Append(r, t), t)
<1> DEFINE times == Append(r, t)
           n == Len(r)
<1>1. /\ n \in Nat /\ Len(times) = n + 1 /\ times[n + 1] = t
      /\ \A i \in 1..n : times[i] = r[i] /\ r[i] \in Nat
  BY Appended
<1>2. /\ \A i \in 1..n : times[i] <= t /\ times[i] \in Nat
      /\ \A i, j \in 1..n : i <= j => times[i] <= times[j]
  BY <1>1 DEF InOrder
<1> HIDE DEF times, n
<1>3. \A i, j \in 1..n + 1 : (i <= j => times[i] <= times[j]) /\ times[j] <= t
  <2>1. SUFFICES ASSUME NEW i \in 1..n + 1, NEW j \in 1..n + 1
        PROVE  (i <= j => times[i] <= times[j]) /\ times[j] <= t
    OBVIOUS
  <2>2. CASE j = n + 1
    BY <1>1, <1>2, <2>2
  <2>3. CASE j # n + 1
    BY <1>1, <1>2, <2>3
  <2>4. QED
    BY <2>2, <2>3
<1>4. QED
  BY <1>1, <1>3 DEF InOrder, times, n

LEMMA AppendSpaced ==
  ASSUME NEW r \in Seq(Nat), NEW t \in Nat, NEW k \in 0..MaxConsecutiveFailures - 1, InOrder(r, t), Spaced(r),
         Len(r) > k => r[Len(r) - k] + LockoutDuration <= t
  PROVE  Spaced(Append(r, t))
<1> USE AccountsAssumption
<1> DEFINE times == Append(r, t)
           n == Len(r)
           m == MaxConsecutiveFailures
<1>1. /\ n \in Nat /\ Len(times) = n + 1 /\ times[n + 1] = t
      /\ \A i \in 1..n : times[i] = r[i] /\ r[i] \in Nat
  BY Appended
<1>2. /\ \A i \in 1..n - m : r[i + m] - r[i] >= LockoutDuration
      /\ \A i, j \in 1..n : i <= j => r[i] <= r[j]
      /\ n > k => r[n - k] + LockoutDuration <= t
      /\ m \in Nat \ {0} /\ LockoutDuration \in Nat
  BY DEF InOrder, Spaced
<1> HIDE DEF times, n, m
<1>3. ASSUME NEW i \in 1..(n + 1) - m PROVE times[i + m] - times[i] >= LockoutDuration
  <2>1. CASE i + m <= n
    <3>1. i \in 1..n - m /\ i + m \in 1..n /\ i \in 1..n
      BY <1>1, <1>2, <1>3, <2>1
    <3>2. QED
      BY <1>1, <1>2, <3>1
  <2>2. CASE i + m = n + 1
    <3>1. i <= n - k /\ n - k \in 1..n /\ i \in 1..n /\ n > k
      BY <1>1, <1>2, <1>3, <2>2 DEF m
    <3>2. r[i] <= r[n - k] /\ r[n - k] + LockoutDuration <= t /\ r[i] \in Nat /\ r[n - k] \in Nat
      BY <1>1, <1>2, <3>1
    <3>3. times[i + m] = t /\ times[i] = r[i]
      BY <1>1, <2>2, <3>1
    <3>4. QED
      BY SMTT(30), <1>2, <3>2, <3>3
  <2>3. QED
    BY <1>1, <1>2, <1>3, <2>1, <2>2
<1>4. QED
  BY <1>1, <1>3 DEF Spaced, times, n, m

(* An attempt that is rejected keeps the spacing of the attempts.                  *)
LEMMA RejectedIsSpaced ==
  ASSUME NEW u \in Users, AccountRecords, LocksHold, ~IsLocked(u)
  PROVE  LET times == Append(rejections[u], now) IN
         /\ times \in Seq(Nat) /\ InOrder(times, now) /\ Spaced(times)
         /\ Rejected(u) \in Attempts /\ LockKnows(Rejected(u), times, now)
<1> USE AccountsAssumption
<1> DEFINE r == rejections[u]
           k == Failures(u)
           times == Append(r, now)
<1>1. /\ r \in Seq(Nat) /\ now \in Nat
      /\ attempts[u].failures \in 0..MaxConsecutiveFailures
      /\ attempts[u].lockedUntil \in Nat \cup {Unlocked}
      /\ InOrder(r, now) /\ Spaced(r) /\ LockKnows(attempts[u], r, now)
  BY DEF AccountRecords, LocksHold, Attempts
<1>2. k \in 0..MaxConsecutiveFailures - 1 /\ (Len(r) > k => r[Len(r) - k] + LockoutDuration <= now)
  BY SMTT(30), <1>1 DEF Failures, LockKnows, IsLocked, Unlocked
<1>3. times \in Seq(Nat) /\ InOrder(times, now) /\ Spaced(times)
  BY <1>1, <1>2, Appended, AppendInOrder, AppendSpaced
<1>4. Rejected(u).failures = k + 1
      /\ Rejected(u).lockedUntil = IF k + 1 >= MaxConsecutiveFailures THEN now + LockoutDuration ELSE Unlocked
  BY DEF Rejected
<1>5. Rejected(u) \in Attempts
  BY <1>1, <1>2 DEF Rejected, Attempts
<1>6. LockKnows(Rejected(u), times, now)
  <2> DEFINE n == Len(r)
  <2>1. /\ n \in Nat /\ Len(times) = n + 1 /\ times[n + 1] = now /\ \A i \in 1..n : times[i] = r[i]
        /\ Unlocked = -1 /\ k \in 0..MaxConsecutiveFailures - 1 /\ (n > k => r[n - k] + LockoutDuration <= now)
    BY <1>1, <1>2, Appended DEF Unlocked
  <2> HIDE DEF times, n, k
  <2>2. CASE k + 1 >= MaxConsecutiveFailures
    BY <1>1, <1>4, <2>1, <2>2 DEF LockKnows
  <2>3. CASE k + 1 < MaxConsecutiveFailures
    <3>1. n + 1 > k + 1 => (n + 1) - (k + 1) = n - k /\ n - k \in 1..n
      BY <2>1
    <3>2. Rejected(u).lockedUntil = Unlocked /\ Rejected(u).failures = k + 1
      BY <1>4, <2>1, <2>3
    <3>3. Len(times) > k + 1 => times[Len(times) - (k + 1)] + LockoutDuration <= now
      BY <2>1, <3>1
    <3>4. QED
      BY <2>3, <3>2, <3>3 DEF LockKnows
  <2>4. QED
    BY <2>1, <2>2, <2>3
<1>7. QED
  BY <1>3, <1>5, <1>6

LEMMA LoginKeeps ==
  ASSUME AccountsInv, NEW u \in Users, NEW verdict \in Verdicts, NEW entitlement \in {"active", "expired"},
         Login(u, verdict, entitlement)
  PROVE  AccountsInv'
<1> USE AccountsAssumption DEF Verdicts
<1>1. /\ ~IsLocked(u) /\ now' = now
      /\ UNCHANGED <<entries, authorized, accepted, heard, backend, job, sent, changes>>
  BY DEF Login, keyVars, requestVars
<1>2. /\ verdict = "accepted" => /\ attempts' = [attempts EXCEPT ![u] = NoAttempts]
                                 /\ session' = [user |-> u, entitlement |-> entitlement]
                                 /\ rejections' = [rejections EXCEPT ![u] = <<>>]
      /\ verdict = "rejected" => /\ attempts' = [attempts EXCEPT ![u] = Rejected(u)]
                                 /\ rejections' = [rejections EXCEPT ![u] = Append(@, now)]
                                 /\ session' = session
      /\ verdict = "unheard"  => /\ attempts' = [attempts EXCEPT ![u] = [failures |-> Failures(u), lockedUntil |-> Unlocked]]
                                 /\ UNCHANGED <<session, rejections>>
  BY Zenon DEF Login
<1>3. AccountRecords /\ LocksHold /\ now \in Nat
  BY DEF AccountsInv, AccountRecords
<1>4. PICK a \in Attempts, times \in Seq(Nat) :
        /\ attempts' = [attempts EXCEPT ![u] = a] /\ rejections' = [rejections EXCEPT ![u] = times]
        /\ InOrder(times, now) /\ Spaced(times) /\ LockKnows(a, times, now)
  <2>1. CASE verdict = "accepted"
    <3>1. NoAttempts \in Attempts /\ NoAttempts.lockedUntil = Unlocked /\ NoAttempts.failures = 0
      BY DEF NoAttempts, Attempts
    <3>2. <<>> \in Seq(Nat) /\ InOrder(<<>>, now) /\ Spaced(<<>>) /\ LockKnows(NoAttempts, <<>>, now)
      BY <3>1 DEF InOrder, Spaced, LockKnows
    <3>3. QED
      BY <1>2, <2>1, <3>1, <3>2
  <2>2. CASE verdict = "rejected"
    BY <1>1, <1>2, <1>3, <2>2, RejectedIsSpaced DEF AccountRecords
  <2>3. CASE verdict = "unheard"
    <3> DEFINE a == [failures |-> Failures(u), lockedUntil |-> Unlocked]
    <3>1. /\ rejections[u] \in Seq(Nat) /\ InOrder(rejections[u], now) /\ Spaced(rejections[u])
          /\ LockKnows(attempts[u], rejections[u], now)
          /\ attempts[u].failures \in 0..MaxConsecutiveFailures /\ attempts[u].lockedUntil \in Nat \cup {Unlocked}
      BY <1>3 DEF AccountRecords, LocksHold, Attempts
    <3>2. Failures(u) \in 0..MaxConsecutiveFailures - 1
          /\ (Len(rejections[u]) > Failures(u) => rejections[u][Len(rejections[u]) - Failures(u)] + LockoutDuration <= now)
      BY SMTT(30), <1>1, <1>3, <3>1 DEF Failures, LockKnows, IsLocked, Unlocked
    <3>3. a \in Attempts /\ LockKnows(a, rejections[u], now)
      BY <3>2 DEF Attempts, LockKnows
    <3>4. rejections' = [rejections EXCEPT ![u] = rejections[u]]
      BY <1>2, <1>3, <2>3 DEF AccountRecords
    <3>5. QED
      BY <1>2, <2>3, <3>1, <3>3, <3>4
  <2>4. QED
    BY <2>1, <2>2, <2>3
<1>5. session'.entitlement \in {"none", "active", "expired"}
  BY <1>2, <1>3 DEF AccountRecords
<1>6. AccountRecords'
  BY <1>1, <1>3, <1>4, <1>5 DEF AccountRecords
<1>7. LocksHold'
  BY <1>1, <1>3, <1>4 DEF LocksHold, AccountRecords
<1>8. QED
  BY <1>1, <1>6, <1>7 DEF AccountsInv, AuthorizedIsProven, FiledWereAccepted, KeysSentAreKnown, KeysSentWereAccepted

LEMMA TimeKeeps == ASSUME AccountsInv, TimePasses PROVE AccountsInv'
<1> USE AccountsAssumption
<1>1. now' = now + 1 /\ now < MaxTime /\ now \in Nat
      /\ UNCHANGED <<attempts, rejections, session, entries, authorized, accepted, heard, backend, job, sent, changes>>
  BY DEF TimePasses, keyVars, requestVars, AccountsInv, AccountRecords
<1>2. AccountRecords'
  BY <1>1 DEF AccountsInv, AccountRecords
<1>3. LocksHold'
  <2>1. SUFFICES ASSUME NEW u \in Users
                 PROVE  InOrder(rejections[u], now') /\ LockKnows(attempts[u], rejections[u], now')
    BY <1>1 DEF AccountsInv, LocksHold
  <2>2. /\ rejections[u] \in Seq(Nat) /\ InOrder(rejections[u], now) /\ LockKnows(attempts[u], rejections[u], now)
        /\ attempts[u].failures \in Nat
    BY DEF AccountsInv, AccountRecords, LocksHold, Attempts
  <2>3. InOrder(rejections[u], now')
    BY <1>1, <2>2 DEF InOrder
  <2>4. LockKnows(attempts[u], rejections[u], now')
    <3> DEFINE r == rejections[u]
               f == attempts[u].failures
    <3>1. CASE attempts[u].lockedUntil # Unlocked
      BY <2>2, <3>1 DEF LockKnows
    <3>2. CASE attempts[u].lockedUntil = Unlocked
      <4>1. f < MaxConsecutiveFailures /\ (Len(r) > f => r[Len(r) - f] + LockoutDuration <= now)
        BY <2>2, <3>2 DEF LockKnows
      <4>2. Len(r) > f => r[Len(r) - f] \in Nat
        BY SMTT(30), <2>2
      <4>3. Len(r) > f => r[Len(r) - f] + LockoutDuration <= now'
        <5> HIDE DEF r, f
        <5>1. QED
          BY <1>1, <4>1, <4>2
      <4>4. QED
        BY <3>2, <4>1, <4>3 DEF LockKnows
    <3>3. QED
      BY <3>1, <3>2
  <2>5. QED
    BY <2>3, <2>4
<1>4. QED
  BY <1>1, <1>2, <1>3 DEF AccountsInv, AuthorizedIsProven, FiledWereAccepted, KeysSentAreKnown, KeysSentWereAccepted

(* A provider's key is authorized, filed and sent only as the provider accepted it. *)
LEMMA SaveKeeps ==
  ASSUME AccountsInv, NEW p \in Providers, NEW k \in Keys, NEW verdict \in Verdicts, NEW written \in BOOLEAN,
         SaveCredential(p, k, verdict, written)
  PROVE  AccountsInv'
<1> USE AccountsAssumption
<1>1. /\ changes < MaxChanges /\ changes' = changes + 1
      /\ accepted' = IF verdict = "accepted" THEN [accepted EXCEPT ![p] = @ \cup {k}] ELSE accepted
      /\ heard' = IF verdict = "unheard" THEN heard ELSE [heard EXCEPT ![p] = [key |-> k, verdict |-> verdict]]
      /\ entries' = IF verdict = "accepted" /\ written THEN [entries EXCEPT ![p] = k] ELSE entries
      /\ UNCHANGED <<now, attempts, rejections, session, backend, job, sent>>
  BY DEF SaveCredential, Changed, lockVars, requestVars
<1>2. /\ verdict = "accepted" /\ written => authorized' = authorized \cup {p}
      /\ verdict = "unheard" => authorized' = authorized
      /\ ~(verdict = "accepted" /\ written) /\ verdict # "unheard" => authorized' = authorized \ {p}
  BY Zenon DEF SaveCredential
<1>3. AccountRecords
  BY DEF AccountsInv
<1>4. AccountRecords'
  <2>1. changes' \in 0..MaxChanges /\ authorized' \subseteq Providers /\ now' \in 0..MaxTime
    BY <1>1, <1>2, <1>3 DEF AccountRecords
  <2>2. accepted' \in [Providers -> SUBSET Keys]
    BY <1>1, <1>3 DEF AccountRecords
  <2>3. heard' \in [Providers -> [key : Keys \cup {NoKey}, verdict : Verdicts \cup {"none"}]]
    BY <1>1, <1>3 DEF AccountRecords
  <2>4. entries' \in [Providers -> Keys \cup {NoKey}]
    BY <1>1, <1>3 DEF AccountRecords
  <2>5. QED
    BY <1>1, <1>3, <2>1, <2>2, <2>3, <2>4 DEF AccountRecords
<1>5. \A q \in Providers : accepted[q] \subseteq accepted'[q]
  BY <1>1, <1>3 DEF AccountRecords
<1>6. FiledWereAccepted'
  BY <1>1, <1>3, <1>5 DEF AccountsInv, AccountRecords, FiledWereAccepted
<1>7. KeysSentAreKnown' /\ KeysSentWereAccepted'
  BY <1>1, <1>5 DEF AccountsInv, KeysSentAreKnown, KeysSentWereAccepted
<1>8. AuthorizedIsProven'
  <2>1. SUFFICES ASSUME NEW q \in authorized'
                 PROVE  heard'[q].verdict = "accepted" /\ entries'[q] \in {heard'[q].key, NoKey}
    BY DEF AuthorizedIsProven
  <2>2. CASE q = p /\ verdict # "unheard"
    BY <1>1, <1>2, <1>3, <2>1, <2>2 DEF AccountRecords, Verdicts
  <2>3. CASE q # p \/ verdict = "unheard"
    <3>1. q \in authorized /\ heard'[q] = heard[q] /\ entries'[q] = entries[q]
      BY <1>1, <1>2, <1>3, <2>1, <2>3 DEF AccountRecords
    <3>2. QED
      BY <3>1 DEF AccountsInv, AuthorizedIsProven
  <2>4. QED
    BY <2>2, <2>3
<1>9. LocksHold'
  BY <1>1 DEF AccountsInv, LocksHold
<1>10. QED
  BY <1>4, <1>6, <1>7, <1>8, <1>9 DEF AccountsInv

LEMMA RemovalKeeps ==
  ASSUME AccountsInv, NEW p \in Providers, NEW removed \in BOOLEAN, Forget(p, removed) \/ RemovedElsewhere(p)
  PROVE  AccountsInv'
<1> USE AccountsAssumption
<1>1. /\ changes < MaxChanges /\ changes' = changes + 1 /\ authorized' \subseteq authorized
      /\ entries' = entries \/ entries' = [entries EXCEPT ![p] = NoKey]
      /\ UNCHANGED <<now, attempts, rejections, session, accepted, heard, backend, job, sent>>
  BY DEF Forget, RemovedElsewhere, Changed, lockVars, requestVars
<1>2. AccountRecords'
  BY <1>1 DEF AccountsInv, AccountRecords
<1>3. FiledWereAccepted' /\ AuthorizedIsProven'
  BY <1>1 DEF AccountsInv, AccountRecords, FiledWereAccepted, AuthorizedIsProven
<1>4. QED
  BY <1>1, <1>2, <1>3 DEF AccountsInv, LocksHold, KeysSentAreKnown, KeysSentWereAccepted

LEMMA StartKeeps ==
  ASSUME AccountsInv, NEW id \in {"offline", "hosted", "byok"}, NEW answered \in BOOLEAN, NEW p \in Providers,
         StartProcess(id, answered, p)
  PROVE  AccountsInv'
<1> USE AccountsAssumption
<1>1. /\ changes < MaxChanges /\ changes' = changes + 1
      /\ attempts' = [u \in Users |-> NoAttempts] /\ rejections' = [u \in Users |-> <<>>]
      /\ session' = SignedOut /\ authorized' = {} /\ job' = NoToken /\ sent' = {}
      /\ entries' = entries \/ entries' = [q \in Providers |-> NoKey]
      /\ backend' = Selection(id, answered, p)
      /\ UNCHANGED <<now, accepted, heard>>
  BY DEF StartProcess, Changed
<1>2. backend'.id = "byok" => backend'.provider \in Providers
  <2>1. \/ backend' = [id |-> "byok", provider |-> p]
        \/ backend' = [id |-> "hosted", provider |-> "none"]
        \/ backend' = Offline
    BY <1>1, Zenon DEF Selection
  <2>2. QED
    BY <2>1 DEF Offline
<1>3. NoAttempts \in Attempts /\ NoAttempts.lockedUntil = Unlocked /\ NoAttempts.failures = 0
  BY DEF NoAttempts, Attempts
<1>4. AccountRecords'
  BY <1>1, <1>2, <1>3 DEF AccountsInv, AccountRecords, SignedOut
<1>5. LocksHold'
  BY <1>1, <1>3 DEF LocksHold, InOrder, Spaced, LockKnows
<1>6. AuthorizedIsProven' /\ FiledWereAccepted' /\ KeysSentAreKnown' /\ KeysSentWereAccepted'
  BY <1>1 DEF AccountsInv, AuthorizedIsProven, FiledWereAccepted, KeysSentAreKnown, KeysSentWereAccepted
<1>7. QED
  BY <1>4, <1>5, <1>6 DEF AccountsInv

LEMMA RequestsKeep ==
  ASSUME AccountsInv, (\E p \in Providers : Generate(p)) \/ Follow PROVE AccountsInv'
<1> USE AccountsAssumption
<1>1. /\ changes < MaxChanges /\ changes' = changes + 1 /\ Send
      /\ UNCHANGED <<now, attempts, rejections, session, entries, authorized, accepted, heard, backend>>
  BY DEF Generate, Follow, Changed, lockVars, keyVars
<1>2. job' \in {NoToken, "session", "placeholder"}
  BY DEF Generate, Follow, Authorization, AccountsInv, AccountRecords
<1>3. AccountRecords'
  BY <1>1, <1>2 DEF AccountsInv, AccountRecords
<1>4. KeysSentAreKnown' /\ KeysSentWereAccepted'
  <2>1. CASE Met
    <3>1. sent' = sent \cup {[provider |-> backend.provider, key |-> entries[backend.provider]]}
      BY <1>1, <2>1 DEF Send
    <3>2. backend.provider \in Providers /\ entries[backend.provider] \in accepted[backend.provider]
      BY <2>1 DEF Met, AccountsInv, AccountRecords, FiledWereAccepted
    <3>3. QED
      BY <1>1, <3>1, <3>2 DEF AccountsInv, KeysSentAreKnown, KeysSentWereAccepted
  <2>2. CASE ~Met
    BY <1>1, <2>2 DEF Send, AccountsInv, KeysSentAreKnown, KeysSentWereAccepted
  <2>3. QED
    BY <2>1, <2>2
<1>5. QED
  BY <1>1, <1>3, <1>4 DEF AccountsInv, LocksHold, AuthorizedIsProven, FiledWereAccepted

LEMMA AccountsStep == AccountsInv /\ [AccountsNext]_accountVars => AccountsInv'
<1> SUFFICES ASSUME AccountsInv, [AccountsNext]_accountVars PROVE AccountsInv'
  OBVIOUS
<1>1. CASE AccountsNext
  <2>1. CASE Logout
    BY <2>1 DEF Logout, lockVars, keyVars, requestVars, SignedOut, AccountsInv, AccountRecords, LocksHold,
                AuthorizedIsProven, FiledWereAccepted, KeysSentAreKnown, KeysSentWereAccepted
  <2>2. QED
    BY <1>1, <2>1, LoginKeeps, TimeKeeps, SaveKeeps, RemovalKeeps, StartKeeps, RequestsKeep DEF AccountsNext
<1>2. CASE UNCHANGED accountVars
  BY <1>2 DEF accountVars, lockVars, keyVars, requestVars, AccountsInv, AccountRecords, LocksHold,
              AuthorizedIsProven, FiledWereAccepted, KeysSentAreKnown, KeysSentWereAccepted
<1>3. QED
  BY <1>1, <1>2

(* Guesses at a password are spaced, no provider is authorized or sent a key that  *)
(* it did not accept.                                                              *)
THEOREM AccountsAreSound == AccountsSpec => []AccountsSound
<1>1. AccountsInv => AccountsSound
  BY DEF AccountsInv, AccountsSound, AccountsTypeOK, AccountRecords, Attempts, LocksHold, Spaced, GuessesAreSpaced
<1>2. QED
  BY AccountsStart, AccountsStep, <1>1, PTL DEF AccountsSpec
===================================================================================
