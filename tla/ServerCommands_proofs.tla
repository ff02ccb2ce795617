----------------------- MODULE ServerCommands_proofs -----------------------
(***************************************************************************)
(* Proofs about ServerCommands for any commands, transfers and names.      *)
(*                                                                         *)
(* The queue and the server's commands are sequences without repetition;   *)
(* two lemmas say what taking the first and adding one do to their         *)
(* elements, and the rest of the argument is about those sets.             *)
(***************************************************************************)
EXTENDS ServerCommands, Integers, SequenceTheorems, TLAPS

Distinct(q) == \A i, j \in 1..Len(q) : i # j => q[i] # q[j]
Elems(q) == {q[i] : i \in 1..Len(q)}
Newest(q) == q[Len(q)]

LEMMA EmptyElems == Distinct(<<>>) /\ Elems(<<>>) = {} /\ <<>> \in Seq(Cmd)
BY DEF Distinct, Elems

\* Taking the first takes one element away, and it was there only once.
LEMMA FirstTaken ==
  ASSUME NEW q \in Seq(Cmd), q # <<>>, Distinct(q)
  PROVE  /\ Head(q) \in Elems(q) /\ Head(q) \in Cmd
         /\ Tail(q) \in Seq(Cmd)
         /\ Distinct(Tail(q))
         /\ Elems(Tail(q)) = Elems(q) \ {Head(q)}
         /\ Tail(q) # <<>> => Newest(Tail(q)) = Newest(q)
         /\ Newest(q) = Head(q) => Tail(q) = <<>>
<1>1. /\ Len(q) \in Nat \ {0}
      /\ Tail(q) \in Seq(Cmd) /\ Len(Tail(q)) = Len(q) - 1
      /\ \A i \in 1..Len(q) - 1 : Tail(q)[i] = q[i + 1]
      /\ Head(q) = q[1] /\ q[1] \in Cmd
  BY EmptySeq, HeadTailProperties, ElementOfSeq
<1>2. Distinct(Tail(q))
  BY <1>1 DEF Distinct
<1>3. Elems(Tail(q)) \subseteq Elems(q) \ {Head(q)}
  BY <1>1 DEF Distinct, Elems
<1>4. ASSUME NEW x \in Elems(q) \ {Head(q)}
      PROVE  x \in Elems(Tail(q))
  <2>1. PICK i \in 1..Len(q) : x = q[i]
    BY DEF Elems
  <2>2. i # 1
    BY <1>1, <2>1
  <2>3. i - 1 \in 1..Len(q) - 1 /\ Tail(q)[i - 1] = q[i]
    BY <1>1, <2>2
  <2> QED
    BY <1>1, <2>1, <2>3 DEF Elems
<1>5. Head(q) \in Elems(q)
  BY <1>1 DEF Elems
<1>6. ASSUME Tail(q) # <<>>
      PROVE  Newest(Tail(q)) = Newest(q)
  <2>1. Len(Tail(q)) # 0
    BY <1>1, <1>6, EmptySeq
  <2>2. Len(q) - 1 \in 1..Len(q) - 1 /\ (Len(q) - 1) + 1 = Len(q)
    BY <1>1, <2>1
  <2> QED
    BY <1>1, <2>2 DEF Newest
<1>7. ASSUME Newest(q) = Head(q)
      PROVE  Tail(q) = <<>>
  <2>1. Len(q) = 1
    BY <1>1, <1>7 DEF Newest, Distinct
  <2>2. Len(Tail(q)) = 0
    BY <1>1, <2>1
  <2> QED
    BY <1>1, <2>2, EmptySeq
<1> QED
  BY <1>1, <1>2, <1>3, <1>4, <1>5, <1>6, <1>7

LEMMA OneAdded ==
  ASSUME NEW q \in Seq(Cmd), Distinct(q), NEW c \in Cmd, c \notin Elems(q)
  PROVE  /\ Append(q, c) \in Seq(Cmd)
         /\ Distinct(Append(q, c))
         /\ Elems(Append(q, c)) = Elems(q) \cup {c}
         /\ Newest(Append(q, c)) = c
<1>1. /\ Len(q) \in Nat
      /\ Append(q, c) \in Seq(Cmd) /\ Len(Append(q, c)) = Len(q) + 1
      /\ \A i \in 1..Len(q) : Append(q, c)[i] = q[i]
      /\ Append(q, c)[Len(q) + 1] = c
  BY AppendProperties, LenProperties
<1>2. Distinct(Append(q, c))
  BY <1>1 DEF Distinct, Elems
<1>3. Elems(Append(q, c)) \subseteq Elems(q) \cup {c}
  BY <1>1 DEF Elems
<1>4. ASSUME NEW x \in Elems(q)
      PROVE  x \in Elems(Append(q, c))
  <2>1. PICK i \in 1..Len(q) : x = q[i]
    BY DEF Elems
  <2>2. i \in 1..Len(q) + 1 /\ Append(q, c)[i] = x
    BY <1>1, <2>1
  <2> QED
    BY <1>1, <2>2 DEF Elems
<1>5. c \in Elems(Append(q, c))
  BY <1>1 DEF Elems
<1>6. Newest(Append(q, c)) = c
  BY <1>1 DEF Newest
<1> QED
  BY <1>1, <1>2, <1>3, <1>4, <1>5, <1>6

-----------------------------------------------------------------------------
(* The inductive invariant.                                                *)

Types ==
  /\ client \in BOOLEAN /\ closed \in BOOLEAN
  /\ stage \in [Cmd -> Stages]
  /\ queue \in Seq(Cmd)
  /\ running \subseteq Cmd
  /\ collector \in Cmd \cup {None}
  /\ rows \in [Cmd -> SUBSET (Cmd \cup Notify)]
  /\ reply \in [Cmd -> Replies]
  /\ lastFailed \in Cmd \cup {Outside, None}
  /\ outcome \in [Cmd -> Outcomes]
  /\ blamed \in [Cmd -> Cmd \cup {Outside, None}]
  /\ overtaken \subseteq Cmd
  /\ waiter \in [Cmd -> Waiters]
  /\ pending \in Seq(Cmd)
  /\ listed \subseteq Cmd
  /\ accepted \subseteq Transfer

QueueInv ==
  /\ Distinct(queue)
  /\ \A c \in Cmd : c \in Elems(queue) => stage[c] = "queued"

\* One command runs at a time, and a caller hears once, at the end.
CallInv ==
  /\ \A c \in Cmd : c \in running <=> stage[c] = "running"
  /\ \A c, d \in running : c = d
  /\ \A c \in Cmd : outcome[c] # "none" <=> stage[c] = "settled"

\* What the server has before it was sent once and either runs or timed out.
ServerInv ==
  /\ Distinct(pending)
  /\ \A c \in Cmd : c \in Elems(pending) => stage[c] = "running" \/ outcome[c] = "timeout"
  /\ \A c \in listed : stage[c] \notin {"idle", "slot", "queued"}

\* The collector is that of the command that runs.
CollectInv ==
  /\ collector # None => collector \in running /\ Collect[collector] # None
  /\ \A c \in running : Collect[c] # None => collector = c
  /\ \A c \in running \cap listed : Collect[c] # None => c \in rows[c]

\* What the server has of the command that runs it was told last; once the error line
\* has come there is nothing else, so the permission it names, or that of a command
\* outside the queue, is the one the caller will read.
ReplyInv ==
  /\ \A c \in running : c \in Elems(pending) => Newest(pending) = c
  /\ \A c \in Cmd : reply[c] # "none" => c \in running /\ pending = <<>>
  /\ \A c \in Cmd : reply[c] = "ok" /\ Collect[c] # None => c \in listed
  /\ \A c \in Waiting : reply[c] = "ok" => Live
  /\ \A c \in Cmd :
       reply[c] = "error" => lastFailed \in {c, None}
                             \/ (lastFailed = Outside /\ c \in overtaken)

\* Only transfers have waiters, and a caller that only waits has one.
WaitInv ==
  /\ Waiting \subseteq Transfer
  /\ \A c \in Cmd : stage[c] = "waiting" => c \in Waiting

Inv == /\ Types /\ QueueInv /\ CallInv /\ ServerInv /\ CollectInv /\ WaitInv /\ ReplyInv
       /\ RowsWhole /\ RowsExplained /\ BlameExplained
       /\ NoWaiterLeft /\ NobodyWaitsInVain

LEMMA InvImpliesTypeOK == Inv => TypeOK
<1> SUFFICES ASSUME Inv PROVE TypeOK
  OBVIOUS
<1>1. DOMAIN queue = 1..Len(queue)
  BY LenProperties DEF Inv, Types
<1>2. \A i \in 1..Len(queue) : queue[i] \in Elems(queue) /\ queue[i] \in Cmd
  BY ElementOfSeq DEF Elems, Inv, Types
<1> QED
  BY <1>1, <1>2 DEF Inv, Types, QueueInv, Distinct, TypeOK

LEMMA InitInv == Init => Inv
<1> SUFFICES ASSUME Init PROVE Inv
  OBVIOUS
<1>1. Types
  BY EmptyElems DEF Init, Types, Stages, Replies, Outcomes, Waiters
<1>2. QueueInv /\ ServerInv
  BY EmptyElems DEF Init, QueueInv, ServerInv
<1> QED
  BY <1>1, <1>2 DEF Init, Inv, CallInv, CollectInv, WaitInv, Waiting, RowsWhole,
     ReplyInv, Elems, RowsExplained, BlameExplained, NoWaiterLeft, NobodyWaitsInVain

LEMMA AskInv ==
  ASSUME Inv, NEW c \in Cmd, Ask(c)
  PROVE  Inv'
<1>1. Types'
  BY CommandAssumption, NameAssumption
     DEF Inv, Types, Stages, Replies, Outcomes, Waiters, Ask, connVars, tapVars, blameVars, serverVars
<1>2. QueueInv'
  BY CommandAssumption, NameAssumption
     DEF Inv, Types, QueueInv, CallInv, Stages, Ask, connVars, tapVars, blameVars, serverVars
<1>3. CallInv'
  BY CommandAssumption, NameAssumption
     DEF Inv, Types, QueueInv, CallInv, WaitInv, Waiting, Ask, connVars, tapVars, blameVars, serverVars
<1>4. ServerInv'
  BY CommandAssumption, NameAssumption
     DEF Inv, Types, ServerInv, CallInv, QueueInv, Ask, connVars, tapVars, blameVars, serverVars
<1>5. CollectInv'
  BY CommandAssumption, NameAssumption
     DEF Inv, Types, CollectInv, CallInv, ServerInv, QueueInv, Ask, connVars, tapVars, blameVars, serverVars
<1>6. WaitInv'
  BY CommandAssumption, NameAssumption
     DEF Inv, Types, WaitInv, Waiting, CallInv, QueueInv, Ask, connVars, tapVars, blameVars, serverVars
<1>7. RowsWhole'
  BY CommandAssumption, NameAssumption
     DEF Inv, Types, RowsWhole, CallInv, CollectInv, QueueInv, WaitInv, Waiting, Ask, connVars, tapVars, blameVars, serverVars
<1>8. RowsExplained'
  BY CommandAssumption, NameAssumption
     DEF Inv, Types, RowsExplained, CallInv, CollectInv, ServerInv, QueueInv, WaitInv, Waiting, Ask, connVars, tapVars, blameVars, serverVars
<1>9. BlameExplained'
  BY CommandAssumption, NameAssumption
     DEF Inv, Types, BlameExplained, Ask, connVars, tapVars, blameVars, serverVars
<1>10. NoWaiterLeft'
  BY CommandAssumption, NameAssumption
     DEF Inv, Types, NoWaiterLeft, WaitInv, Waiting, Ask, connVars, tapVars, blameVars, serverVars
<1>11. NobodyWaitsInVain'
  BY CommandAssumption, NameAssumption
     DEF Inv, Types, NobodyWaitsInVain, WaitInv, Waiting, Live, Ask, connVars, tapVars, blameVars, serverVars
<1>12. ReplyInv'
  BY CommandAssumption, NameAssumption
     DEF Inv, Types, ReplyInv, CallInv, QueueInv, Waiting, Live, Ask, connVars, tapVars, blameVars, serverVars
<1> QED
  BY <1>1, <1>2, <1>3, <1>4, <1>5, <1>6, <1>7, <1>8, <1>9, <1>10, <1>11, <1>12 DEF Inv

LEMMA BusyInv ==
  ASSUME Inv, NEW c \in Cmd, Busy(c)
  PROVE  Inv'
<1>1. Types'
  BY CommandAssumption, NameAssumption
     DEF Inv, Types, Stages, Replies, Outcomes, Waiters, Busy, Fails, Cancel, connVars, tapVars, blameVars, serverVars
<1>2. QueueInv'
  BY CommandAssumption, NameAssumption
     DEF Inv, Types, QueueInv, CallInv, Stages, Busy, Fails, Cancel, connVars, tapVars, blameVars, serverVars
<1>3. CallInv'
  BY CommandAssumption, NameAssumption
     DEF Inv, Types, QueueInv, CallInv, WaitInv, Waiting, Busy, Fails, Cancel, connVars, tapVars, blameVars, serverVars
<1>4. ServerInv'
  BY CommandAssumption, NameAssumption
     DEF Inv, Types, ServerInv, CallInv, QueueInv, Busy, Fails, Cancel, connVars, tapVars, blameVars, serverVars
<1>5. CollectInv'
  BY CommandAssumption, NameAssumption
     DEF Inv, Types, CollectInv, CallInv, ServerInv, QueueInv, Busy, Fails, Cancel, connVars, tapVars, blameVars, serverVars
<1>6. WaitInv'
  BY CommandAssumption, NameAssumption
     DEF Inv, Types, WaitInv, Waiting, CallInv, QueueInv, Busy, Fails, Cancel, connVars, tapVars, blameVars, serverVars
<1>7. RowsWhole'
  BY CommandAssumption, NameAssumption
     DEF Inv, Types, RowsWhole, CallInv, CollectInv, QueueInv, WaitInv, Waiting, Busy, Fails, Cancel, connVars, tapVars, blameVars, serverVars
<1>8. RowsExplained'
  BY CommandAssumption, NameAssumption
     DEF Inv, Types, RowsExplained, CallInv, CollectInv, ServerInv, QueueInv, WaitInv, Waiting, Busy, Fails, Cancel, connVars, tapVars, blameVars, serverVars
<1>9. BlameExplained'
  BY CommandAssumption, NameAssumption
     DEF Inv, Types, BlameExplained, Busy, Fails, Cancel, connVars, tapVars, blameVars, serverVars
<1>10. NoWaiterLeft'
  BY CommandAssumption, NameAssumption
     DEF Inv, Types, NoWaiterLeft, WaitInv, Waiting, Busy, Fails, Cancel, connVars, tapVars, blameVars, serverVars
<1>11. NobodyWaitsInVain'
  BY CommandAssumption, NameAssumption
     DEF Inv, Types, NobodyWaitsInVain, WaitInv, Waiting, Live, Busy, Fails, Cancel, connVars, tapVars, blameVars, serverVars
<1>12. ReplyInv'
  BY CommandAssumption, NameAssumption
     DEF Inv, Types, ReplyInv, CallInv, QueueInv, Waiting, Live, Busy, Fails, Cancel, connVars, tapVars, blameVars, serverVars
<1> QED
  BY <1>1, <1>2, <1>3, <1>4, <1>5, <1>6, <1>7, <1>8, <1>9, <1>10, <1>11, <1>12 DEF Inv

LEMMA QueuedInv ==
  ASSUME Inv, NEW c \in Cmd, Queue(c)
  PROVE  Inv'
<1>1. c \notin Elems(queue)
  BY DEF Inv, QueueInv, Queue
<1>2. /\ queue' \in Seq(Cmd) /\ Distinct(queue')
      /\ Elems(queue') = Elems(queue) \cup {c}
  BY <1>1, OneAdded DEF Inv, Types, QueueInv, Queue
<1>3. Types'
  BY <1>2, CommandAssumption, NameAssumption
     DEF Inv, Types, Stages, Replies, Outcomes, Waiters, Queue, connVars, tapVars, blameVars, serverVars
<1>4. QueueInv'
  BY <1>2, CommandAssumption, NameAssumption
     DEF Inv, Types, QueueInv, CallInv, Stages, Queue, connVars, tapVars, blameVars, serverVars
<1>5. CallInv'
  BY <1>2, CommandAssumption, NameAssumption
     DEF Inv, Types, QueueInv, CallInv, WaitInv, Waiting, Queue, connVars, tapVars, blameVars, serverVars
<1>6. ServerInv'
  BY <1>2, CommandAssumption, NameAssumption
     DEF Inv, Types, ServerInv, CallInv, QueueInv, Queue, connVars, tapVars, blameVars, serverVars
<1>7. CollectInv'
  BY <1>2, CommandAssumption, NameAssumption
     DEF Inv, Types, CollectInv, CallInv, ServerInv, QueueInv, Queue, connVars, tapVars, blameVars, serverVars
<1>8. WaitInv'
  BY <1>2, CommandAssumption, NameAssumption
     DEF Inv, Types, WaitInv, Waiting, CallInv, QueueInv, Queue, connVars, tapVars, blameVars, serverVars
<1>9. RowsWhole'
  BY <1>2, CommandAssumption, NameAssumption
     DEF Inv, Types, RowsWhole, CallInv, CollectInv, QueueInv, WaitInv, Waiting, Queue, connVars, tapVars, blameVars, serverVars
<1>10. RowsExplained'
  BY <1>2, CommandAssumption, NameAssumption
     DEF Inv, Types, RowsExplained, CallInv, CollectInv, ServerInv, QueueInv, WaitInv, Waiting, Queue, connVars, tapVars, blameVars, serverVars
<1>11. BlameExplained'
  BY <1>2, CommandAssumption, NameAssumption
     DEF Inv, Types, BlameExplained, Queue, connVars, tapVars, blameVars, serverVars
<1>12. NoWaiterLeft'
  BY <1>2, CommandAssumption, NameAssumption
     DEF Inv, Types, NoWaiterLeft, WaitInv, Waiting, Queue, connVars, tapVars, blameVars, serverVars
<1>13. NobodyWaitsInVain'
  BY <1>2, CommandAssumption, NameAssumption
     DEF Inv, Types, NobodyWaitsInVain, WaitInv, Waiting, Live, Queue, connVars, tapVars, blameVars, serverVars
<1>14. ReplyInv'
  BY <1>2, CommandAssumption, NameAssumption
     DEF Inv, Types, ReplyInv, CallInv, QueueInv, Waiting, Live, Queue, connVars, tapVars, blameVars, serverVars
<1> QED
  BY <1>3, <1>4, <1>5, <1>6, <1>7, <1>8, <1>9, <1>10, <1>11, <1>12, <1>13, <1>14 DEF Inv

LEMMA RefusedInv ==
  ASSUME Inv, NEW c \in Cmd, Refused(c)
  PROVE  Inv'
<1>1. /\ c \in Elems(queue) /\ stage[c] = "queued"
      /\ queue' \in Seq(Cmd) /\ Distinct(queue')
      /\ Elems(queue') = Elems(queue) \ {c}
  BY FirstTaken DEF Inv, Types, QueueInv, Turn, Refused
<1>2. Types'
  BY <1>1, CommandAssumption, NameAssumption
     DEF Inv, Types, Stages, Replies, Outcomes, Waiters, Refused, Turn, Fails, Cancel, connVars, tapVars, blameVars, serverVars
<1>3. QueueInv'
  BY <1>1, CommandAssumption, NameAssumption
     DEF Inv, Types, QueueInv, CallInv, Stages, Refused, Turn, Fails, Cancel, connVars, tapVars, blameVars, serverVars
<1>4. CallInv'
  BY <1>1, CommandAssumption, NameAssumption
     DEF Inv, Types, QueueInv, CallInv, WaitInv, Waiting, Refused, Turn, Fails, Cancel, connVars, tapVars, blameVars, serverVars
<1>5. ServerInv'
  BY <1>1, CommandAssumption, NameAssumption, ZenonT(40)
     DEF Inv, Types, ServerInv, CallInv, QueueInv, Refused, Turn, Fails, Cancel, connVars, tapVars, blameVars, serverVars
<1>6. CollectInv'
  BY <1>1, CommandAssumption, NameAssumption
     DEF Inv, Types, CollectInv, CallInv, ServerInv, QueueInv, Refused, Turn, Fails, Cancel, connVars, tapVars, blameVars, serverVars
<1>7. WaitInv'
  BY <1>1, CommandAssumption, NameAssumption
     DEF Inv, Types, WaitInv, Waiting, CallInv, QueueInv, Refused, Turn, Fails, Cancel, connVars, tapVars, blameVars, serverVars
<1>8. RowsWhole'
  BY <1>1, CommandAssumption, NameAssumption
     DEF Inv, Types, RowsWhole, CallInv, CollectInv, QueueInv, WaitInv, Waiting, Refused, Turn, Fails, Cancel, connVars, tapVars, blameVars, serverVars
<1>9. RowsExplained'
  <2>1. rows' = rows /\ \A d \in Cmd : outcome[d] = "timeout" => outcome'[d] = "timeout"
    BY <1>1 DEF Inv, Types, CallInv, Refused, Fails, tapVars
  <2> QED
    BY <2>1 DEF Inv, Types, RowsExplained
<1>10. BlameExplained'
  BY <1>1, CommandAssumption, NameAssumption
     DEF Inv, Types, BlameExplained, Refused, Turn, Fails, Cancel, connVars, tapVars, blameVars, serverVars
<1>11. NoWaiterLeft'
  BY <1>1, CommandAssumption, NameAssumption
     DEF Inv, Types, NoWaiterLeft, WaitInv, Waiting, Refused, Turn, Fails, Cancel, connVars, tapVars, blameVars, serverVars
<1>12. NobodyWaitsInVain'
  BY <1>1, CommandAssumption, NameAssumption
     DEF Inv, Types, NobodyWaitsInVain, WaitInv, Waiting, Live, Refused, Turn, Fails, Cancel, connVars, tapVars, blameVars, serverVars
<1>13. ReplyInv'
  BY <1>1, CommandAssumption, NameAssumption
     DEF Inv, Types, ReplyInv, CallInv, QueueInv, Waiting, Live, Refused, Turn, Fails, Cancel, connVars, tapVars, blameVars, serverVars
<1> QED
  BY <1>2, <1>3, <1>4, <1>5, <1>6, <1>7, <1>8, <1>9, <1>10, <1>11, <1>12, <1>13 DEF Inv

LEMMA SendInv ==
  ASSUME Inv, NEW c \in Cmd, Send(c)
  PROVE  Inv'
<1>1. /\ c \in Elems(queue) /\ stage[c] = "queued"
      /\ queue' \in Seq(Cmd) /\ Distinct(queue')
      /\ Elems(queue') = Elems(queue) \ {c}
  BY FirstTaken DEF Inv, Types, QueueInv, Turn, Send
<1>2. c \notin Elems(pending)
  BY <1>1 DEF Inv, CallInv, ServerInv
<1>3. /\ pending' \in Seq(Cmd) /\ Distinct(pending')
      /\ Elems(pending') \subseteq Elems(pending) \cup {c}
      /\ c \in Elems(pending') => Newest(pending') = c
  BY <1>2, OneAdded DEF Inv, Types, ServerInv, Send
<1>4. Types'
  BY <1>1, <1>3, CommandAssumption, NameAssumption
     DEF Inv, Types, Stages, Replies, Outcomes, Waiters, Send, Turn, connVars
<1>5. QueueInv'
  BY <1>1, <1>3, CommandAssumption, NameAssumption
     DEF Inv, Types, QueueInv, CallInv, Stages, Send, Turn, connVars
<1>6. CallInv'
  BY <1>1, <1>3, CommandAssumption, NameAssumption
     DEF Inv, Types, QueueInv, CallInv, WaitInv, Waiting, Send, Turn, connVars
<1>7. ServerInv'
  BY <1>1, <1>3, CommandAssumption, NameAssumption
     DEF Inv, Types, ServerInv, CallInv, QueueInv, Send, Turn, connVars
<1>8. CollectInv'
  BY <1>1, <1>3, CommandAssumption, NameAssumption
     DEF Inv, Types, CollectInv, CallInv, ServerInv, QueueInv, Send, Turn, connVars
<1>9. WaitInv'
  BY <1>1, <1>3, CommandAssumption, NameAssumption
     DEF Inv, Types, WaitInv, Waiting, CallInv, QueueInv, Send, Turn, connVars
<1>10. RowsWhole'
  BY <1>1, <1>3, CommandAssumption, NameAssumption
     DEF Inv, Types, RowsWhole, CallInv, CollectInv, QueueInv, WaitInv, Waiting, Send, Turn, connVars
<1>11. RowsExplained'
  BY <1>1, <1>3, CommandAssumption, NameAssumption
     DEF Inv, Types, RowsExplained, CallInv, CollectInv, ServerInv, QueueInv, WaitInv, Waiting, Send, Turn, connVars
<1>12. BlameExplained'
  BY <1>1, <1>3, CommandAssumption, NameAssumption
     DEF Inv, Types, BlameExplained, Send, Turn, connVars
<1>13. NoWaiterLeft'
  BY <1>1, <1>3, CommandAssumption, NameAssumption
     DEF Inv, Types, NoWaiterLeft, WaitInv, Waiting, Send, Turn, connVars
<1>14. NobodyWaitsInVain'
  BY <1>1, <1>3, CommandAssumption, NameAssumption
     DEF Inv, Types, NobodyWaitsInVain, WaitInv, Waiting, Live, Send, Turn, connVars
<1>15. ReplyInv'
  BY <1>1, <1>3, CommandAssumption, NameAssumption
     DEF Inv, Types, ReplyInv, CallInv, QueueInv, Waiting, Live, Send, Turn, connVars
<1> QED
  BY <1>4, <1>5, <1>6, <1>7, <1>8, <1>9, <1>10, <1>11, <1>12, <1>13, <1>14, <1>15 DEF Inv

LEMMA TimesOutInv ==
  ASSUME Inv, NEW c \in Cmd, TimesOut(c)
  PROVE  Inv'
<1>1. Types'
  BY CommandAssumption, NameAssumption
     DEF Inv, Types, Stages, Replies, Outcomes, Waiters, TimesOut, Awaited, Leaves, Fails, Cancel, connVars, blameVars, serverVars
<1>2. QueueInv'
  BY CommandAssumption, NameAssumption
     DEF Inv, Types, QueueInv, CallInv, Stages, TimesOut, Awaited, Leaves, Fails, Cancel, connVars, blameVars, serverVars
<1>3. CallInv'
  BY CommandAssumption, NameAssumption
     DEF Inv, Types, QueueInv, CallInv, WaitInv, Waiting, TimesOut, Awaited, Leaves, Fails, Cancel, connVars, blameVars, serverVars
<1>4. ServerInv'
  BY CommandAssumption, NameAssumption
     DEF Inv, Types, ServerInv, CallInv, QueueInv, TimesOut, Awaited, Leaves, Fails, Cancel, connVars, blameVars, serverVars
<1>5. CollectInv'
  BY CommandAssumption, NameAssumption
     DEF Inv, Types, CollectInv, CallInv, ServerInv, QueueInv, TimesOut, Awaited, Leaves, Fails, Cancel, connVars, blameVars, serverVars
<1>6. WaitInv'
  BY CommandAssumption, NameAssumption
     DEF Inv, Types, WaitInv, Waiting, CallInv, QueueInv, TimesOut, Awaited, Leaves, Fails, Cancel, connVars, blameVars, serverVars
<1>7. RowsWhole'
  BY CommandAssumption, NameAssumption
     DEF Inv, Types, RowsWhole, CallInv, CollectInv, QueueInv, WaitInv, Waiting, TimesOut, Awaited, Leaves, Fails, Cancel, connVars, blameVars, serverVars
<1>8. RowsExplained'
  BY CommandAssumption, NameAssumption
     DEF Inv, Types, RowsExplained, CallInv, CollectInv, ServerInv, QueueInv, WaitInv, Waiting, TimesOut, Awaited, Leaves, Fails, Cancel, connVars, blameVars, serverVars
<1>9. BlameExplained'
  BY CommandAssumption, NameAssumption
     DEF Inv, Types, BlameExplained, TimesOut, Awaited, Leaves, Fails, Cancel, connVars, blameVars, serverVars
<1>10. NoWaiterLeft'
  BY CommandAssumption, NameAssumption
     DEF Inv, Types, NoWaiterLeft, WaitInv, Waiting, TimesOut, Awaited, Leaves, Fails, Cancel, connVars, blameVars, serverVars
<1>11. NobodyWaitsInVain'
  BY CommandAssumption, NameAssumption
     DEF Inv, Types, NobodyWaitsInVain, WaitInv, Waiting, Live, TimesOut, Awaited, Leaves, Fails, Cancel, connVars, blameVars, serverVars
<1>12. ReplyInv'
  BY CommandAssumption, NameAssumption
     DEF Inv, Types, ReplyInv, CallInv, QueueInv, Waiting, Live, TimesOut, Awaited, Leaves, Fails, Cancel, connVars, blameVars, serverVars
<1> QED
  BY <1>1, <1>2, <1>3, <1>4, <1>5, <1>6, <1>7, <1>8, <1>9, <1>10, <1>11, <1>12 DEF Inv

LEMMA ResumesInv ==
  ASSUME Inv, NEW c \in Cmd, Resumes(c)
  PROVE  Inv'
<1>1. /\ stage[c] = "running" /\ outcome[c] = "none"
      /\ running = {c} /\ running' = {}
      /\ collector' = None
      /\ reply' = [reply EXCEPT ![c] = "none"]
      /\ pending' = <<>>
      /\ UNCHANGED <<client, closed, queue, rows, lastFailed, overtaken, listed, accepted>>
  BY DEF Inv, Types, CallInv, CollectInv, ReplyInv, Resumes, ReturnsOk, Throws, Leaves,
     connVars, serverVars
<1>2. \A d \in Cmd : reply'[d] = "none"
  BY <1>1 DEF Inv, Types, ReplyInv
<1>3. \/ /\ stage' = [stage EXCEPT ![c] = "waiting"] /\ outcome' = outcome
         /\ c \in Waiting /\ Live /\ waiter' = waiter /\ blamed' = blamed
      \/ /\ stage' = [stage EXCEPT ![c] = "settled"]
         /\ \E o \in {"ok", "failed"} :
              /\ outcome' = [outcome EXCEPT ![c] = o]
              /\ o = "ok" /\ Collect[c] # None => c \in listed
         /\ waiter'[c] # "waiting"
         /\ \A d \in Cmd \ {c} : waiter'[d] = waiter[d]
         /\ waiter' \in [Cmd -> Waiters]
         /\ \/ blamed' = blamed
            \/ \E x \in {c, None, Outside} :
                 /\ blamed' = [blamed EXCEPT ![c] = x]
                 /\ x = Outside => c \in overtaken
  <2>1. CASE ReturnsOk(c)
    <3>1. CASE c \in Waiting
      BY <2>1, <3>1 DEF Inv, ReplyInv, ReturnsOk
    <3>2. CASE c \notin Waiting
      <4>1. /\ stage' = [stage EXCEPT ![c] = "settled"]
            /\ waiter' = waiter /\ blamed' = blamed
            /\ Collect[c] # None => c \in listed
        BY <2>1, <3>2 DEF Inv, ReplyInv, ReturnsOk
      <4>2. \E o \in {"ok", "failed"} : outcome' = [outcome EXCEPT ![c] = o]
        BY <2>1, <3>2 DEF ReturnsOk
      <4> QED
        BY <3>2, <4>1, <4>2 DEF Inv, Types, Waiting
    <3> QED
      BY <3>1, <3>2
  <2>2. CASE Throws(c)
    <3>1. /\ stage' = [stage EXCEPT ![c] = "settled"]
          /\ outcome' = [outcome EXCEPT ![c] = "failed"]
      BY <2>2 DEF Throws, Fails
    <3>2. /\ waiter' \in [Cmd -> Waiters] /\ waiter'[c] # "waiting"
          /\ \A d \in Cmd \ {c} : waiter'[d] = waiter[d]
      BY <2>2 DEF Inv, Types, Throws, Fails, Cancel, Waiting, Waiters
    <3>3. \E x \in {c, None, Outside} : /\ blamed' = [blamed EXCEPT ![c] = x]
                                        /\ x = Outside => c \in overtaken
      BY <2>2, NameAssumption DEF Inv, ReplyInv, Throws
    <3> QED
      BY <3>1, <3>2, <3>3
  <2> QED
    BY <2>1, <2>2 DEF Resumes
<1>4. Types'
  <2>1. stage' \in [Cmd -> Stages] /\ outcome' \in [Cmd -> Outcomes]
    <3>1. \A o \in {"ok", "failed"} : [outcome EXCEPT ![c] = o] \in [Cmd -> Outcomes]
      BY DEF Inv, Types, Outcomes
    <3>2. /\ [stage EXCEPT ![c] = "waiting"] \in [Cmd -> Stages]
          /\ [stage EXCEPT ![c] = "settled"] \in [Cmd -> Stages]
      BY DEF Inv, Types, Stages
    <3>3. stage' \in [Cmd -> Stages]
      BY <1>3, <3>2
    <3>4. outcome' \in [Cmd -> Outcomes]
      BY <1>3, <3>1 DEF Inv, Types
    <3> QED
      BY <3>3, <3>4
  <2>2. blamed' \in [Cmd -> Cmd \cup {Outside, None}] /\ waiter' \in [Cmd -> Waiters]
    BY <1>3 DEF Inv, Types
  <2> QED
    BY <1>1, <2>1, <2>2, EmptyElems DEF Inv, Types, Replies
<1>5. QueueInv'
  BY <1>1, <1>3 DEF Inv, Types, QueueInv
<1>6. CallInv'
  <2>1. CASE outcome' = outcome /\ stage' = [stage EXCEPT ![c] = "waiting"]
    BY <1>1, <2>1 DEF Inv, Types, CallInv
  <2>2. ASSUME NEW o \in {"ok", "failed"}, outcome' = [outcome EXCEPT ![c] = o],
               stage' = [stage EXCEPT ![c] = "settled"]
        PROVE  CallInv'
    BY <1>1, <2>2 DEF Inv, Types, CallInv
  <2> QED
    BY <1>3, <2>1, <2>2
<1>7. ServerInv'
  <2>1. \A d \in listed : stage'[d] \notin {"idle", "slot", "queued"}
    BY <1>3 DEF Inv, Types, ServerInv
  <2> QED
    BY <1>1, <2>1, EmptyElems DEF ServerInv
<1>8. CollectInv'
  BY <1>1 DEF CollectInv
<1>9. WaitInv'
  BY <1>1, <1>3 DEF Inv, Types, WaitInv, Waiting
<1>10. RowsWhole'
  BY <1>1, <1>3 DEF Inv, Types, RowsWhole, CollectInv
<1>11. RowsExplained'
  BY <1>1, <1>3 DEF Inv, Types, RowsExplained
<1>12. BlameExplained'
  BY <1>1, <1>3 DEF Inv, Types, BlameExplained
<1>13. NoWaiterLeft'
  BY <1>1, <1>3 DEF Inv, Types, NoWaiterLeft
<1>14. NobodyWaitsInVain'
  BY <1>1, <1>3 DEF Inv, Types, NobodyWaitsInVain, Live
<1>15. ReplyInv'
  BY <1>1, <1>2 DEF ReplyInv, Waiting
<1> QED
  BY <1>4, <1>5, <1>6, <1>7, <1>8, <1>9, <1>10, <1>11, <1>12, <1>13, <1>14, <1>15 DEF Inv

LEMMA TimerInv ==
  ASSUME Inv, NEW c \in Cmd, WaiterTimer(c)
  PROVE  Inv'
<1>1. Types'
  BY CommandAssumption, NameAssumption, ZenonT(40)
     DEF Inv, Types, Stages, Replies, Outcomes, Waiters, WaiterTimer, Answered, connVars, tapVars, blameVars, serverVars
<1>2. QueueInv'
  BY CommandAssumption, NameAssumption
     DEF Inv, Types, QueueInv, CallInv, Stages, WaiterTimer, Answered, connVars, tapVars, blameVars, serverVars
<1>3. CallInv'
  BY CommandAssumption, NameAssumption
     DEF Inv, Types, QueueInv, CallInv, WaitInv, Waiting, WaiterTimer, Answered, connVars, tapVars, blameVars, serverVars
<1>4. ServerInv'
  <2>1. pending' = pending /\ listed' = listed
    BY DEF WaiterTimer, serverVars
  <2>2. \/ stage' = stage /\ outcome' = outcome
        \/ /\ stage[c] = "waiting" /\ stage' = [stage EXCEPT ![c] = "settled"]
           /\ \A d \in Cmd \ {c} : outcome'[d] = outcome[d]
    BY DEF Inv, Types, WaiterTimer, Answered
  <2> QED
    BY <2>1, <2>2 DEF Inv, Types, CallInv, ServerInv
<1>5. CollectInv'
  BY CommandAssumption, NameAssumption
     DEF Inv, Types, CollectInv, CallInv, ServerInv, QueueInv, WaiterTimer, Answered, connVars, tapVars, blameVars, serverVars
<1>6. WaitInv'
  BY CommandAssumption, NameAssumption
     DEF Inv, Types, WaitInv, Waiting, CallInv, QueueInv, WaiterTimer, Answered, connVars, tapVars, blameVars, serverVars
<1>7. RowsWhole'
  BY CommandAssumption, NameAssumption
     DEF Inv, Types, RowsWhole, CallInv, CollectInv, QueueInv, WaitInv, Waiting, WaiterTimer, Answered, connVars, tapVars, blameVars, serverVars
<1>8. RowsExplained'
  BY CommandAssumption, NameAssumption
     DEF Inv, Types, RowsExplained, CallInv, CollectInv, ServerInv, QueueInv, WaitInv, Waiting, WaiterTimer, Answered, connVars, tapVars, blameVars, serverVars
<1>9. BlameExplained'
  BY CommandAssumption, NameAssumption
     DEF Inv, Types, BlameExplained, WaiterTimer, Answered, connVars, tapVars, blameVars, serverVars
<1>10. NoWaiterLeft'
  BY CommandAssumption, NameAssumption
     DEF Inv, Types, NoWaiterLeft, WaitInv, Waiting, WaiterTimer, Answered, connVars, tapVars, blameVars, serverVars
<1>11. NobodyWaitsInVain'
  BY CommandAssumption, NameAssumption
     DEF Inv, Types, NobodyWaitsInVain, WaitInv, Waiting, Live, WaiterTimer, Answered, connVars, tapVars, blameVars, serverVars
<1>12. ReplyInv'
  BY CommandAssumption, NameAssumption
     DEF Inv, Types, ReplyInv, CallInv, QueueInv, Waiting, Live, WaiterTimer, Answered, connVars, tapVars, blameVars, serverVars
<1> QED
  BY <1>1, <1>2, <1>3, <1>4, <1>5, <1>6, <1>7, <1>8, <1>9, <1>10, <1>11, <1>12 DEF Inv

LEMMA RowInv ==
  ASSUME Inv, NEW c \in Cmd, Row(c)
  PROVE  Inv'
<1>1. /\ c \in Elems(pending) /\ Tail(pending) \in Seq(Cmd)
      /\ Distinct(Tail(pending)) /\ Elems(Tail(pending)) = Elems(pending) \ {c}
  BY FirstTaken DEF Inv, Types, ServerInv, Serves, Row
<1>2. Types'
  BY <1>1, CommandAssumption, NameAssumption
     DEF Inv, Types, Stages, Replies, Outcomes, Waiters, Row, Serves, Tap, connVars, callVars, blameVars
<1>3. QueueInv'
  BY <1>1, CommandAssumption, NameAssumption
     DEF Inv, Types, QueueInv, CallInv, Stages, Row, Serves, Tap, connVars, callVars, blameVars
<1>4. CallInv'
  BY <1>1, CommandAssumption, NameAssumption
     DEF Inv, Types, QueueInv, CallInv, WaitInv, Waiting, Row, Serves, Tap, connVars, callVars, blameVars
<1>5. ServerInv'
  BY <1>1, CommandAssumption, NameAssumption
     DEF Inv, Types, ServerInv, CallInv, QueueInv, Row, Serves, Tap, connVars, callVars, blameVars
<1>6. CollectInv'
  BY <1>1, CommandAssumption, NameAssumption
     DEF Inv, Types, CollectInv, CallInv, ServerInv, QueueInv, Row, Serves, Tap, connVars, callVars, blameVars
<1>7. WaitInv'
  BY <1>1, CommandAssumption, NameAssumption
     DEF Inv, Types, WaitInv, Waiting, CallInv, QueueInv, Row, Serves, Tap, connVars, callVars, blameVars
<1>8. RowsWhole'
  BY <1>1, CommandAssumption, NameAssumption
     DEF Inv, Types, RowsWhole, CallInv, CollectInv, QueueInv, WaitInv, Waiting, Row, Serves, Tap, connVars, callVars, blameVars
<1>9. RowsExplained'
  BY <1>1, CommandAssumption, NameAssumption
     DEF Inv, Types, RowsExplained, CallInv, CollectInv, ServerInv, QueueInv, WaitInv, Waiting, Row, Serves, Tap, connVars, callVars, blameVars
<1>10. BlameExplained'
  BY <1>1, CommandAssumption, NameAssumption
     DEF Inv, Types, BlameExplained, Row, Serves, Tap, connVars, callVars, blameVars
<1>11. NoWaiterLeft'
  BY <1>1, CommandAssumption, NameAssumption
     DEF Inv, Types, NoWaiterLeft, WaitInv, Waiting, Row, Serves, Tap, connVars, callVars, blameVars
<1>12. NobodyWaitsInVain'
  BY <1>1, CommandAssumption, NameAssumption
     DEF Inv, Types, NobodyWaitsInVain, WaitInv, Waiting, Live, Row, Serves, Tap, connVars, callVars, blameVars
<1>13. ReplyInv'
  BY <1>1, CommandAssumption, NameAssumption
     DEF Inv, Types, ReplyInv, CallInv, QueueInv, Waiting, Live, Row, Serves, Tap, connVars, callVars, blameVars
<1> QED
  BY <1>2, <1>3, <1>4, <1>5, <1>6, <1>7, <1>8, <1>9, <1>10, <1>11, <1>12, <1>13 DEF Inv

LEMMA PushedInv ==
  ASSUME Inv, NEW n \in Pushed, PushedRow(n)
  PROVE  Inv'
<1>1. Types'
  BY CommandAssumption, NameAssumption
     DEF Inv, Types, Stages, Replies, Outcomes, Waiters, PushedRow, Tap, connVars, callVars, blameVars, serverVars
<1>2. QueueInv'
  BY CommandAssumption, NameAssumption
     DEF Inv, Types, QueueInv, CallInv, Stages, PushedRow, Tap, connVars, callVars, blameVars, serverVars
<1>3. CallInv'
  BY CommandAssumption, NameAssumption
     DEF Inv, Types, QueueInv, CallInv, WaitInv, Waiting, PushedRow, Tap, connVars, callVars, blameVars, serverVars
<1>4. ServerInv'
  BY CommandAssumption, NameAssumption
     DEF Inv, Types, ServerInv, CallInv, QueueInv, PushedRow, Tap, connVars, callVars, blameVars, serverVars
<1>5. CollectInv'
  BY CommandAssumption, NameAssumption
     DEF Inv, Types, CollectInv, CallInv, ServerInv, QueueInv, PushedRow, Tap, connVars, callVars, blameVars, serverVars
<1>6. WaitInv'
  BY CommandAssumption, NameAssumption
     DEF Inv, Types, WaitInv, Waiting, CallInv, QueueInv, PushedRow, Tap, connVars, callVars, blameVars, serverVars
<1>7. RowsWhole'
  BY CommandAssumption, NameAssumption
     DEF Inv, Types, RowsWhole, CallInv, CollectInv, QueueInv, WaitInv, Waiting, PushedRow, Tap, connVars, callVars, blameVars, serverVars
<1>8. RowsExplained'
  BY CommandAssumption, NameAssumption
     DEF Inv, Types, RowsExplained, CallInv, CollectInv, ServerInv, QueueInv, WaitInv, Waiting, PushedRow, Tap, connVars, callVars, blameVars, serverVars
<1>9. BlameExplained'
  BY CommandAssumption, NameAssumption
     DEF Inv, Types, BlameExplained, PushedRow, Tap, connVars, callVars, blameVars, serverVars
<1>10. NoWaiterLeft'
  BY CommandAssumption, NameAssumption
     DEF Inv, Types, NoWaiterLeft, WaitInv, Waiting, PushedRow, Tap, connVars, callVars, blameVars, serverVars
<1>11. NobodyWaitsInVain'
  BY CommandAssumption, NameAssumption
     DEF Inv, Types, NobodyWaitsInVain, WaitInv, Waiting, Live, PushedRow, Tap, connVars, callVars, blameVars, serverVars
<1>12. ReplyInv'
  BY CommandAssumption, NameAssumption
     DEF Inv, Types, ReplyInv, CallInv, QueueInv, Waiting, Live, PushedRow, Tap, connVars, callVars, blameVars, serverVars
<1> QED
  BY <1>1, <1>2, <1>3, <1>4, <1>5, <1>6, <1>7, <1>8, <1>9, <1>10, <1>11, <1>12 DEF Inv

LEMMA RefusalInv ==
  ASSUME Inv, NEW c \in Cmd, Refusal(c)
  PROVE  Inv'
<1>1. /\ c \in Elems(pending) /\ Tail(pending) \in Seq(Cmd)
      /\ Distinct(Tail(pending)) /\ Elems(Tail(pending)) = Elems(pending) \ {c}
  BY FirstTaken DEF Inv, Types, ServerInv, Serves, Refusal
<1>2. Types'
  <2>1. waiter' \in [Cmd -> Waiters]
    BY DEF Inv, Types, Waiters, Refusal, Answered
  <2>2. stage' \in [Cmd -> Stages] /\ outcome' \in [Cmd -> Outcomes]
    BY DEF Inv, Types, Stages, Outcomes, Refusal, Answered
  <2> QED
    BY <2>1, <2>2 DEF Inv, Types, Refusal, connVars, tapVars, blameVars
<1>3. QueueInv'
  BY <1>1, CommandAssumption, NameAssumption
     DEF Inv, Types, QueueInv, CallInv, Stages, Refusal, Serves, Answered, connVars, tapVars, blameVars
<1>4. CallInv'
  BY <1>1, CommandAssumption, NameAssumption
     DEF Inv, Types, QueueInv, CallInv, WaitInv, Waiting, Refusal, Serves, Answered, connVars, tapVars, blameVars
<1>5. ServerInv'
  BY <1>1, CommandAssumption, NameAssumption
     DEF Inv, Types, ServerInv, CallInv, QueueInv, Refusal, Serves, Answered, connVars, tapVars, blameVars
<1>6. CollectInv'
  BY <1>1, CommandAssumption, NameAssumption
     DEF Inv, Types, CollectInv, CallInv, ServerInv, QueueInv, Refusal, Serves, Answered, connVars, tapVars, blameVars
<1>7. WaitInv'
  BY <1>1, CommandAssumption, NameAssumption
     DEF Inv, Types, WaitInv, Waiting, CallInv, QueueInv, Refusal, Serves, Answered, connVars, tapVars, blameVars
<1>8. RowsWhole'
  BY <1>1, CommandAssumption, NameAssumption
     DEF Inv, Types, RowsWhole, CallInv, CollectInv, QueueInv, WaitInv, Waiting, Refusal, Serves, Answered, connVars, tapVars, blameVars
<1>9. RowsExplained'
  BY <1>1, CommandAssumption, NameAssumption
     DEF Inv, Types, RowsExplained, CallInv, CollectInv, ServerInv, QueueInv, WaitInv, Waiting, Refusal, Serves, Answered, connVars, tapVars, blameVars
<1>10. BlameExplained'
  BY <1>1, CommandAssumption, NameAssumption
     DEF Inv, Types, BlameExplained, Refusal, Serves, Answered, connVars, tapVars, blameVars
<1>11. NoWaiterLeft'
  BY <1>1, CommandAssumption, NameAssumption
     DEF Inv, Types, NoWaiterLeft, WaitInv, Waiting, Refusal, Serves, Answered, connVars, tapVars, blameVars
<1>12. NobodyWaitsInVain'
  BY <1>1, CommandAssumption, NameAssumption
     DEF Inv, Types, NobodyWaitsInVain, WaitInv, Waiting, Live, Refusal, Serves, Answered, connVars, tapVars, blameVars
<1>13. ReplyInv'
  BY <1>1, CommandAssumption, NameAssumption
     DEF Inv, Types, ReplyInv, CallInv, QueueInv, Waiting, Live, Refusal, Serves, Answered, connVars, tapVars, blameVars
<1> QED
  BY <1>2, <1>3, <1>4, <1>5, <1>6, <1>7, <1>8, <1>9, <1>10, <1>11, <1>12, <1>13 DEF Inv

LEMMA SucceedsInv ==
  ASSUME Inv, NEW c \in Cmd, Succeeds(c)
  PROVE  Inv'
<1>1. /\ c \in Elems(pending) /\ Tail(pending) \in Seq(Cmd)
      /\ Distinct(Tail(pending)) /\ Elems(Tail(pending)) = Elems(pending) \ {c}
      /\ Tail(pending) # <<>> => Newest(Tail(pending)) = Newest(pending)
      /\ Newest(pending) = c => Tail(pending) = <<>>
  BY FirstTaken DEF Inv, Types, ServerInv, Serves, Succeeds
<1>2. /\ \A d \in Cmd : reply[d] = "none"
      /\ c \in running => Tail(pending) = <<>>
  BY <1>1 DEF Inv, ReplyInv, Serves, Succeeds
<1>3. Types'
  BY <1>1, CommandAssumption, NameAssumption
     DEF Inv, Types, Stages, Replies, Outcomes, Waiters, Succeeds, Serves, Settles, connVars,
         callVars, blameVars
<1>4. CallInv'
  BY <1>1, CommandAssumption, NameAssumption
     DEF Inv, Types, QueueInv, CallInv, WaitInv, Waiting, Succeeds, Serves, Settles, Awaited, blameVars, connVars, callVars
<1>5. QueueInv'
  BY <1>1, CommandAssumption, NameAssumption
     DEF Inv, Types, QueueInv, CallInv, Stages, Succeeds, Serves, Settles, Awaited, blameVars, connVars, callVars
<1>6. ServerInv'
  BY <1>1, CommandAssumption, NameAssumption
     DEF Inv, Types, ServerInv, CallInv, QueueInv, Succeeds, Serves, Settles, Awaited, blameVars, connVars, callVars
<1>7. CollectInv'
  BY <1>1, CommandAssumption, NameAssumption
     DEF Inv, Types, CollectInv, CallInv, ServerInv, QueueInv, Succeeds, Serves, Settles, Awaited, blameVars, connVars, callVars
<1>8. WaitInv'
  BY <1>1, CommandAssumption, NameAssumption
     DEF Inv, Types, WaitInv, Waiting, CallInv, QueueInv, Succeeds, Serves, Settles, Awaited, blameVars, connVars, callVars
<1>9. RowsWhole'
  BY <1>1, CommandAssumption, NameAssumption
     DEF Inv, Types, RowsWhole, CallInv, CollectInv, QueueInv, WaitInv, Waiting, Succeeds, Serves, Settles, Awaited, blameVars, connVars, callVars
<1>10. RowsExplained'
  BY <1>1, CommandAssumption, NameAssumption
     DEF Inv, Types, RowsExplained, CallInv, CollectInv, ServerInv, QueueInv, WaitInv, Waiting, Succeeds, Serves, Settles, Awaited, blameVars, connVars, callVars
<1>11. BlameExplained'
  BY <1>1, CommandAssumption, NameAssumption
     DEF Inv, Types, BlameExplained, Succeeds, Serves, Settles, Awaited, blameVars, connVars, callVars
<1>12. NoWaiterLeft'
  BY <1>1, CommandAssumption, NameAssumption
     DEF Inv, Types, NoWaiterLeft, WaitInv, Waiting, Succeeds, Serves, Settles, Awaited, blameVars, connVars, callVars
<1>13. NobodyWaitsInVain'
  BY <1>1, CommandAssumption, NameAssumption
     DEF Inv, Types, NobodyWaitsInVain, WaitInv, Waiting, Live, Succeeds, Serves, Settles, Awaited, blameVars, connVars, callVars
<1>14. ReplyInv'
  <2>1. \A d \in Cmd : reply'[d] # "none" => /\ d = c /\ reply'[d] = "ok"
                                            /\ c \in running
                                            /\ (Collect[c] # None => c \in listed)
    BY <1>2 DEF Inv, Types, Succeeds, Settles, Awaited
  <2>2. Live' /\ pending' = Tail(pending) /\ running' = running /\ listed' = listed
    BY DEF Live, Succeeds, Serves, connVars, callVars
  <2>3. \A d \in running' : d \in Elems(pending') => Newest(pending') = d
    BY <1>1, <2>2, EmptyElems DEF Inv, ReplyInv
  <2> QED
    BY <1>2, <2>1, <2>2, <2>3 DEF ReplyInv, Waiting
<1> QED
  BY <1>3, <1>4, <1>5, <1>6, <1>7, <1>8, <1>9, <1>10, <1>11, <1>12, <1>13, <1>14 DEF Inv

LEMMA DeniedInv ==
  ASSUME Inv, NEW c \in Cmd, NEW named \in BOOLEAN, Denied(c, named)
  PROVE  Inv'
<1>1. /\ c \in Elems(pending) /\ Tail(pending) \in Seq(Cmd)
      /\ Distinct(Tail(pending)) /\ Elems(Tail(pending)) = Elems(pending) \ {c}
      /\ Tail(pending) # <<>> => Newest(Tail(pending)) = Newest(pending)
      /\ Newest(pending) = c => Tail(pending) = <<>>
  BY FirstTaken DEF Inv, Types, ServerInv, Serves, Denied
<1>2. /\ \A d \in Cmd : reply[d] = "none"
      /\ c \in running => Tail(pending) = <<>>
  BY <1>1 DEF Inv, ReplyInv, Serves, Denied
<1>3. Types'
  BY <1>1, CommandAssumption, NameAssumption
     DEF Inv, Types, Stages, Replies, Outcomes, Waiters, Denied, Serves, Names, Settles,
         connVars, callVars
<1>4. CallInv'
  BY <1>1, CommandAssumption, NameAssumption
     DEF Inv, Types, QueueInv, CallInv, WaitInv, Waiting, Denied, Serves, Settles, Awaited, Names, connVars, callVars
<1>5. QueueInv'
  BY <1>1, CommandAssumption, NameAssumption
     DEF Inv, Types, QueueInv, CallInv, Stages, Denied, Serves, Settles, Awaited, Names, connVars, callVars
<1>6. ServerInv'
  BY <1>1, CommandAssumption, NameAssumption
     DEF Inv, Types, ServerInv, CallInv, QueueInv, Denied, Serves, Settles, Awaited, Names, connVars, callVars
<1>7. CollectInv'
  BY <1>1, CommandAssumption, NameAssumption
     DEF Inv, Types, CollectInv, CallInv, ServerInv, QueueInv, Denied, Serves, Settles, Awaited, Names, connVars, callVars
<1>8. WaitInv'
  BY <1>1, CommandAssumption, NameAssumption
     DEF Inv, Types, WaitInv, Waiting, CallInv, QueueInv, Denied, Serves, Settles, Awaited, Names, connVars, callVars
<1>9. RowsWhole'
  BY <1>1, CommandAssumption, NameAssumption
     DEF Inv, Types, RowsWhole, CallInv, CollectInv, QueueInv, WaitInv, Waiting, Denied, Serves, Settles, Awaited, Names, connVars, callVars
<1>10. RowsExplained'
  BY <1>1, CommandAssumption, NameAssumption
     DEF Inv, Types, RowsExplained, CallInv, CollectInv, ServerInv, QueueInv, WaitInv, Waiting, Denied, Serves, Settles, Awaited, Names, connVars, callVars
<1>11. BlameExplained'
  BY <1>1, CommandAssumption, NameAssumption
     DEF Inv, Types, BlameExplained, Denied, Serves, Settles, Awaited, Names, connVars, callVars
<1>12. NoWaiterLeft'
  BY <1>1, CommandAssumption, NameAssumption
     DEF Inv, Types, NoWaiterLeft, WaitInv, Waiting, Denied, Serves, Settles, Awaited, Names, connVars, callVars
<1>13. NobodyWaitsInVain'
  BY <1>1, CommandAssumption, NameAssumption
     DEF Inv, Types, NobodyWaitsInVain, WaitInv, Waiting, Live, Denied, Serves, Settles, Awaited, Names, connVars, callVars
<1>14. ReplyInv'
  <2>1. \A d \in Cmd : reply'[d] # "none" => /\ d = c /\ reply'[d] = "error"
                                            /\ c \in running
    BY <1>2 DEF Inv, Types, Denied, Settles, Awaited
  <2>2. pending' = Tail(pending) /\ running' = running /\ lastFailed' \in {c, None}
    BY DEF Denied, Names, callVars
  <2>3. \A d \in running' : d \in Elems(pending') => Newest(pending') = d
    BY <1>1, <2>2, EmptyElems DEF Inv, ReplyInv
  <2> QED
    BY <1>2, <2>1, <2>2, <2>3 DEF ReplyInv, Waiting
<1> QED
  BY <1>3, <1>4, <1>5, <1>6, <1>7, <1>8, <1>9, <1>10, <1>11, <1>12, <1>13, <1>14 DEF Inv

LEMMA OtherInv ==
  ASSUME Inv, NEW named \in BOOLEAN, OtherDenied(named)
  PROVE  Inv'
<1>1. Types'
  BY CommandAssumption, NameAssumption
     DEF Inv, Types, Stages, Replies, Outcomes, Waiters, OtherDenied, Names, connVars, callVars, serverVars
<1>2. QueueInv'
  BY CommandAssumption, NameAssumption
     DEF Inv, Types, QueueInv, CallInv, Stages, OtherDenied, Names, connVars, callVars, serverVars
<1>3. CallInv'
  BY CommandAssumption, NameAssumption
     DEF Inv, Types, QueueInv, CallInv, WaitInv, Waiting, OtherDenied, Names, connVars, callVars, serverVars
<1>4. ServerInv'
  BY CommandAssumption, NameAssumption
     DEF Inv, Types, ServerInv, CallInv, QueueInv, OtherDenied, Names, connVars, callVars, serverVars
<1>5. CollectInv'
  BY CommandAssumption, NameAssumption
     DEF Inv, Types, CollectInv, CallInv, ServerInv, QueueInv, OtherDenied, Names, connVars, callVars, serverVars
<1>6. WaitInv'
  BY CommandAssumption, NameAssumption
     DEF Inv, Types, WaitInv, Waiting, CallInv, QueueInv, OtherDenied, Names, connVars, callVars, serverVars
<1>7. RowsWhole'
  BY CommandAssumption, NameAssumption
     DEF Inv, Types, RowsWhole, CallInv, CollectInv, QueueInv, WaitInv, Waiting, OtherDenied, Names, connVars, callVars, serverVars
<1>8. RowsExplained'
  BY CommandAssumption, NameAssumption
     DEF Inv, Types, RowsExplained, CallInv, CollectInv, ServerInv, QueueInv, WaitInv, Waiting, OtherDenied, Names, connVars, callVars, serverVars
<1>9. BlameExplained'
  BY CommandAssumption, NameAssumption
     DEF Inv, Types, BlameExplained, OtherDenied, Names, connVars, callVars, serverVars
<1>10. NoWaiterLeft'
  BY CommandAssumption, NameAssumption
     DEF Inv, Types, NoWaiterLeft, WaitInv, Waiting, OtherDenied, Names, connVars, callVars, serverVars
<1>11. NobodyWaitsInVain'
  BY CommandAssumption, NameAssumption
     DEF Inv, Types, NobodyWaitsInVain, WaitInv, Waiting, Live, OtherDenied, Names, connVars, callVars, serverVars
<1>12. ReplyInv'
  BY CommandAssumption, NameAssumption
     DEF Inv, Types, ReplyInv, CallInv, QueueInv, Waiting, Live, OtherDenied, Names, connVars, callVars, serverVars
<1> QED
  BY <1>1, <1>2, <1>3, <1>4, <1>5, <1>6, <1>7, <1>8, <1>9, <1>10, <1>11, <1>12 DEF Inv

LEMMA AnnouncedInv ==
  ASSUME Inv, NEW c \in Cmd, NEW w \in {"key", "refused"}, Announced(c, w)
  PROVE  Inv'
<1>1. Types'
  <2>1. waiter' \in [Cmd -> Waiters]
    BY DEF Inv, Types, Waiters, Announced, Answered
  <2>2. stage' \in [Cmd -> Stages] /\ outcome' \in [Cmd -> Outcomes]
    BY DEF Inv, Types, Stages, Outcomes, Announced, Answered
  <2> QED
    BY <2>1, <2>2 DEF Inv, Types, Announced, connVars, tapVars, blameVars
<1>2. QueueInv'
  BY CommandAssumption, NameAssumption
     DEF Inv, Types, QueueInv, CallInv, Stages, Announced, Answered, connVars, tapVars, blameVars
<1>3. CallInv'
  BY CommandAssumption, NameAssumption
     DEF Inv, Types, QueueInv, CallInv, WaitInv, Waiting, Announced, Answered, connVars, tapVars, blameVars
<1>4. ServerInv'
  <2>1. pending' = pending /\ listed' = listed
    BY DEF Announced
  <2>2. \/ stage' = stage /\ outcome' = outcome
        \/ /\ stage[c] = "waiting" /\ stage' = [stage EXCEPT ![c] = "settled"]
           /\ \A d \in Cmd \ {c} : outcome'[d] = outcome[d]
    BY DEF Inv, Types, Announced, Answered
  <2> QED
    BY <2>1, <2>2 DEF Inv, Types, CallInv, ServerInv
<1>5. CollectInv'
  BY CommandAssumption, NameAssumption
     DEF Inv, Types, CollectInv, CallInv, ServerInv, QueueInv, Announced, Answered, connVars, tapVars, blameVars
<1>6. WaitInv'
  BY CommandAssumption, NameAssumption
     DEF Inv, Types, WaitInv, Waiting, CallInv, QueueInv, Announced, Answered, connVars, tapVars, blameVars
<1>7. RowsWhole'
  BY CommandAssumption, NameAssumption
     DEF Inv, Types, RowsWhole, CallInv, CollectInv, QueueInv, WaitInv, Waiting, Announced, Answered, connVars, tapVars, blameVars
<1>8. RowsExplained'
  BY CommandAssumption, NameAssumption
     DEF Inv, Types, RowsExplained, CallInv, CollectInv, ServerInv, QueueInv, WaitInv, Waiting, Announced, Answered, connVars, tapVars, blameVars
<1>9. BlameExplained'
  BY CommandAssumption, NameAssumption
     DEF Inv, Types, BlameExplained, Announced, Answered, connVars, tapVars, blameVars
<1>10. NoWaiterLeft'
  BY CommandAssumption, NameAssumption
     DEF Inv, Types, NoWaiterLeft, WaitInv, Waiting, Announced, Answered, connVars, tapVars, blameVars
<1>11. NobodyWaitsInVain'
  BY CommandAssumption, NameAssumption
     DEF Inv, Types, NobodyWaitsInVain, WaitInv, Waiting, Live, Announced, Answered, connVars, tapVars, blameVars
<1>12. ReplyInv'
  BY CommandAssumption, NameAssumption
     DEF Inv, Types, ReplyInv, CallInv, QueueInv, Waiting, Live, Announced, Answered, connVars, tapVars, blameVars
<1> QED
  BY <1>1, <1>2, <1>3, <1>4, <1>5, <1>6, <1>7, <1>8, <1>9, <1>10, <1>11, <1>12 DEF Inv

LEMMA TeardownInv ==
  ASSUME Inv, TeardownClient
  PROVE  Inv'
<1>1. Types'
  BY EmptyElems, CommandAssumption, NameAssumption
     DEF Inv, Types, Stages, Replies, Outcomes, Waiters, TeardownClient, DropsAll, Cancel, tapVars, blameVars
<1>2. QueueInv'
  BY EmptyElems, CommandAssumption, NameAssumption
     DEF Inv, Types, QueueInv, CallInv, Stages, TeardownClient, DropsAll, Cancel, tapVars, blameVars
<1>3. CallInv'
  BY EmptyElems, CommandAssumption, NameAssumption
     DEF Inv, Types, QueueInv, CallInv, WaitInv, Waiting, TeardownClient, DropsAll, Cancel, tapVars, blameVars
<1>4. ServerInv'
  BY EmptyElems, CommandAssumption, NameAssumption
     DEF Inv, Types, ServerInv, CallInv, QueueInv, TeardownClient, DropsAll, Cancel, tapVars, blameVars
<1>5. CollectInv'
  BY EmptyElems, CommandAssumption, NameAssumption
     DEF Inv, Types, CollectInv, CallInv, ServerInv, QueueInv, TeardownClient, DropsAll, Cancel, tapVars, blameVars
<1>6. WaitInv'
  BY EmptyElems, CommandAssumption, NameAssumption
     DEF Inv, Types, WaitInv, Waiting, CallInv, QueueInv, TeardownClient, DropsAll, Cancel, tapVars, blameVars
<1>7. RowsWhole'
  BY EmptyElems, CommandAssumption, NameAssumption
     DEF Inv, Types, RowsWhole, CallInv, CollectInv, QueueInv, WaitInv, Waiting, TeardownClient, DropsAll, Cancel, tapVars, blameVars
<1>8. RowsExplained'
  BY EmptyElems, CommandAssumption, NameAssumption
     DEF Inv, Types, RowsExplained, CallInv, CollectInv, ServerInv, QueueInv, WaitInv, Waiting, TeardownClient, DropsAll, Cancel, tapVars, blameVars
<1>9. BlameExplained'
  BY EmptyElems, CommandAssumption, NameAssumption
     DEF Inv, Types, BlameExplained, TeardownClient, DropsAll, Cancel, tapVars, blameVars
<1>10. NoWaiterLeft'
  BY EmptyElems, CommandAssumption, NameAssumption
     DEF Inv, Types, NoWaiterLeft, WaitInv, Waiting, TeardownClient, DropsAll, Cancel, tapVars, blameVars
<1>11. NobodyWaitsInVain'
  BY EmptyElems, CommandAssumption, NameAssumption
     DEF Inv, Types, NobodyWaitsInVain, WaitInv, Waiting, Live, TeardownClient, DropsAll, Cancel, tapVars, blameVars
<1>12. ReplyInv'
  BY EmptyElems, CommandAssumption, NameAssumption
     DEF Inv, Types, ReplyInv, CallInv, QueueInv, Waiting, Live, TeardownClient, DropsAll, Cancel, tapVars, blameVars
<1> QED
  BY <1>1, <1>2, <1>3, <1>4, <1>5, <1>6, <1>7, <1>8, <1>9, <1>10, <1>11, <1>12 DEF Inv

LEMMA RedialInv ==
  ASSUME Inv, Redial
  PROVE  Inv'
<1>1. Types'
  BY CommandAssumption, NameAssumption
     DEF Inv, Types, Stages, Replies, Outcomes, Waiters, Redial, callVars, tapVars, blameVars, serverVars
<1>2. QueueInv'
  BY CommandAssumption, NameAssumption
     DEF Inv, Types, QueueInv, CallInv, Stages, Redial, callVars, tapVars, blameVars, serverVars
<1>3. CallInv'
  BY CommandAssumption, NameAssumption
     DEF Inv, Types, QueueInv, CallInv, WaitInv, Waiting, Redial, callVars, tapVars, blameVars, serverVars
<1>4. ServerInv'
  BY CommandAssumption, NameAssumption
     DEF Inv, Types, ServerInv, CallInv, QueueInv, Redial, callVars, tapVars, blameVars, serverVars
<1>5. CollectInv'
  BY CommandAssumption, NameAssumption
     DEF Inv, Types, CollectInv, CallInv, ServerInv, QueueInv, Redial, callVars, tapVars, blameVars, serverVars
<1>6. WaitInv'
  BY CommandAssumption, NameAssumption
     DEF Inv, Types, WaitInv, Waiting, CallInv, QueueInv, Redial, callVars, tapVars, blameVars, serverVars
<1>7. RowsWhole'
  BY CommandAssumption, NameAssumption
     DEF Inv, Types, RowsWhole, CallInv, CollectInv, QueueInv, WaitInv, Waiting, Redial, callVars, tapVars, blameVars, serverVars
<1>8. RowsExplained'
  BY CommandAssumption, NameAssumption
     DEF Inv, Types, RowsExplained, CallInv, CollectInv, ServerInv, QueueInv, WaitInv, Waiting, Redial, callVars, tapVars, blameVars, serverVars
<1>9. BlameExplained'
  BY CommandAssumption, NameAssumption
     DEF Inv, Types, BlameExplained, Redial, callVars, tapVars, blameVars, serverVars
<1>10. NoWaiterLeft'
  BY CommandAssumption, NameAssumption
     DEF Inv, Types, NoWaiterLeft, WaitInv, Waiting, Redial, callVars, tapVars, blameVars, serverVars
<1>11. NobodyWaitsInVain'
  BY CommandAssumption, NameAssumption
     DEF Inv, Types, NobodyWaitsInVain, WaitInv, Waiting, Live, Redial, callVars, tapVars, blameVars, serverVars
<1>12. ReplyInv'
  BY CommandAssumption, NameAssumption
     DEF Inv, Types, ReplyInv, CallInv, QueueInv, Waiting, Live, Redial, callVars, tapVars, blameVars, serverVars
<1> QED
  BY <1>1, <1>2, <1>3, <1>4, <1>5, <1>6, <1>7, <1>8, <1>9, <1>10, <1>11, <1>12 DEF Inv

LEMMA FinishInv ==
  ASSUME Inv, Finish
  PROVE  Inv'
<1>1. Types'
  BY EmptyElems, CommandAssumption, NameAssumption
     DEF Inv, Types, Stages, Replies, Outcomes, Waiters, Finish, DropsAll, Cancel, tapVars, blameVars
<1>2. QueueInv'
  BY EmptyElems, CommandAssumption, NameAssumption
     DEF Inv, Types, QueueInv, CallInv, Stages, Finish, DropsAll, Cancel, tapVars, blameVars
<1>3. CallInv'
  BY EmptyElems, CommandAssumption, NameAssumption
     DEF Inv, Types, QueueInv, CallInv, WaitInv, Waiting, Finish, DropsAll, Cancel, tapVars, blameVars
<1>4. ServerInv'
  BY EmptyElems, CommandAssumption, NameAssumption
     DEF Inv, Types, ServerInv, CallInv, QueueInv, Finish, DropsAll, Cancel, tapVars, blameVars
<1>5. CollectInv'
  BY EmptyElems, CommandAssumption, NameAssumption
     DEF Inv, Types, CollectInv, CallInv, ServerInv, QueueInv, Finish, DropsAll, Cancel, tapVars, blameVars
<1>6. WaitInv'
  BY EmptyElems, CommandAssumption, NameAssumption
     DEF Inv, Types, WaitInv, Waiting, CallInv, QueueInv, Finish, DropsAll, Cancel, tapVars, blameVars
<1>7. RowsWhole'
  BY EmptyElems, CommandAssumption, NameAssumption
     DEF Inv, Types, RowsWhole, CallInv, CollectInv, QueueInv, WaitInv, Waiting, Finish, DropsAll, Cancel, tapVars, blameVars
<1>8. RowsExplained'
  BY EmptyElems, CommandAssumption, NameAssumption
     DEF Inv, Types, RowsExplained, CallInv, CollectInv, ServerInv, QueueInv, WaitInv, Waiting, Finish, DropsAll, Cancel, tapVars, blameVars
<1>9. BlameExplained'
  BY EmptyElems, CommandAssumption, NameAssumption
     DEF Inv, Types, BlameExplained, Finish, DropsAll, Cancel, tapVars, blameVars
<1>10. NoWaiterLeft'
  BY EmptyElems, CommandAssumption, NameAssumption
     DEF Inv, Types, NoWaiterLeft, WaitInv, Waiting, Finish, DropsAll, Cancel, tapVars, blameVars
<1>11. NobodyWaitsInVain'
  BY EmptyElems, CommandAssumption, NameAssumption
     DEF Inv, Types, NobodyWaitsInVain, WaitInv, Waiting, Live, Finish, DropsAll, Cancel, tapVars, blameVars
<1>12. ReplyInv'
  BY EmptyElems, CommandAssumption, NameAssumption
     DEF Inv, Types, ReplyInv, CallInv, QueueInv, Waiting, Live, Finish, DropsAll, Cancel, tapVars, blameVars
<1> QED
  BY <1>1, <1>2, <1>3, <1>4, <1>5, <1>6, <1>7, <1>8, <1>9, <1>10, <1>11, <1>12 DEF Inv

LEMMA StepInv == Inv /\ [Next]_vars => Inv'
<1> SUFFICES ASSUME Inv, [Next]_vars
             PROVE  Inv'
  OBVIOUS
<1>1. ASSUME NEW c \in Cmd, CallStep(c)
      PROVE  Inv'
  BY <1>1, AskInv, BusyInv, QueuedInv, RefusedInv, SendInv, TimesOutInv, ResumesInv,
     TimerInv
     DEF CallStep
<1>2. ASSUME NEW c \in Cmd, ServerStep(c)
      PROVE  Inv'
  BY <1>2, RowInv, RefusalInv, SucceedsInv, DeniedInv, AnnouncedInv DEF ServerStep
<1>3. CASE UNCHANGED vars
  BY <1>3 DEF vars, Inv, Types, QueueInv, CallInv, ServerInv, CollectInv, WaitInv,
     ReplyInv, Waiting, RowsWhole, RowsExplained, BlameExplained, NoWaiterLeft,
     NobodyWaitsInVain, Live
<1> QED
  BY <1>1, <1>2, <1>3, PushedInv, OtherInv, TeardownInv, RedialInv, FinishInv DEF Next

-----------------------------------------------------------------------------
(* The theorems.                                                           *)

LEMMA Always == Spec => []Inv
BY InitInv, StepInv, PTL DEF Spec

\* Every variable keeps its type, the queue holds each command at most once and
\* only commands that wait for their turn (TsSession's fields).
THEOREM TypeCorrect == Spec => []TypeOK
BY Always, InvImpliesTypeOK, PTL

\* A list that runCommand answers has all its rows, whatever timed out before it
\* and however often the client was replaced while it ran.
THEOREM ListsWhole == Spec => []RowsWhole
<1>1. Inv => RowsWhole
  BY DEF Inv
<1> QED
  BY <1>1, Always, PTL

\* The tap gives a command no foreign rows but those of a pushed notification of
\* its name or of a timed-out command of its name.
THEOREM ForeignRowsExplained == Spec => []RowsExplained
<1>1. Inv => RowsExplained
  BY DEF Inv
<1> QED
  BY <1>1, Always, PTL

\* lastFailedPermId never blames the missing permission of another command of the
\* queue on the one that failed, nor that of a move or a mute unless its error line
\* came between the command's own and the read.
THEOREM FailuresExplained == Spec => []BlameExplained
<1>1. Inv => BlameExplained
  BY DEF Inv
<1> QED
  BY <1>1, Always, PTL

\* FtWaiters keeps no waiter of a caller that has its answer.
THEOREM WaitersCleared == Spec => []NoWaiterLeft
<1>1. Inv => NoWaiterLeft
  BY DEF Inv
<1> QED
  BY <1>1, Always, PTL

\* Nobody waits for a notification of a client or session that is gone.
THEOREM WaitersReleased == Spec => []NobodyWaitsInVain
<1>1. Inv => NobodyWaitsInVain
  BY DEF Inv
<1> QED
  BY <1>1, Always, PTL
=============================================================================
