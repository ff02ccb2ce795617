----------------------------- MODULE Page_proofs -----------------------------
(* The page, for every value of the constants: its commands over the link to  *)
(* the hub (PageLink) and its line of file transfers (TransferQueue), which   *)
(* share no state.  Of PageLink three invariants, each resting on the one     *)
(* before: nobody waits for an answer that cannot come, page and hub agree at *)
(* rest, and a patient page has one connect request under way.                *)
EXTENDS PageLink, TransferQueue, FiniteSetTheorems, FunctionTheorems,
        WellFoundedInduction, TLAPS

-----------------------------------------------------------------------------
(* Messages in a channel.                                                  *)

In(s, m) == \E i \in 1..Len(s) : s[i] = m

LEMMA AppendIn ==
  ASSUME NEW S, NEW s \in Seq(S), NEW x \in S, NEW m
  PROVE  /\ Append(s, x) \in Seq(S)
         /\ In(s, m) => In(Append(s, x), m)
         /\ In(Append(s, x), x)
  <1>1. Append(s, x) \in Seq(S) /\ Len(Append(s, x)) = Len(s) + 1
    OBVIOUS
  <1>2. \A i \in 1..Len(s) : Append(s, x)[i] = s[i] /\ i \in 1..(Len(s) + 1)
    OBVIOUS
  <1>3. Append(s, x)[Len(s) + 1] = x /\ Len(s) + 1 \in 1..(Len(s) + 1)
    OBVIOUS
  <1> QED
    BY <1>1, <1>2, <1>3 DEF In

LEMMA TailIn ==
  ASSUME NEW S, NEW s \in Seq(S), s # <<>>, NEW m
  PROVE  /\ Tail(s) \in Seq(S) /\ Head(s) \in S
         /\ In(s, m) /\ m # Head(s) => In(Tail(s), m)
  <1>1. Tail(s) \in Seq(S) /\ Head(s) \in S /\ Head(s) = s[1] /\ Len(Tail(s)) = Len(s) - 1
    OBVIOUS
  <1>2. ASSUME NEW i \in 1..Len(s), s[i] = m, m # Head(s)
        PROVE  In(Tail(s), m)
    <2>1. i # 1
      BY <1>1, <1>2
    <2>2. i - 1 \in 1..Len(Tail(s)) /\ Tail(s)[i - 1] = s[i]
      BY <1>1, <2>1
    <2> QED
      BY <1>2, <2>2 DEF In
  <1> QED
    BY <1>1, <1>2 DEF In

-----------------------------------------------------------------------------
(* The commands of the page.                                               *)

\* A command waits only on an open link, and for something that will come.
CallsInv ==
  /\ LinkTypeOK
  /\ \A c \in Cmd : call[c] = "pending" =>
       /\ link = "open"
       /\ c \in jobs \/ In(up, Msg("cmd", c)) \/ In(down, Msg("result", c))

LEMMA CallsInvPending == CallsInv => PendingOnItsWay
  BY DEF CallsInv, PendingOnItsWay, In

\* The kinds of messages.
LEMMA Kinds ==
  /\ \A m \in UpMsgs : m.kind \in {"connect", "disconnect", "cmd"}
  /\ \A m \in UpMsgs : m.kind = "connect" => m.of \in Req
  /\ \A m \in UpMsgs : m.kind = "cmd" => m.of \in Cmd /\ m = Msg("cmd", m.of)
  /\ \A m \in DownMsgs : m.kind = "result" => m.of \in Cmd /\ m = Msg("result", m.of)
  /\ \A c : Msg("cmd", c).kind = "cmd" /\ Msg("cmd", c).of = c
  /\ \A c : Msg("result", c).kind = "result" /\ Msg("result", c).of = c
  /\ \A r \in Req : Msg("connect", r) \in UpMsgs
  /\ \A c \in Cmd : Msg("cmd", c) \in UpMsgs /\ Msg("result", c) \in DownMsgs
  /\ Msg("disconnect", None) \in UpMsgs
  /\ \A k \in {"connecting", "connected", "snapshot", "refused", "fatal", "dropped", "bye"} :
       Msg(k, None) \in DownMsgs
  <1>1. \A k, c : Msg(k, c).kind = k /\ Msg(k, c).of = c
    BY DEF Msg
  <1>2. ASSUME NEW m \in UpMsgs
        PROVE  /\ m.kind \in {"connect", "disconnect", "cmd"}
               /\ m.kind = "connect" => m.of \in Req
               /\ m.kind = "cmd" => m.of \in Cmd /\ m = Msg("cmd", m.of)
    <2>1. CASE \E r \in Req : m = Msg("connect", r)
      BY <2>1, <1>1
    <2>2. CASE m = Msg("disconnect", None)
      BY <2>2, <1>1
    <2>3. CASE \E c \in Cmd : m = Msg("cmd", c)
      BY <2>3, <1>1
    <2> QED
      BY <1>2, <2>1, <2>2, <2>3 DEF UpMsgs
  <1>3. ASSUME NEW m \in DownMsgs, m.kind = "result"
        PROVE  m.of \in Cmd /\ m = Msg("result", m.of)
    <2>1. CASE \E c \in Cmd : m = Msg("result", c)
      BY <2>1, <1>1
    <2>2. CASE \E k \in {"connecting", "connected", "snapshot", "refused", "fatal",
                          "dropped", "bye"} : m = Msg(k, None)
      BY <2>2, <1>1, <1>3
    <2> QED
      BY <1>3, <2>1, <2>2 DEF DownMsgs
  <1> QED
    BY <1>1, <1>2, <1>3 DEF UpMsgs, DownMsgs

\* clearRetry's count.
LEMMA Zero == 0 \in 0..Retries
  BY LinkAssumption

\* What sending does to the channel.
LEMMA SendKeeps ==
  ASSUME up \in Seq(UpMsgs), NEW m \in UpMsgs, Send(m)
  PROVE  /\ up' \in Seq(UpMsgs)
         /\ \A x : In(up, x) => In(up', x)
         /\ link = "open" => In(up', m)
  BY AppendIn DEF Send

LEMMA TellKeeps ==
  ASSUME down \in Seq(DownMsgs), NEW m \in DownMsgs, Tell(m)
  PROVE  /\ down' \in Seq(DownMsgs)
         /\ \A x : In(down, x) => In(down', x)
         /\ In(down', m)
  BY AppendIn DEF Tell

\* What the page takes was no command's answer, unless it is a result.
LEMMA TakesKeeps ==
  ASSUME down \in Seq(DownMsgs), NEW k, Takes(k)
  PROVE  /\ down' \in Seq(DownMsgs)
         /\ Head(down) \in DownMsgs /\ Head(down).kind = k
         /\ \A c : In(down, Msg("result", c)) /\ ~(k = "result" /\ Head(down).of = c) =>
              In(down', Msg("result", c))
  <1>1. down # <<>> /\ Head(down).kind = k /\ down' = Tail(down)
    BY DEF Takes
  <1>2. \A c : Msg("result", c) = Head(down) => k = "result" /\ Head(down).of = c
    BY <1>1, Kinds
  <1> QED
    BY <1>1, <1>2, TailIn

LEMMA HearsKeeps ==
  ASSUME up \in Seq(UpMsgs), NEW k, Hears(k)
  PROVE  /\ up' \in Seq(UpMsgs)
         /\ Head(up) \in UpMsgs /\ Head(up).kind = k
         /\ \A c : In(up, Msg("cmd", c)) /\ ~(k = "cmd" /\ Head(up).of = c) =>
              In(up', Msg("cmd", c))
  <1>1. up # <<>> /\ Head(up).kind = k /\ up' = Tail(up)
    BY DEF Hears
  <1>2. \A c : Msg("cmd", c) = Head(up) => k = "cmd" /\ Head(up).of = c
    BY <1>1, Kinds
  <1> QED
    BY <1>1, <1>2, TailIn

LEMMA CallsInit == Init => CallsInv
  <1> SUFFICES ASSUME Init
               PROVE  CallsInv
    OBVIOUS
  <1>1. up \in Seq(UpMsgs) /\ down \in Seq(DownMsgs) /\ leaving \in Nat
    BY DEF Init
  <1>2. /\ call \in [Cmd -> {"idle", "pending", "ok", "failed"}]
        /\ \A c \in Cmd : call[c] = "idle"
    BY DEF Init
  <1> QED
    BY <1>1, <1>2, Zero DEF Init, CallsInv, LinkTypeOK

LinkMoves ==
  \/ OpenPage \/ LinkOpens \/ Redial
  \/ \E u \in BOOLEAN : LinkCloses(u)

UserMoves ==
  \/ Reconnect \/ Retry \/ Disconnect
  \/ \E r \in Req : Submit(r)
  \/ \E c \in Cmd : Call(c) \/ CallTimeout(c)

\* The link.
LEMMA LinkSteps ==
  ASSUME CallsInv, LinkMoves
  PROVE  CallsInv'
  <1> USE Zero DEF CallsInv, LinkTypeOK, OpenHub
  <1>1. CASE OpenPage
    BY <1>1 DEF OpenPage, pageVars, hubVars
  <1>2. CASE LinkOpens
    <2>1. \A c \in Cmd : call[c] # "pending"
      BY <1>2 DEF LinkOpens
    <2>2. up' \in Seq(UpMsgs)
      <3>1. CASE want /\ last # None
        <4>1. last \in Req
          BY <3>1
        <4>2. Msg("connect", last) \in UpMsgs
          BY <4>1, Kinds
        <4>3. <<Msg("connect", last)>> \in Seq(UpMsgs)
          BY <4>2
        <4>4. CASE asked = None
          BY <3>1, <4>3, <4>4, <1>2 DEF LinkOpens
        <4>5. CASE asked # None
          <5>1. up' = Append(<<Msg("connect", last)>>, Msg("connect", asked))
            BY <3>1, <4>5, <1>2 DEF LinkOpens
          <5>2. Msg("connect", asked) \in UpMsgs
            BY <4>5, Kinds
          <5> QED
            BY <5>1, <5>2, <4>3
        <4> QED
          BY <4>4, <4>5
      <3>2. CASE ~(want /\ last # None)
        <4>1. CASE asked = None
          <5>1. up' = <<>>
            BY <3>2, <4>1, <1>2 DEF LinkOpens
          <5> QED
            BY <5>1
        <4>2. CASE asked # None
          <5>1. up' = Append(<<>>, Msg("connect", asked))
            BY <3>2, <4>2, <1>2 DEF LinkOpens
          <5>2. Msg("connect", asked) \in UpMsgs
            BY <4>2, Kinds
          <5> QED
            BY <5>1, <5>2
        <4> QED
          BY <4>1, <4>2
      <3> QED
        BY <3>1, <3>2
    <2>3. /\ link' = "open" /\ down' = <<>> /\ asked' = None
          /\ ts' = "none" /\ target' = None /\ leaving' = 0 /\ jobs' = {}
          /\ twice' \in BOOLEAN
          /\ UNCHANGED <<hasty, wanted, redial, call>>
      BY <1>2 DEF LinkOpens
    <2>4. /\ last' \in Req \cup {None} /\ want' \in BOOLEAN /\ err' \in BOOLEAN
          /\ conn' \in {"idle", "connecting", "connected"}
          /\ timer' \in BOOLEAN /\ used' \in 0..Retries
      BY <1>2 DEF LinkOpens, ClearRetry
    <2> QED
      BY <2>1, <2>2, <2>3, <2>4
  <1>3. CASE Redial
    <2>1. /\ redial' \in BOOLEAN /\ link' \in {"closed", "connecting", "open"}
          /\ link = "open" => link' = "open"
          /\ UNCHANGED <<hasty, wanted, twice, pageVars, asked, call, up, down, hubVars>>
      BY <1>3 DEF Redial
    <2>2. LinkTypeOK'
      BY <2>1 DEF pageVars, hubVars
    <2> QED
      BY <2>1, <2>2 DEF hubVars
  <1>4. ASSUME NEW u \in BOOLEAN, LinkCloses(u)
        PROVE  CallsInv'
    <2>1. /\ link' = "closed" /\ up' = <<>> /\ down' = <<>> /\ asked' = None
          /\ ts' = "none" /\ target' = None /\ leaving' = 0 /\ jobs' = {}
          /\ conn' = "idle" /\ timer' \in BOOLEAN /\ used' \in 0..Retries
          /\ UNCHANGED <<hasty, last>>
      BY <1>4 DEF LinkCloses, ClearRetry
    <2>2. /\ wanted' \in BOOLEAN /\ redial' \in BOOLEAN /\ want' \in BOOLEAN
          /\ err' \in BOOLEAN /\ twice' \in BOOLEAN
      BY <1>4 DEF LinkCloses
    <2>3. /\ call' \in [Cmd -> {"idle", "pending", "ok", "failed"}]
          /\ \A c \in Cmd : call'[c] # "pending"
      BY <1>4 DEF LinkCloses, FailAll
    <2>4. LinkTypeOK'
      BY <2>1, <2>2, <2>3
    <2> QED
      BY <2>3, <2>4
  <1> QED
    BY <1>1, <1>2, <1>3, <1>4 DEF LinkMoves

\* What is sent over an open link disturbs no command.
LEMMA CallsKept ==
  ASSUME CallsInv, LinkTypeOK', UNCHANGED <<call, down, jobs>>,
         link = "open" => link' = "open", \A x : In(up, x) => In(up', x)
  PROVE  CallsInv'
  <1>1. ASSUME NEW c \in Cmd, call'[c] = "pending"
        PROVE  /\ link' = "open"
               /\ c \in jobs' \/ In(up', Msg("cmd", c)) \/ In(down', Msg("result", c))
    <2>1. /\ link = "open"
          /\ c \in jobs \/ In(up, Msg("cmd", c)) \/ In(down, Msg("result", c))
      BY <1>1 DEF CallsInv
    <2> QED
      BY <2>1
  <1> QED
    BY <1>1 DEF CallsInv

\* The user, the retry and the commands' own timers.
LEMMA UserSteps ==
  ASSUME CallsInv, UserMoves
  PROVE  CallsInv'
  <1> USE Zero DEF CallsInv, LinkTypeOK, OpenHub, ClearRetry
  <1>1. CASE Reconnect
    <2>1. /\ last \in Req /\ link = "open" /\ Send(Msg("connect", last))
          /\ conn' = "connecting" /\ err' = FALSE /\ timer' = FALSE /\ used' = 0
          /\ UNCHANGED <<link, wanted, hasty, want, last, redial, twice, asked, call, down, hubVars>>
      BY <1>1 DEF Reconnect, AttemptReconnect
    <2>2. Msg("connect", last) \in UpMsgs
      BY <2>1, Kinds
    <2>3. up' \in Seq(UpMsgs) /\ \A x : In(up, x) => In(up', x)
      BY <2>1, <2>2, SendKeeps
    <2> QED
      BY <2>1, <2>3 DEF hubVars
  <1>2. CASE Retry
    <2>1. /\ UNCHANGED <<hasty, want, last, used, redial, twice, asked, call, down, hubVars>>
          /\ timer' \in BOOLEAN
      BY <1>2 DEF Retry
    <2>2. CASE last # None /\ want
      <3>1. AttemptReconnect
        BY <1>2, <2>2 DEF Retry
      <3>2. Send(Msg("connect", last)) /\ Msg("connect", last) \in UpMsgs
        BY <3>1, <2>2, Kinds DEF AttemptReconnect
      <3>3. up' \in Seq(UpMsgs) /\ \A x : In(up, x) => In(up', x)
        BY <3>2, SendKeeps
      <3>4. /\ conn' = "connecting" /\ err' = FALSE
            /\ wanted' \in BOOLEAN /\ link' \in {"closed", "connecting", "open"}
            /\ link = "open" => link' = "open"
        BY <3>1 DEF AttemptReconnect
      <3>5. LinkTypeOK'
        BY <2>1, <3>3, <3>4 DEF hubVars
      <3>6. UNCHANGED <<call, down, jobs>>
        BY <2>1 DEF hubVars
      <3> QED
        BY <3>3, <3>4, <3>5, <3>6, CallsKept
    <2>3. CASE ~(last # None /\ want)
      <3>1. UNCHANGED <<conn, err, up, link, wanted>>
        BY <1>2, <2>3 DEF Retry
      <3>2. LinkTypeOK'
        BY <2>1, <3>1 DEF hubVars
      <3> QED
        BY <2>1, <3>1, <3>2 DEF hubVars
    <2> QED
      BY <2>2, <2>3
  <1>3. CASE Disconnect
    <2>1. Send(Msg("disconnect", None)) /\ Msg("disconnect", None) \in UpMsgs
      BY <1>3, Kinds DEF Disconnect
    <2>2. up' \in Seq(UpMsgs) /\ \A x : In(up, x) => In(up', x)
      BY <2>1, SendKeeps
    <2>3. UNCHANGED <<hasty, linkVars, conn, last, err, asked, call, down, hubVars>>
      BY <1>3 DEF Disconnect
    <2>4. LinkTypeOK'
      <3>1. want' \in BOOLEAN /\ timer' \in BOOLEAN /\ used' \in 0..Retries
        BY <1>3 DEF Disconnect
      <3> QED
        BY <2>2, <2>3, <3>1 DEF linkVars, hubVars
    <2> QED
      BY <2>2, <2>3, <2>4 DEF linkVars, hubVars
  <1>4. ASSUME NEW r \in Req, Submit(r)
        PROVE  CallsInv'
    <2>1. err' = FALSE /\ UNCHANGED <<hasty, redial, twice, call, down, hubVars>>
      BY <1>4 DEF Submit
    <2>2. CASE link = "open"
      <3>1. /\ Send(Msg("connect", r)) /\ Msg("connect", r) \in UpMsgs
            /\ conn' = "connecting" /\ want' = TRUE /\ last' = r
            /\ timer' = FALSE /\ used' = 0
            /\ UNCHANGED <<asked, link, wanted>>
        BY <1>4, <2>2, Kinds DEF Submit
      <3>2. up' \in Seq(UpMsgs) /\ \A x : In(up, x) => In(up', x)
        BY <3>1, SendKeeps
      <3>3. LinkTypeOK'
        BY <2>1, <3>1, <3>2 DEF hubVars
      <3> QED
        BY <2>1, <3>1, <3>2, <3>3, CallsKept DEF hubVars
    <2>3. CASE link # "open"
      <3>1. /\ asked' = r /\ wanted' = TRUE /\ link' \in {"closed", "connecting", "open"}
            /\ UNCHANGED <<up, conn, want, last, timer, used>>
        BY <1>4, <2>3 DEF Submit
      <3>2. LinkTypeOK'
        <4>1. UNCHANGED <<hasty, redial, twice, call, ts, target, leaving, jobs>>
          BY <2>1 DEF hubVars
        <4>2. /\ hasty' \in BOOLEAN /\ redial' \in BOOLEAN /\ twice' \in BOOLEAN
              /\ call' \in [Cmd -> {"idle", "pending", "ok", "failed"}]
              /\ ts' \in {"none", "resolving", "dialling", "up", "ending"}
              /\ target' \in Req \cup {None} /\ leaving' \in Nat /\ jobs' \subseteq Cmd
          BY <4>1
        <4>3. up' \in Seq(UpMsgs) /\ down' \in Seq(DownMsgs)
          BY <2>1, <3>1
        <4>4. /\ conn' \in {"idle", "connecting", "connected"} /\ want' \in BOOLEAN
              /\ last' \in Req \cup {None} /\ timer' \in BOOLEAN /\ used' \in 0..Retries
          BY <3>1
        <4> QED
          BY <2>1, <3>1, <4>2, <4>3, <4>4
      <3> QED
        BY <2>1, <2>3, <3>1, <3>2, CallsKept DEF hubVars
    <2> QED
      BY <2>2, <2>3
  <1>5. ASSUME NEW c \in Cmd, Call(c)
        PROVE  CallsInv'
    <2>1. /\ call' = [call EXCEPT ![c] = IF link = "open" THEN "pending" ELSE "failed"]
          /\ Send(Msg("cmd", c)) /\ Msg("cmd", c) \in UpMsgs
          /\ UNCHANGED <<hasty, linkVars, pageVars, asked, down, hubVars>>
      BY <1>5, Kinds DEF Call
    <2>2. /\ up' \in Seq(UpMsgs) /\ \A x : In(up, x) => In(up', x)
          /\ link = "open" => In(up', Msg("cmd", c))
      BY <2>1, SendKeeps
    <2> QED
      BY <2>1, <2>2 DEF linkVars, pageVars, hubVars
  <1>6. ASSUME NEW c \in Cmd, CallTimeout(c)
        PROVE  CallsInv'
    BY <1>6 DEF CallTimeout, linkVars, pageVars, hubVars
  <1> QED
    BY <1>1, <1>2, <1>3, <1>4, <1>5, <1>6 DEF UserMoves

\* What the page hears.
LEMMA TakeSteps ==
  ASSUME CallsInv, PageTakes
  PROVE  CallsInv'
  <1> USE Zero DEF CallsInv, LinkTypeOK, ClearRetry, linkVars, hubVars
  <1>0. ASSUME NEW k, Takes(k), k # "result"
        PROVE  /\ down' \in Seq(DownMsgs)
               /\ \A c : In(down, Msg("result", c)) => In(down', Msg("result", c))
    BY <1>0, TakesKeeps
  <1>1. CASE TakeConnecting
    BY <1>0, <1>1 DEF TakeConnecting
  <1>2. CASE TakeConnected
    <2>1. /\ Takes("connected")
          /\ UNCHANGED <<hasty, linkVars, conn, last, err, asked, call, hubVars>>
      BY <1>2 DEF TakeConnected
    <2>2. CASE UNCHANGED <<want, timer, used, up>>
      BY <1>0, <2>1, <2>2
    <2>3. CASE want' = FALSE /\ ClearRetry /\ Send(Msg("disconnect", None))
      <3>1. up' \in Seq(UpMsgs) /\ \A x : In(up, x) => In(up', x)
        BY <2>3, Kinds, SendKeeps
      <3>2. want' \in BOOLEAN /\ timer' \in BOOLEAN /\ used' \in 0..Retries
        BY <2>3
      <3>3. down' \in Seq(DownMsgs)
        BY <1>0, <2>1
      <3>4. LinkTypeOK'
        BY <2>1, <3>1, <3>2, <3>3
      <3> QED
        BY <1>0, <2>1, <3>1, <3>4
    <2> QED
      BY <1>2, <2>2, <2>3 DEF TakeConnected
  <1>3. CASE TakeSnapshot
    <2>1. /\ Takes("snapshot") /\ conn' = "connected"
          /\ timer' \in BOOLEAN /\ used' \in 0..Retries
          /\ UNCHANGED <<hasty, linkVars, want, last, err, asked, call, up, hubVars>>
      BY <1>3 DEF TakeSnapshot
    <2>2. down' \in Seq(DownMsgs)
      BY <1>0, <2>1
    <2>3. LinkTypeOK'
      BY <2>1, <2>2
    <2>4. \A c : In(down, Msg("result", c)) => In(down', Msg("result", c))
      BY <1>0, <2>1
    <2> QED
      BY <2>1, <2>3, <2>4
  <1>4. CASE TakeRefused
    BY <1>0, <1>4 DEF TakeRefused
  <1>5. CASE TakeFatal
    <2>1. /\ Takes("fatal") /\ conn' = "idle"
          /\ want' \in BOOLEAN /\ err' \in BOOLEAN /\ timer' \in BOOLEAN /\ used' \in 0..Retries
          /\ UNCHANGED <<hasty, linkVars, last, asked, call, up, hubVars>>
      BY <1>5 DEF TakeFatal
    <2>2. down' \in Seq(DownMsgs)
      BY <1>0, <2>1
    <2>3. LinkTypeOK'
      BY <2>1, <2>2
    <2>4. \A c : In(down, Msg("result", c)) => In(down', Msg("result", c))
      BY <1>0, <2>1
    <2> QED
      BY <2>1, <2>3, <2>4
  <1>6. CASE TakeDropped
    <2>1. /\ Takes("dropped") /\ conn' = "idle"
          /\ timer' \in BOOLEAN /\ used' \in 0..Retries /\ err' \in BOOLEAN
          /\ UNCHANGED <<hasty, linkVars, want, last, asked, up, hubVars>>
      <3>1. used' \in 0..Retries
        BY <1>6, LinkAssumption DEF TakeDropped, ScheduleRetry
      <3>2. timer' \in BOOLEAN /\ err' \in BOOLEAN
        BY <1>6 DEF TakeDropped, ScheduleRetry
      <3> QED
        BY <1>6, <3>1, <3>2 DEF TakeDropped
    <2>2. /\ call' \in [Cmd -> {"idle", "pending", "ok", "failed"}]
          /\ \A c \in Cmd : call'[c] # "pending"
      BY <1>6 DEF TakeDropped, FailAll
    <2> QED
      BY <1>0, <2>1, <2>2
  <1>7. CASE TakeBye
    <2>1. /\ call' \in [Cmd -> {"idle", "pending", "ok", "failed"}]
          /\ \A c \in Cmd : call'[c] # "pending"
      BY <1>7 DEF TakeBye, FailAll
    <2>2. /\ Takes("bye") /\ conn' = "idle"
          /\ want' \in BOOLEAN /\ timer' \in BOOLEAN /\ used' \in 0..Retries
          /\ UNCHANGED <<hasty, linkVars, last, err, asked, up, hubVars>>
      BY <1>7 DEF TakeBye
    <2>3. down' \in Seq(DownMsgs)
      BY <1>0, <2>2
    <2> QED
      BY <2>1, <2>2, <2>3
  <1>8. ASSUME NEW c \in Cmd, TakeResult(c)
        PROVE  CallsInv'
    <2>1. PICK ok \in {"ok", "failed"} :
            call' = [call EXCEPT ![c] = IF @ = "pending" THEN ok ELSE @]
      BY <1>8 DEF TakeResult
    <2>2. /\ Takes("result") /\ Head(down).of = c
          /\ UNCHANGED <<hasty, linkVars, pageVars, asked, up, hubVars>>
      BY <1>8 DEF TakeResult
    <2>3. /\ down' \in Seq(DownMsgs)
          /\ \A d : In(down, Msg("result", d)) /\ d # c => In(down', Msg("result", d))
      BY <2>2, TakesKeeps
    <2>4. call'[c] # "pending" /\ \A d \in Cmd : d # c => call'[d] = call[d]
      BY <2>1
    <2> QED
      BY <2>1, <2>2, <2>3, <2>4 DEF pageVars
  <1> QED
    BY <1>1, <1>2, <1>3, <1>4, <1>5, <1>6, <1>7, <1>8 DEF PageTakes

\* What the hub does.
LEMMA HubSteps ==
  ASSUME CallsInv, HubStep
  PROVE  CallsInv'
  <1> USE Zero DEF CallsInv, LinkTypeOK, linkVars, pageVars
  <1>0. ASSUME NEW m \in DownMsgs, Tell(m)
        PROVE  /\ down' \in Seq(DownMsgs)
               /\ \A x : In(down, x) => In(down', x)
               /\ In(down', m)
    BY <1>0, TellKeeps
  <1>1. CASE HubConnects
    <2>1. /\ up' \in Seq(UpMsgs)
          /\ \A c : In(up, Msg("cmd", c)) => In(up', Msg("cmd", c))
          /\ Head(up).of \in Req
      BY <1>1, HearsKeeps, Kinds DEF HubConnects
    <2>2. /\ down' \in Seq(DownMsgs)
          /\ \A x : In(down, x) => In(down', x)
      BY <1>0, <1>1, Kinds DEF HubConnects
    <2>3. ts' \in {"none", "resolving", "dialling", "up", "ending"} /\ target' \in Req \cup {None}
      BY <1>1, <2>1 DEF HubConnects
    <2> QED
      BY <1>1, <2>1, <2>2, <2>3 DEF HubConnects
  <1>2. CASE HubDisconnects
    <2>1. /\ up' \in Seq(UpMsgs)
          /\ \A c : In(up, Msg("cmd", c)) => In(up', Msg("cmd", c))
      BY <1>2, HearsKeeps DEF HubDisconnects
    <2> QED
      BY <1>2, <2>1 DEF HubDisconnects
  <1>3. CASE HubGoodbye
    BY <1>0, <1>3, Kinds DEF HubGoodbye
  <1>4. CASE HubDials
    BY <1>0, <1>4, Kinds DEF HubDials
  <1>5. CASE HubUp
    <2>1. /\ Msg("connected", None) \in DownMsgs /\ Msg("snapshot", None) \in DownMsgs
          /\ down' = down \o <<Msg("connected", None), Msg("snapshot", None)>>
      BY <1>5, Kinds DEF HubUp
    <2>2. /\ down' \in Seq(DownMsgs)
          /\ \A i \in 1..Len(down) : i \in 1..Len(down') /\ down'[i] = down[i]
      BY <2>1
    <2>3. down' \in Seq(DownMsgs) /\ \A x : In(down, x) => In(down', x)
      BY <2>2 DEF In
    <2>4. /\ ts' = "up"
          /\ UNCHANGED <<hasty, linkVars, pageVars, asked, call, up, target, leaving, jobs>>
      BY <1>5 DEF HubUp
    <2> QED
      BY <2>3, <2>4
  <1>6. CASE HubFails
    BY <1>0, <1>6, Kinds DEF HubFails
  <1>7. CASE HubKicked
    BY <1>0, <1>7, Kinds DEF HubKicked
  <1>8. CASE HubDropped
    BY <1>0, <1>8, Kinds DEF HubDropped
  <1>9. CASE HubTakesCmd
    <2>1. /\ up' \in Seq(UpMsgs) /\ Head(up).of \in Cmd
          /\ \A c : In(up, Msg("cmd", c)) /\ Head(up).of # c => In(up', Msg("cmd", c))
      BY <1>9, HearsKeeps, Kinds DEF HubTakesCmd
    <2> QED
      BY <1>9, <2>1 DEF HubTakesCmd
  <1>10. ASSUME NEW c \in Cmd, HubAnswers(c)
         PROVE  CallsInv'
    BY <1>0, <1>10, Kinds DEF HubAnswers
  <1> QED
    BY <1>1, <1>2, <1>3, <1>4, <1>5, <1>6, <1>7, <1>8, <1>9, <1>10 DEF HubStep

LEMMA CallsStep == CallsInv /\ [Next]_vars => CallsInv'
  <1> SUFFICES ASSUME CallsInv, [Next]_vars
               PROVE  CallsInv'
    OBVIOUS
  <1>1. CASE UNCHANGED vars
    BY <1>1 DEF vars, CallsInv, LinkTypeOK
  <1> QED
    BY <1>1, LinkSteps, UserSteps, TakeSteps, HubSteps DEF Next, LinkMoves, UserMoves

\* The page's and the hub's variables keep their types.
THEOREM LinkTypeCorrect == Spec => []LinkTypeOK
  <1>1. CallsInv => LinkTypeOK
    BY DEF CallsInv
  <1> QED
    BY <1>1, CallsInit, CallsStep, PTL DEF Spec

\* Whatever the users, the links and the hub do: nobody waits for an answer that was
\* lost with its link.
THEOREM NobodyWaitsForLostAnswers == Spec => []PendingOnItsWay
  BY CallsInit, CallsStep, CallsInvPending, PTL DEF Spec

-----------------------------------------------------------------------------
(* The line of transfers.                                                  *)

\* A set of numbers that is not empty has a least one.
LEMMA Least ==
  ASSUME NEW S \in SUBSET Nat, S # {}
  PROVE  \E x \in S : \A y \in S : x <= y
  <1>1. IsWellFoundedOn(OpToRel(<, Nat), Nat)
    BY NatLessThanWellFounded
  <1>2. PICK x \in S : \A y \in S : ~ (<<y, x>> \in OpToRel(<, Nat))
    BY <1>1, WFMin
  <1>3. \A y \in S : ~ (y < x)
    BY <1>2 DEF OpToRel
  <1> QED
    BY <1>3

\* Those of S before x.
Below(S, x) == {u \in S : u < x}

\* The rank of a number in a finite set grows with the number.
LEMMA BelowLess ==
  ASSUME NEW S \in SUBSET Nat, IsFiniteSet(S), NEW x \in S
  PROVE  /\ Cardinality(Below(S, x)) \in Nat
         /\ \A y \in S : x < y => Cardinality(Below(S, x)) < Cardinality(Below(S, y))
  <1>1. \A y \in S : Below(S, y) \in SUBSET S
    BY DEF Below
  <1>2. \A y \in S : IsFiniteSet(Below(S, y)) /\ Cardinality(Below(S, y)) \in Nat
    BY <1>1, FS_Subset, FS_CardinalityType
  <1>3. ASSUME NEW y \in S, x < y
        PROVE  Cardinality(Below(S, x)) < Cardinality(Below(S, y))
    <2>1. Below(S, x) \in SUBSET Below(S, y)
      <3>1. ASSUME NEW u \in S, u < x
            PROVE  u < y
        <4>1. u \in Nat /\ x \in Nat /\ y \in Nat
          OBVIOUS
        <4> QED
          BY <1>3, <3>1, <4>1
      <3> QED
        BY <3>1 DEF Below
    <2>2. x \in Below(S, y) /\ x \notin Below(S, x)
      BY <1>3 DEF Below
    <2>3. /\ Cardinality(Below(S, x)) <= Cardinality(Below(S, y))
          /\ Cardinality(Below(S, y)) # Cardinality(Below(S, x))
      BY <1>2, <2>1, <2>2, FS_Subset
    <2> QED
      BY <1>2, <2>3
  <1> QED
    BY <1>2, <1>3

\* Those of S with fewer than k before them.
First(S, k) == {x \in S : Cardinality(Below(S, x)) < k}

\* The first k of a line are k of them, or all.
LEMMA FirstOfLine ==
  ASSUME NEW S \in SUBSET Nat, IsFiniteSet(S), NEW k \in Nat
  PROVE  /\ IsFiniteSet(First(S, k)) /\ Cardinality(First(S, k)) \in Nat
         /\ Cardinality(First(S, k)) <= k
         /\ First(S, k) # S => Cardinality(First(S, k)) = k
  <1> DEFINE T == First(S, k)
             rank == [x \in T |-> Cardinality(Below(S, x))]
  <1>1. T \in SUBSET S /\ IsFiniteSet(T) /\ Cardinality(T) \in Nat
    BY FS_Subset, FS_CardinalityType DEF First
  <1>2. rank \in [T -> 0..(k - 1)]
    <2>1. \A x \in T : Cardinality(Below(S, x)) \in Nat /\ Cardinality(Below(S, x)) < k
      BY BelowLess DEF First
    <2>2. \A x \in T : Cardinality(Below(S, x)) \in 0..(k - 1)
      BY <2>1
    <2> QED
      BY <2>2
  <1>3. ASSUME NEW x \in T, NEW y \in T, rank[x] = rank[y]
        PROVE  x = y
    <2>1. x \in S /\ y \in S /\ x \in Nat /\ y \in Nat
      BY DEF First
    <2>2. ~(x < y) /\ ~(y < x)
      BY <1>3, <2>1, BelowLess
    <2> QED
      BY <2>1, <2>2
  <1>4. rank \in Injection(T, 0..(k - 1))
    <2>1. DOMAIN rank = T
      OBVIOUS
    <2> QED
      BY <1>2, <1>3, <2>1 DEF Injection, IsInjective
  <1>5. IsFiniteSet(0..(k - 1)) /\ Cardinality(0..(k - 1)) = k
    BY FS_Interval, k - 1 \in Int
  <1>6. Cardinality(T) <= k
    <2> HIDE DEF T, rank
    <2> QED
      BY <1>4, <1>5, FS_Injection
  <1>7. ASSUME T # S
        PROVE  Cardinality(T) >= k
    <2>1. PICK x \in S \ T : \A y \in S \ T : x <= y
      <3>1. S \ T \in SUBSET Nat /\ S \ T # {}
        BY <1>1, <1>7
      <3> QED
        BY <3>1, Least
    <2>2. Below(S, x) \in SUBSET T
      <3>1. ASSUME NEW u \in S, u < x
            PROVE  u \in T
        <4>1. u \in Nat /\ x \in Nat /\ (u \notin T => x <= u)
          BY <2>1
        <4> QED
          BY <4>1, <3>1
      <3> QED
        BY <3>1 DEF Below
    <2>3. Cardinality(Below(S, x)) >= k
      BY <2>1, BelowLess DEF First
    <2>4. Cardinality(Below(S, x)) <= Cardinality(T)
      BY <1>1, <2>2, FS_Subset
    <2>5. Cardinality(Below(S, x)) \in Nat
      BY <2>1, BelowLess
    <2> QED
      BY <1>1, <2>3, <2>4, <2>5
  <1> QED
    BY <1>1, <1>6, <1>7

\* Transfer.state, and none for those not asked for yet.
States == {"none", "queued", "running", "done", "failed", "cancelled"}

\* LineMovesOn is not inductive alone: a transfer sent back in line must have been
\* one of those that run, and every deferred one have its timer.
QueueInv ==
  /\ seq \in Nat
  /\ transfer \in [Ids -> States]
  /\ deferred \subseteq Ids /\ retryTimers \subseteq Ids /\ performing \subseteq Ids
  /\ \A t \in Ids : t > seq => transfer[t] = "none"
  /\ \A t \in Ids : transfer[t] = "running" => t \in performing
  /\ \A t \in deferred : transfer[t] = "queued" /\ t \in retryTimers
  /\ LineMovesOn

\* The transfers beside the internal ones that run in a line.
Busy(st) == {t \in Ids \ InternalIds : st[t] = "running"}

\* Sets of transfers are finite sets of numbers.
LEMMA IdsFinite ==
  /\ Ids \in SUBSET Nat /\ IsFiniteSet(Ids)
  /\ \A S \in SUBSET Ids : S \in SUBSET Nat /\ IsFiniteSet(S) /\ Cardinality(S) \in Nat
  <1>1. Ids \in SUBSET Nat /\ IsFiniteSet(Ids)
    BY QueueAssumption, FS_Interval DEF Ids
  <1> QED
    BY <1>1, FS_Subset, FS_CardinalityType

\* A pump over a line that keeps the limit fills it, or leaves nobody behind.
LEMMA PumpKeeps ==
  ASSUME NEW st \in [Ids -> States], NEW wait \in SUBSET Ids, NEW over,
         Pump(st, wait, over), performing \subseteq Ids,
         Cardinality(Busy(st)) <= Parallel,
         \A t \in Ids : st[t] = "running" => t \in performing \ over,
         \A t \in wait : st[t] = "queued" /\ t \in retryTimers',
         retryTimers' \subseteq Ids, seq' \in Nat,
         \A t \in Ids : t > seq' => st[t] = "none"
  PROVE  QueueInv'
  <1> PICK ready \in SUBSET Ids : ready = {t \in Ids : st[t] = "queued" /\ t \notin wait}
    OBVIOUS
  <1> PICK line \in SUBSET Ids : line = ready \ InternalIds
    OBVIOUS
  <1>1. /\ line \in SUBSET Nat /\ IsFiniteSet(line)
        /\ Busy(st) \in SUBSET Ids /\ IsFiniteSet(Busy(st)) /\ Cardinality(Busy(st)) \in Nat
    BY IdsFinite DEF Busy
  <1>2. PICK k \in Nat : k = Parallel - Cardinality(Busy(st))
    <2>1. Parallel - Cardinality(Busy(st)) \in Nat
      BY <1>1, QueueAssumption
    <2> QED
      BY <2>1, Zenon
  <1>3. PICK next \in SUBSET Ids : next = NextToStart(st, wait)
    BY DEF NextToStart
  <1>4. \A t \in Ids : t \in next <=> t \in ready /\ (t \in line => t \in First(line, k))
    <2>1. \A t \in Ids : t \in next <=> t \in ready /\ (t \in line =>
            Cardinality(Below(line, t)) + Cardinality(Busy(st)) < Parallel)
      BY <1>3 DEF NextToStart, Below, Busy
    <2>2. ASSUME NEW t \in line
          PROVE  Cardinality(Below(line, t)) + Cardinality(Busy(st)) < Parallel
                   <=> t \in First(line, k)
      <3>1. Cardinality(Below(line, t)) \in Nat
        BY <1>1, BelowLess
      <3> QED
        BY <3>1, <1>1, <1>2, QueueAssumption DEF First
    <2> QED
      BY <2>1, <2>2
  <1>5. /\ transfer' = [t \in Ids |-> IF t \in next THEN "running" ELSE st[t]]
        /\ performing' = (performing \ over) \cup next
        /\ deferred' = wait
    BY <1>3 DEF Pump
  <1>6. /\ transfer' \in [Ids -> States] /\ performing' \subseteq Ids
        /\ \A t \in Ids : t > seq' => transfer'[t] = "none"
        /\ \A t \in Ids : transfer'[t] = "running" => t \in performing'
        /\ \A t \in deferred' : transfer'[t] = "queued" /\ t \in retryTimers'
    <2>1. \A t \in next : st[t] = "queued" /\ t \notin wait
      BY <1>4
    <2> QED
      BY <1>5, <2>1 DEF States
  <1>7. Others' = Busy(st) \cup First(line, k) /\ Busy(st) \cap First(line, k) = {}
    <2>1. First(line, k) \subseteq line
      BY DEF First
    <2> QED
      BY <1>4, <1>5, <2>1 DEF Others, Busy
  <1>8. /\ Cardinality(Others') = Cardinality(Busy(st)) + Cardinality(First(line, k))
        /\ Cardinality(First(line, k)) \in Nat /\ Cardinality(First(line, k)) <= k
        /\ First(line, k) # line => Cardinality(First(line, k)) = k
    <2>1. /\ IsFiniteSet(First(line, k)) /\ Cardinality(First(line, k)) \in Nat
          /\ Cardinality(First(line, k)) <= k
          /\ First(line, k) # line => Cardinality(First(line, k)) = k
      BY <1>1, FirstOfLine
    <2>2. Cardinality(Busy(st) \cup First(line, k))
            = Cardinality(Busy(st)) + Cardinality(First(line, k))
                - Cardinality(Busy(st) \cap First(line, k))
      BY <1>1, <2>1, FS_Union
    <2>3. Cardinality(Busy(st) \cap First(line, k)) = 0
      BY <1>7, FS_EmptySet
    <2> QED
      BY <1>1, <1>7, <2>1, <2>2, <2>3
  <1>9. Cardinality(Others') <= Parallel
    BY <1>1, <1>2, <1>8, QueueAssumption
  <1>10. ASSUME NEW t \in Ids, transfer'[t] = "queued", t \notin retryTimers'
         PROVE  /\ t \notin deferred' \cup InternalIds
                /\ Cardinality(Others') = Parallel /\ Others' \subseteq performing'
    <2>1. t \notin next /\ t \in ready
      BY <1>5, <1>10
    <2>2. t \in line /\ t \notin First(line, k)
      BY <1>4, <2>1
    <2>3. Cardinality(First(line, k)) = k
      BY <1>8, <2>2
    <2>4. Cardinality(Others') = Parallel
      BY <1>1, <1>2, <1>8, <2>3, QueueAssumption
    <2>5. Others' \subseteq performing'
      BY <1>6 DEF Others
    <2> QED
      BY <1>5, <2>1, <2>2, <2>4, <2>5
  <1>11. LineMovesOn'
    BY <1>9, <1>10 DEF LineMovesOn
  <1> QED
    BY <1>5, <1>6, <1>11 DEF QueueInv

\* Fewer running is no more.
LEMMA FewerBusy ==
  ASSUME QueueInv, NEW st \in [Ids -> States],
         \A t \in Ids : st[t] = "running" => transfer[t] = "running"
  PROVE  Cardinality(Busy(st)) <= Parallel
  <1>1. Busy(st) \in SUBSET Others /\ Others \in SUBSET Ids
    BY DEF Busy, Others
  <1>2. IsFiniteSet(Others) /\ Cardinality(Others) \in Nat /\ Cardinality(Busy(st)) \in Nat
    BY <1>1, IdsFinite
  <1>3. Cardinality(Busy(st)) <= Cardinality(Others)
    BY <1>1, <1>2, FS_Subset
  <1>4. Cardinality(Others) <= Parallel
    BY DEF QueueInv, LineMovesOn
  <1> QED
    BY <1>2, <1>3, <1>4, QueueAssumption

\* The empty line.
LEMMA QueueInvInit == QueueInit => QueueInv
  <1> SUFFICES ASSUME QueueInit
               PROVE  QueueInv
    OBVIOUS
  <1>1. Others = {}
    BY DEF QueueInit, Others
  <1>2. Cardinality(Others) = 0
    BY <1>1, FS_EmptySet
  <1>3. LineMovesOn
    BY <1>2, QueueAssumption DEF QueueInit, LineMovesOn
  <1> QED
    BY <1>3 DEF QueueInit, QueueInv, States

\* Each step keeps it: all but SessionGone and Ripens end in a pump.
LEMMA QueueInvStep == QueueInv /\ [QueueNext]_queueVars => QueueInv'
  <1> SUFFICES ASSUME QueueInv, [QueueNext]_queueVars
               PROVE  QueueInv'
    OBVIOUS
  <1>0. /\ seq \in Nat /\ transfer \in [Ids -> States]
        /\ deferred \subseteq Ids /\ retryTimers \subseteq Ids /\ performing \subseteq Ids
        /\ \A t \in Ids : t \in Nat /\ (t > seq => transfer[t] = "none")
        /\ \A t \in Ids : transfer[t] = "running" => t \in performing
        /\ \A t \in deferred : transfer[t] = "queued" /\ t \in retryTimers
    BY IdsFinite DEF QueueInv
  <1>1. CASE AddTransfer
    <2>1. seq + 1 \in Ids /\ seq' = seq + 1 /\ seq' \in Nat /\ retryTimers' = retryTimers
      BY <1>0, <1>1, QueueAssumption DEF AddTransfer, Ids
    <2>2. transfer[seq + 1] = "none"
      BY <1>0, <2>1
    <2>3. CASE transfer' = [transfer EXCEPT ![seq'] = "failed"] /\ UNCHANGED <<deferred, performing>>
      <3>1. Others' = Others
        BY <1>0, <2>1, <2>2, <2>3 DEF Others
      <3>2. LineMovesOn'
        BY <1>0, <2>1, <2>3, <3>1 DEF QueueInv, LineMovesOn
      <3>3. \A t \in Ids : t > seq' => t > seq /\ t # seq'
        BY <1>0, <2>1
      <3> QED
        BY <1>0, <2>1, <2>2, <2>3, <3>2, <3>3 DEF QueueInv, States
    <2>4. ASSUME NEW how \in {"queued", "cancelled"},
                 Pump([transfer EXCEPT ![seq'] = how], deferred, {})
          PROVE  QueueInv'
      <3>1. PICK st \in [Ids -> States] : st = [transfer EXCEPT ![seq'] = how]
        BY <1>0, <2>1 DEF States
      <3>2. \A t \in Ids : t > seq' => t > seq /\ t # seq'
        BY <1>0, <2>1
      <3>3. \A t \in Ids : /\ st[t] = "running" => transfer[t] = "running"
                           /\ t # seq' => st[t] = transfer[t]
        BY <1>0, <2>1, <3>1
      <3>4. \A t \in deferred : t # seq'
        BY <1>0, <2>1, <2>2
      <3>5. \A t \in Ids : t > seq' => st[t] = "none"
        BY <1>0, <3>2, <3>3
      <3>6. Pump(st, deferred, {})
        BY <2>4, <3>1
      <3>7. \A t \in Ids : st[t] = "running" => t \in performing \ {}
        BY <1>0, <3>3
      <3>8. \A t \in deferred : st[t] = "queued" /\ t \in retryTimers'
        BY <1>0, <2>1, <3>3, <3>4
      <3>9. Cardinality(Busy(st)) <= Parallel
        BY <3>3, FewerBusy
      <3>10. retryTimers' \subseteq Ids
        BY <1>0, <2>1
      <3> QED
        BY <1>0, <2>1, <3>5, <3>6, <3>7, <3>8, <3>9, <3>10, PumpKeeps
    <2> QED
      BY <1>1, <2>3, <2>4 DEF AddTransfer
  <1>2. CASE SessionGone
    <2>1. /\ transfer' = [t \in Ids |-> IF transfer[t] \in {"queued", "running"} THEN "failed"
                                        ELSE transfer[t]]
          /\ deferred' = {} /\ UNCHANGED <<seq, retryTimers, performing>>
      BY <1>2 DEF SessionGone
    <2>2. /\ transfer' \in [Ids -> States]
          /\ \A t \in Ids : transfer'[t] \notin {"queued", "running"}
          /\ \A t \in Ids : transfer[t] = "none" => transfer'[t] = "none"
      BY <1>0, <2>1 DEF States
    <2>3. Others' = {}
      BY <2>2 DEF Others
    <2>4. Cardinality(Others') = 0
      BY <2>3, FS_EmptySet
    <2>5. LineMovesOn'
      BY <2>2, <2>4, QueueAssumption DEF LineMovesOn
    <2> QED
      BY <1>0, <2>1, <2>2, <2>5 DEF QueueInv
  <1>3. ASSUME NEW t \in Ids, CancelTransfer(t)
        PROVE  QueueInv'
    <2>1. PICK st \in [Ids -> States] : st = [transfer EXCEPT ![t] = "cancelled"]
      BY <1>0 DEF States
    <2>2. Pump(st, deferred \ {t}, {}) /\ UNCHANGED <<seq, retryTimers>>
          /\ transfer[t] # "none"
      BY <1>3, <2>1 DEF CancelTransfer
    <2>3. /\ \A u \in Ids : u # t => st[u] = transfer[u]
          /\ st[t] = "cancelled"
      BY <1>0, <2>1
    <2>4. \A u \in Ids : u > seq => st[u] = "none"
      BY <1>0, <2>2, <2>3
    <2> QED
      BY <1>0, <2>2, <2>3, <2>4, FewerBusy, PumpKeeps
  <1>4. ASSUME NEW t \in Ids, HubBusy(t)
        PROVE  QueueInv'
    <2>1. PICK st \in [Ids -> States] : st = [transfer EXCEPT ![t] = "queued"]
      BY <1>0 DEF States
    <2>2. Pump(st, deferred \cup {t}, {t}) /\ seq' = seq /\ retryTimers' = retryTimers \cup {t}
          /\ transfer[t] = "running"
      BY <1>4, <2>1 DEF HubBusy
    <2>3. /\ \A u \in Ids : u # t => st[u] = transfer[u]
          /\ st[t] = "queued"
      BY <1>0, <2>1
    <2>4. \A u \in Ids : u > seq => st[u] = "none"
      BY <1>0, <2>2, <2>3
    <2>5. \A u \in Ids : st[u] = "running" => u \in performing \ {t}
      BY <1>0, <2>3
    <2> QED
      BY <1>0, <2>2, <2>3, <2>4, <2>5, FewerBusy, PumpKeeps
  <1>5. ASSUME NEW t \in Ids, Ripens(t)
        PROVE  QueueInv'
    <2>1. deferred' = deferred \ {t} /\ UNCHANGED <<seq, transfer, retryTimers, performing>>
      BY <1>5 DEF Ripens
    <2>2. Others' = Others
      BY <2>1 DEF Others
    <2> QED
      BY <1>0, <2>1, <2>2 DEF QueueInv, LineMovesOn
  <1>6. ASSUME NEW t \in Ids, RetryTimer(t)
        PROVE  QueueInv'
    <2>1. Pump(transfer, deferred, {}) /\ t \notin deferred
          /\ retryTimers' = retryTimers \ {t} /\ seq' = seq
      BY <1>6 DEF RetryTimer
    <2> QED
      BY <1>0, <2>1, FewerBusy, PumpKeeps
  <1>7. ASSUME NEW t \in Ids, NEW outcome \in {"done", "failed"}, Performed(t, outcome)
        PROVE  QueueInv'
    <2>1. PICK st \in [Ids -> States] :
            st = IF transfer[t] = "running" THEN [transfer EXCEPT ![t] = outcome] ELSE transfer
      BY <1>0 DEF States
    <2>2. Pump(st, deferred, {t}) /\ UNCHANGED <<seq, retryTimers>>
      BY <1>7, <2>1 DEF Performed
    <2>3. /\ \A u \in Ids : u # t => st[u] = transfer[u]
          /\ st[t] # "running" /\ (transfer[t] # "running" => st[t] = transfer[t])
      BY <1>0, <2>1
    <2>4. \A u \in Ids : u > seq => st[u] = "none"
      BY <1>0, <2>3
    <2>5. \A u \in Ids : st[u] = "running" => u \in performing \ {t}
      BY <1>0, <2>3
    <2>6. \A u \in deferred : st[u] = "queued"
      BY <1>0, <2>3
    <2> QED
      BY <1>0, <2>2, <2>3, <2>4, <2>5, <2>6, FewerBusy, PumpKeeps
  <1>8. CASE UNCHANGED queueVars
    BY <1>8 DEF queueVars, QueueInv, LineMovesOn, Others
  <1> QED
    BY <1>1, <1>2, <1>3, <1>4, <1>5, <1>6, <1>7, <1>8 DEF QueueNext

\* However transfers are added, cancelled, answered, sent back by a busy hub and
\* tried again, for any number of them and any limit: no more than the limit run, and
\* nobody in line is left there by everyone (TransferQueue.pump, run and cancel).
THEOREM LineNeverStuck == QueueSpec => []LineMovesOn
  <1>1. QueueInv => LineMovesOn
    BY DEF QueueInv
  <1> QED
    BY <1>1, QueueInvInit, QueueInvStep, PTL DEF QueueSpec

-----------------------------------------------------------------------------
(* What the page shows and what the hub has.                               *)

\* A channel after one message more, and after one less.
LEMMA AppendAt ==
  ASSUME NEW S, NEW s \in Seq(S), NEW x \in S, NEW t, t = Append(s, x)
  PROVE  /\ t \in Seq(S) /\ Len(s) \in Nat /\ Len(t) = Len(s) + 1
         /\ t[Len(t)] = x
         /\ \A i \in 1..Len(t) : t[i] \in S /\ (i # Len(t) => i \in 1..Len(s) /\ t[i] = s[i])
  OBVIOUS

LEMMA TailAt ==
  ASSUME NEW S, NEW s \in Seq(S), s # <<>>, NEW t, t = Tail(s)
  PROVE  /\ t \in Seq(S) /\ Len(s) \in Nat /\ Len(s) >= 1 /\ Len(t) = Len(s) - 1
         /\ Head(s) = s[1] /\ s[1] \in S
         /\ \A i \in 1..Len(t) : i + 1 \in 1..Len(s) /\ t[i] = s[i + 1]
         /\ \A i \in 1..Len(s) : i # 1 => i - 1 \in 1..Len(t)
  OBVIOUS

\* Messages that tell the page where its connection stands.
Tells(m) == m.kind \in {"connecting", "snapshot", "fatal", "dropped", "bye"}

\* None of them comes after place i of the channel.
Final(i) == \A j \in 1..Len(down) : j > i => ~Tells(down[j])

\* A link that is down carries nothing and shows nothing.
ShutInv ==
  link # "open" =>
    /\ conn # "connected" /\ ~timer /\ ~twice
    /\ up = <<>> /\ down = <<>>
    /\ ts = "none" /\ leaving = 0 /\ jobs = {}

\* The hub has the connection, or is saying goodbye to one.
Held == ts = "up" \/ leaving > 0

\* What the page shows once it has read all is held by the hub.
ShowsInv ==
  /\ Final(0) /\ conn = "connected" => Held
  /\ \A i \in 1..Len(down) : down[i].kind = "snapshot" /\ Final(i) => Held

LEMMA AgreeInit == Init => ShutInv /\ ShowsInv
  <1> SUFFICES ASSUME Init
               PROVE  ShutInv /\ ShowsInv
    OBVIOUS
  <1>1. down = <<>> /\ up = <<>> /\ conn = "idle" /\ ts = "none" /\ leaving = 0 /\ timer = FALSE
        /\ jobs = {} /\ twice = FALSE
    BY DEF Init
  <1> QED
    BY <1>1 DEF ShutInv, ShowsInv

LEMMA ShutStep ==
  ASSUME CallsInv, ShutInv, Next
  PROVE  ShutInv'
  <1> USE DEF ShutInv
  <1>1. LinkTypeOK /\ down \in Seq(DownMsgs) /\ up \in Seq(UpMsgs)
    BY DEF CallsInv, LinkTypeOK
  <1>2. CASE OpenPage
    BY <1>2 DEF OpenPage, OpenHub, pageVars, hubVars
  <1>3. CASE LinkOpens
    BY <1>3 DEF LinkOpens
  <1>4. CASE Redial
    BY <1>4 DEF Redial, pageVars, hubVars
  <1>5. ASSUME NEW u \in BOOLEAN, LinkCloses(u)
        PROVE  ShutInv'
    BY <1>5 DEF LinkCloses, ClearRetry
  <1>6. CASE Reconnect
    BY <1>6 DEF Reconnect, AttemptReconnect
  <1>7. CASE Retry
    BY <1>7 DEF Retry, AttemptReconnect
  <1>8. CASE Disconnect
    BY <1>8 DEF Disconnect, linkVars
  <1>9. ASSUME NEW r \in Req, Submit(r)
        PROVE  ShutInv'
    BY <1>9 DEF Submit, Send, OpenHub, ClearRetry, hubVars
  <1>10. ASSUME NEW c \in Cmd, Call(c) \/ CallTimeout(c)
        PROVE  ShutInv'
    BY <1>10 DEF Call, CallTimeout, Send, linkVars, pageVars, hubVars
  <1>11. CASE PageTakes
    <2>1. down # <<>> /\ UNCHANGED linkVars
      BY <1>11 DEF PageTakes, Takes, TakeConnecting, TakeConnected, TakeSnapshot, TakeRefused,
                   TakeFatal, TakeDropped, TakeBye, TakeResult
    <2> QED
      BY <2>1 DEF linkVars
  <1>12. CASE HubStep
    <2>1. UNCHANGED <<linkVars, conn, timer>>
      BY <1>12 DEF HubStep, HubConnects, HubDisconnects, HubGoodbye, HubDials, HubUp, HubFails,
                   HubKicked, HubDropped, HubTakesCmd, HubAnswers, pageVars
    <2>2. link # "open" => FALSE
      <3>1. CASE \E c \in Cmd : HubAnswers(c)
        BY <3>1 DEF HubAnswers
      <3> QED
        BY <1>12, <3>1 DEF HubStep, HubConnects, HubDisconnects, HubGoodbye, HubDials, HubUp,
                 HubFails, HubKicked, HubDropped, HubTakesCmd, Hears
    <2> QED
      BY <2>1, <2>2 DEF linkVars
  <1> QED
    BY <1>2, <1>3, <1>4, <1>5, <1>6, <1>7, <1>8, <1>9, <1>10, <1>11, <1>12 DEF Next

\* A step at the page's end that tells the page nothing and does not make it connected.
LEMMA ShowsByUser ==
  ASSUME ShowsInv, UNCHANGED <<down, ts, leaving>>, conn' = conn \/ conn' # "connected"
  PROVE  ShowsInv'
  BY DEF ShowsInv, Final, Held

\* The page takes the first message: what it shows in the end is as before.
LEMMA ShowsTaken ==
  ASSUME ShowsInv, down \in Seq(DownMsgs), NEW k, Takes(k), UNCHANGED <<ts, leaving>>,
         conn' = "connected" => k = "snapshot" \/ (conn = "connected" /\ ~Tells([kind |-> k]))
  PROVE  ShowsInv'
  <1>1. /\ down # <<>> /\ down' = Tail(down) /\ down[1].kind = k
        /\ Len(down) \in Nat /\ Len(down) >= 1 /\ Len(down') = Len(down) - 1
        /\ \A i \in 1..Len(down') : i + 1 \in 1..Len(down) /\ down'[i] = down[i + 1]
        /\ \A i \in 1..Len(down) : i # 1 => i - 1 \in 1..Len(down')
    BY TailAt DEF Takes
  <1>2. \A i \in 0..Len(down') : Final(i)' => Final(i + 1)
    <2> SUFFICES ASSUME NEW i \in 0..Len(down'), Final(i)', NEW j \in 1..Len(down), j > i + 1
                 PROVE  ~Tells(down[j])
      BY DEF Final
    <2>1. j - 1 \in 1..Len(down') /\ j - 1 > i /\ down'[j - 1] = down[j]
      BY <1>1
    <2> QED
      BY <2>1 DEF Final, Tells
  <1>3. Held' = Held
    BY DEF Held
  <1>4. ASSUME Final(0)', conn' = "connected"
        PROVE  Held
    <2>1. Final(1)
      BY <1>1, <1>2, <1>4
    <2>2. CASE k = "snapshot"
      BY <1>1, <2>1, <2>2 DEF ShowsInv
    <2>3. CASE conn = "connected" /\ ~Tells([kind |-> k])
      <3>1. Final(0)
        BY <1>1, <2>1, <2>3 DEF Final, Tells
      <3> QED
        BY <2>3, <3>1 DEF ShowsInv
    <2> QED
      BY <1>4, <2>2, <2>3
  <1>5. ASSUME NEW i \in 1..Len(down'), down'[i].kind = "snapshot", Final(i)'
        PROVE  Held
    BY <1>1, <1>2, <1>5 DEF ShowsInv
  <1> QED
    BY <1>3, <1>4, <1>5 DEF ShowsInv

\* The hub says what is so.
LEMMA ShowsTold ==
  ASSUME ShowsInv, down \in Seq(DownMsgs), NEW m \in DownMsgs, Tell(m), conn' = conn,
         m.kind # "snapshot", Tells(m) \/ (Held => Held')
  PROVE  ShowsInv'
  <1>1. /\ Len(down) \in Nat /\ Len(down') = Len(down) + 1 /\ down'[Len(down')] = m
        /\ \A i \in 1..Len(down') : i # Len(down') => i \in 1..Len(down) /\ down'[i] = down[i]
    BY AppendAt DEF Tell
  <1>2. \A i \in 0..Len(down) : Final(i)' => Final(i) /\ ~Tells(m)
    BY <1>1 DEF Final, Tells
  <1> QED
    BY <1>1, <1>2 DEF ShowsInv

LEMMA ShowsStep ==
  ASSUME CallsInv, ShutInv, ShowsInv, Next
  PROVE  ShowsInv'
  <1>1. LinkTypeOK /\ down \in Seq(DownMsgs) /\ up \in Seq(UpMsgs) /\ leaving \in Nat
    BY DEF CallsInv, LinkTypeOK
  <1>2. CASE LinkOpens
    <2>1. conn # "connected" /\ conn' \in {"connecting", conn} /\ down' = <<>>
      BY <1>2 DEF LinkOpens, ShutInv
    <2> QED
      BY <2>1 DEF ShowsInv
  <1>3. ASSUME NEW u \in BOOLEAN, LinkCloses(u)
        PROVE  ShowsInv'
    <2>1. conn' = "idle" /\ down' = <<>>
      BY <1>3 DEF LinkCloses
    <2> QED
      BY <2>1 DEF ShowsInv
  <1>4. CASE OpenPage \/ Redial
    BY <1>4, ShowsByUser DEF OpenPage, Redial, pageVars, hubVars
  <1>5. CASE Reconnect \/ Retry \/ Disconnect
    BY <1>5, ShowsByUser DEF Reconnect, Retry, Disconnect, AttemptReconnect, hubVars
  <1>6. ASSUME NEW r \in Req, Submit(r)
        PROVE  ShowsInv'
    BY <1>6, ShowsByUser DEF Submit, hubVars
  <1>7. ASSUME NEW c \in Cmd, Call(c) \/ CallTimeout(c)
        PROVE  ShowsInv'
    BY <1>7, ShowsByUser DEF Call, CallTimeout, pageVars, hubVars
  <1>8. CASE PageTakes
    <2> USE <1>1, <1>8, ShowsTaken DEF Tells, hubVars
    <2>1. CASE TakeConnecting
      BY <2>1 DEF TakeConnecting
    <2>2. CASE TakeConnected
      BY <2>2 DEF TakeConnected
    <2>3. CASE TakeSnapshot
      BY <2>3 DEF TakeSnapshot
    <2>4. CASE TakeRefused
      BY <2>4 DEF TakeRefused
    <2>5. CASE TakeFatal
      BY <2>5 DEF TakeFatal
    <2>6. CASE TakeDropped
      BY <2>6 DEF TakeDropped
    <2>7. CASE TakeBye
      BY <2>7 DEF TakeBye
    <2>8. ASSUME NEW c \in Cmd, TakeResult(c)
          PROVE  ShowsInv'
      BY <2>8 DEF TakeResult, pageVars
    <2> QED
      BY <2>1, <2>2, <2>3, <2>4, <2>5, <2>6, <2>7, <2>8 DEF PageTakes
  <1>9. CASE HubStep
    <2>1. \A k, x : Msg(k, x).kind = k
      BY DEF Msg
    <2>2. CASE HubConnects
      <3>1. CASE Tell(Msg("refused", None)) /\ UNCHANGED <<ts, leaving, conn>>
        <4>1. Msg("refused", None) \in DownMsgs /\ (Held => Held')
          BY <3>1, Kinds DEF Held
        <4> QED
          BY <1>1, <2>1, <3>1, <4>1, ShowsTold
      <3>2. CASE Tell(Msg("fatal", None)) /\ UNCHANGED <<ts, leaving, conn>>
        <4>1. Msg("fatal", None) \in DownMsgs /\ Tells(Msg("fatal", None))
          BY <2>1, Kinds DEF Tells
        <4> QED
          BY <1>1, <2>1, <3>2, <4>1, ShowsTold
      <3>3. CASE ts = "none" /\ UNCHANGED <<down, leaving, conn>>
        BY <3>3 DEF ShowsInv, Final, Held
      <3> QED
        BY <2>2, <3>1, <3>2, <3>3 DEF HubConnects, pageVars
    <2>3. CASE HubDisconnects
      BY <1>1, <2>3 DEF HubDisconnects, pageVars, ShowsInv, Final, Held
    <2>4. CASE HubGoodbye
      <3>1. Msg("bye", None) \in DownMsgs /\ Tells(Msg("bye", None))
        BY <2>1, Kinds DEF Tells
      <3> QED
        BY <1>1, <2>1, <2>4, <3>1, ShowsTold DEF HubGoodbye, pageVars
    <2>5. CASE HubDials
      <3>1. Msg("connecting", None) \in DownMsgs /\ Tells(Msg("connecting", None))
        BY <2>1, Kinds DEF Tells
      <3> QED
        BY <1>1, <2>1, <2>5, <3>1, ShowsTold DEF HubDials, pageVars
    <2>6. CASE HubUp
      <3>1. Held'
        BY <2>6 DEF HubUp, Held
      <3> QED
        BY <3>1 DEF ShowsInv
    <2>7. CASE HubFails \/ HubKicked
      <3>1. Msg("fatal", None) \in DownMsgs /\ Tells(Msg("fatal", None))
        BY <2>1, Kinds DEF Tells
      <3> QED
        BY <1>1, <2>1, <2>7, <3>1, ShowsTold DEF HubFails, HubKicked, pageVars
    <2>8. CASE HubDropped
      <3>1. Msg("dropped", None) \in DownMsgs /\ Tells(Msg("dropped", None))
        BY <2>1, Kinds DEF Tells
      <3> QED
        BY <1>1, <2>1, <2>8, <3>1, ShowsTold DEF HubDropped, pageVars
    <2>9. CASE HubTakesCmd
      BY <2>9, ShowsByUser DEF HubTakesCmd, pageVars
    <2>10. ASSUME NEW c \in Cmd, HubAnswers(c)
          PROVE  ShowsInv'
      <3>1. Msg("result", c) \in DownMsgs /\ (Held => Held')
        BY <2>10, Kinds DEF HubAnswers, Held
      <3> QED
        BY <1>1, <2>1, <2>10, <3>1, ShowsTold DEF HubAnswers, pageVars
    <2> QED
      BY <1>9, <2>2, <2>3, <2>4, <2>5, <2>6, <2>7, <2>8, <2>9, <2>10 DEF HubStep
  <1> QED
    BY <1>2, <1>3, <1>4, <1>5, <1>6, <1>7, <1>8, <1>9 DEF Next

\* The kinds of messages in a channel.
KindsOf(s) == {s[i].kind : i \in 1..Len(s)}

\* Nobody asks for a connection after letting one go.
NoConnectBehind(s) ==
  \A i, j \in 1..Len(s) : s[i].kind = "disconnect" /\ j > i => s[j].kind # "connect"

LEMMA KindsOneMore ==
  ASSUME NEW s, NEW t, NEW x, Len(s) \in Nat, Len(t) = Len(s) + 1, t[Len(t)] = x,
         \A i \in 1..Len(s) : t[i] = s[i]
  PROVE  KindsOf(t) = KindsOf(s) \cup {x.kind}
  <1>1. \A i \in 1..Len(t) : i # Len(t) => i \in 1..Len(s)
    OBVIOUS
  <1>2. KindsOf(t) \subseteq KindsOf(s) \cup {x.kind}
    BY <1>1 DEF KindsOf
  <1>3. ASSUME NEW i \in 1..Len(s)
        PROVE  s[i].kind \in KindsOf(t)
    <2>1. i \in 1..Len(t) /\ t[i] = s[i]
      BY <1>1
    <2> QED
      BY <2>1 DEF KindsOf
  <1>4. x.kind \in KindsOf(t)
    <2>1. Len(t) \in 1..Len(t)
      BY <1>1
    <2> QED
      BY <1>1, <2>1 DEF KindsOf
  <1> QED
    BY <1>2, <1>3, <1>4 DEF KindsOf

LEMMA BehindAppend ==
  ASSUME NEW S, NEW s \in Seq(S), NEW x \in S, NEW t, t = Append(s, x)
  PROVE  NoConnectBehind(s) /\ (x.kind # "connect" \/ "disconnect" \notin KindsOf(s)) =>
           NoConnectBehind(t)
  <1>1. /\ Len(s) \in Nat /\ Len(t) = Len(s) + 1 /\ t[Len(t)] = x
        /\ \A i \in 1..Len(s) : t[i] = s[i]
        /\ \A i \in 1..Len(t) : i # Len(t) => i \in 1..Len(s)
    OBVIOUS
  <1>2. ASSUME NoConnectBehind(s), x.kind # "connect" \/ "disconnect" \notin KindsOf(s),
               NEW i \in 1..Len(t), NEW j \in 1..Len(t), t[i].kind = "disconnect", j > i
        PROVE  t[j].kind # "connect"
    <2>1. i \in 1..Len(s) /\ s[i].kind = "disconnect"
      BY <1>1, <1>2
    <2>2. "disconnect" \in KindsOf(s)
      BY <2>1 DEF KindsOf
    <2> QED
      BY <1>1, <1>2, <2>1, <2>2 DEF NoConnectBehind
  <1> QED
    BY <1>2 DEF NoConnectBehind

LEMMA KindsTail ==
  ASSUME NEW S, NEW s \in Seq(S), s # <<>>, NEW t, t = Tail(s)
  PROVE  /\ KindsOf(t) \subseteq KindsOf(s) /\ Head(s).kind \in KindsOf(s)
         /\ NoConnectBehind(s) =>
              /\ NoConnectBehind(t)
              /\ Head(s).kind = "disconnect" => "connect" \notin KindsOf(t)
  <1>1. /\ Len(s) \in Nat /\ Len(s) >= 1 /\ Len(t) = Len(s) - 1 /\ Head(s) = s[1]
        /\ \A i \in 1..Len(t) : i + 1 \in 1..Len(s) /\ t[i] = s[i + 1]
    BY TailAt
  <1>2. KindsOf(t) \subseteq KindsOf(s) /\ Head(s).kind \in KindsOf(s)
    <2>1. 1 \in 1..Len(s)
      BY <1>1
    <2> QED
      BY <1>1, <2>1 DEF KindsOf
  <1>3. ASSUME NoConnectBehind(s)
        PROVE  NoConnectBehind(t)
    BY <1>1, <1>3 DEF NoConnectBehind
  <1>4. ASSUME NoConnectBehind(s), Head(s).kind = "disconnect"
        PROVE  "connect" \notin KindsOf(t)
    <2>1. ASSUME NEW i \in 1..Len(t)
          PROVE  t[i].kind # "connect"
      <3>1. 1 \in 1..Len(s) /\ i + 1 \in 1..Len(s) /\ i + 1 > 1 /\ t[i] = s[i + 1]
        BY <1>1
      <3> QED
        BY <1>1, <1>4, <3>1 DEF NoConnectBehind
    <2> QED
      BY <2>1 DEF KindsOf
  <1> QED
    BY <1>2, <1>3, <1>4

LEMMA NoKinds == KindsOf(<<>>) = {} /\ NoConnectBehind(<<>>)
  BY DEF KindsOf, NoConnectBehind

\* A connection that was let go of is over before another is asked for.
LetGo == ~want /\ ~timer
PartInv ==
  ~hasty =>
    /\ NoConnectBehind(up)
    /\ "disconnect" \in KindsOf(up) => LetGo
    /\ leaving > 0 \/ "bye" \in KindsOf(down) =>
         LetGo /\ ts = "none" /\ "connect" \notin KindsOf(up)

LEMMA QuietUser ==
  ASSUME LinkTypeOK, UserMay, ~hasty
  PROVE  up = <<>> /\ down = <<>> /\ leaving = 0 /\ ts # "ending"
  <1>1. Len(up) \in Nat /\ Len(down) \in Nat /\ leaving \in Nat /\ Outstanding = 0
    BY DEF LinkTypeOK, UserMay
  <1>2. Len(up) = 0 /\ Len(down) = 0 /\ leaving = 0 /\ ts # "ending"
    BY <1>1 DEF Outstanding
  <1> QED
    BY <1>2 DEF LinkTypeOK

\* What is sent upon a fresh link are connects.
LEMMA FreshLink ==
  ASSUME CallsInv, LinkOpens
  PROVE  /\ KindsOf(up') \subseteq {"connect"} /\ NoConnectBehind(up')
         /\ down' = <<>> /\ leaving' = 0 /\ ts' = "none" /\ conn' \in {"connecting", conn}
  <1>1. \A k, x : Msg(k, x).kind = k
    BY DEF Msg
  <1>2. /\ down' = <<>> /\ leaving' = 0 /\ ts' = "none" /\ conn' \in {"connecting", conn}
    BY DEF LinkOpens
  <1>3. ASSUME NEW s, s = <<>> \/ s = <<Msg("connect", last)>>,
               up' = s \/ up' = Append(s, Msg("connect", asked))
        PROVE  \A i \in 1..Len(up') : up'[i].kind = "connect"
    <2>1. CASE s = <<>>
      BY <1>1, <1>3, <2>1
    <2>2. CASE s = <<Msg("connect", last)>>
      <3>1. Len(s) = 1 /\ s[1].kind = "connect" /\ s \in Seq({Msg("connect", last)})
        BY <1>1, <2>2
      <3>2. Len(Append(s, Msg("connect", asked))) = 2
            /\ Append(s, Msg("connect", asked))[1] = s[1]
            /\ Append(s, Msg("connect", asked))[2] = Msg("connect", asked)
        BY <3>1, <2>2
      <3> QED
        BY <1>1, <1>3, <3>1, <3>2
    <2> QED
      BY <1>3, <2>1, <2>2
  <1>4. \A i \in 1..Len(up') : up'[i].kind = "connect"
    BY <1>3 DEF LinkOpens
  <1> QED
    BY <1>2, <1>4 DEF KindsOf, NoConnectBehind

LEMMA SendKinds ==
  ASSUME LinkTypeOK, NEW m \in UpMsgs, Send(m)
  PROVE  \/ up' = up
         \/ /\ KindsOf(up') = KindsOf(up) \cup {m.kind}
            /\ NoConnectBehind(up) /\ (m.kind # "connect" \/ "disconnect" \notin KindsOf(up)) =>
                 NoConnectBehind(up')
  <1>1. up \in Seq(UpMsgs) /\ (up' = up \/ up' = Append(up, m))
    BY DEF LinkTypeOK, Send
  <1> DEFINE U == UpMsgs
  <1>2. up \in Seq(U) /\ m \in U
    BY <1>1
  <1> HIDE DEF U
  <1>3. ASSUME up' = Append(up, m)
        PROVE  KindsOf(up') = KindsOf(up) \cup {m.kind}
    <2>1. /\ Len(up) \in Nat /\ Len(up') = Len(up) + 1 /\ up'[Len(up')] = m
          /\ \A i \in 1..Len(up) : up'[i] = up[i]
      BY <1>2, <1>3
    <2> QED
      BY <2>1, KindsOneMore
  <1>4. ASSUME up' = Append(up, m), NoConnectBehind(up),
               m.kind # "connect" \/ "disconnect" \notin KindsOf(up)
        PROVE  NoConnectBehind(up')
    BY <1>2, <1>4, BehindAppend
  <1> QED
    BY <1>1, <1>3, <1>4

LEMMA TellKinds ==
  ASSUME LinkTypeOK, NEW m \in DownMsgs, Tell(m)
  PROVE  KindsOf(down') = KindsOf(down) \cup {m.kind}
  <1>1. down \in Seq(DownMsgs) /\ down' = Append(down, m)
    BY DEF LinkTypeOK, Tell
  <1> DEFINE D == DownMsgs
  <1>2. down \in Seq(D) /\ m \in D
    BY <1>1
  <1> HIDE DEF D
  <1>3. /\ Len(down) \in Nat /\ Len(down') = Len(down) + 1 /\ down'[Len(down')] = m
        /\ \A i \in 1..Len(down) : down'[i] = down[i]
    BY <1>1, <1>2
  <1> QED
    BY <1>3, KindsOneMore

LEMMA HearsKinds ==
  ASSUME LinkTypeOK, NEW k, Hears(k)
  PROVE  /\ KindsOf(up') \subseteq KindsOf(up) /\ k \in KindsOf(up)
         /\ NoConnectBehind(up) =>
              NoConnectBehind(up') /\ (k = "disconnect" => "connect" \notin KindsOf(up'))
  BY KindsTail DEF LinkTypeOK, Hears

LEMMA TakesKinds ==
  ASSUME LinkTypeOK, NEW k, Takes(k)
  PROVE  KindsOf(down') \subseteq KindsOf(down) /\ k \in KindsOf(down)
  BY KindsTail DEF LinkTypeOK, Takes

LEMMA MsgKinds == \A k, x : Msg(k, x).kind = k
  BY DEF Msg

LEMMA UpKinds ==
  ASSUME LinkTypeOK, HubUp
  PROVE  KindsOf(down') \subseteq KindsOf(down) \cup {"connected", "snapshot"}
  <1>1. ASSUME NEW i \in 1..Len(down')
        PROVE  \/ i \in 1..Len(down) /\ down'[i] = down[i]
               \/ down'[i].kind \in {"connected", "snapshot"}
    BY <1>1, MsgKinds DEF LinkTypeOK, HubUp
  <1> QED
    BY <1>1 DEF KindsOf

LEMMA PartInit == Init => PartInv
  BY NoKinds DEF Init, PartInv

LEMMA PartStep ==
  ASSUME CallsInv, ShutInv, PartInv, Next
  PROVE  PartInv'
  <1>1. LinkTypeOK /\ leaving \in Nat
    BY DEF CallsInv, LinkTypeOK
  <1> USE MsgKinds DEF PartInv, LetGo
  <1>2. CASE LinkOpens
    <2>1. KindsOf(up') \subseteq {"connect"} /\ NoConnectBehind(up') /\ down' = <<>> /\ leaving' = 0
      BY <1>2, FreshLink
    <2> QED
      BY <2>1, NoKinds
  <1>3. ASSUME NEW u \in BOOLEAN, LinkCloses(u)
        PROVE  PartInv'
    BY <1>3, NoKinds DEF LinkCloses
  <1>4. CASE OpenPage \/ Redial
    BY <1>4 DEF OpenPage, Redial, pageVars, hubVars
  <1>5. CASE Reconnect
    <2>1. /\ Send(Msg("connect", last)) /\ Msg("connect", last) \in UpMsgs /\ UserMay
          /\ UNCHANGED <<hasty, down, leaving>>
      BY <1>1, <1>5, Kinds DEF Reconnect, AttemptReconnect, hubVars, LinkTypeOK
    <2>2. ~hasty => up = <<>> /\ down = <<>> /\ leaving = 0
      BY <1>1, <2>1, QuietUser
    <2> QED
      BY <1>1, <2>1, <2>2, SendKinds, NoKinds
  <1>6. CASE Retry
    <2>1. timer' = FALSE /\ timer /\ UNCHANGED <<hasty, want, down, ts, leaving>>
      BY <1>6 DEF Retry, hubVars
    <2>2. CASE last # None /\ want
      <3>1. Send(Msg("connect", last)) /\ Msg("connect", last) \in UpMsgs
        BY <1>1, <1>6, <2>2, Kinds DEF Retry, AttemptReconnect, LinkTypeOK
      <3> QED
        BY <1>1, <2>1, <3>1, SendKinds
    <2>3. CASE ~(last # None /\ want)
      BY <1>6, <2>1, <2>3 DEF Retry
    <2> QED
      BY <2>2, <2>3
  <1>7. CASE Disconnect
    <2>1. /\ Send(Msg("disconnect", None)) /\ Msg("disconnect", None) \in UpMsgs
          /\ want' = FALSE /\ timer' = FALSE /\ UNCHANGED <<hasty, down, ts, leaving>>
      BY <1>7, Kinds DEF Disconnect, ClearRetry, hubVars
    <2> QED
      BY <1>1, <2>1, SendKinds
  <1>8. ASSUME NEW r \in Req, Submit(r)
        PROVE  PartInv'
    <2>1. UserMay /\ UNCHANGED <<hasty, down, ts, leaving>>
      BY <1>8 DEF Submit, hubVars
    <2>2. ~hasty => up = <<>> /\ down = <<>> /\ leaving = 0
      BY <1>1, <2>1, QuietUser
    <2>3. CASE link = "open"
      <3>1. Send(Msg("connect", r)) /\ Msg("connect", r) \in UpMsgs
        BY <1>8, <2>3, Kinds DEF Submit
      <3> QED
        BY <1>1, <2>1, <2>2, <3>1, SendKinds, NoKinds
    <2>4. CASE link # "open"
      <3>1. UNCHANGED <<up, want, timer>>
        BY <1>8, <2>4 DEF Submit
      <3> QED
        BY <2>1, <3>1
    <2> QED
      BY <2>3, <2>4
  <1>9. ASSUME NEW c \in Cmd, Call(c)
        PROVE  PartInv'
    <2>1. /\ Send(Msg("cmd", c)) /\ Msg("cmd", c) \in UpMsgs
          /\ UNCHANGED <<hasty, want, timer, down, ts, leaving>>
      BY <1>9, Kinds DEF Call, pageVars, hubVars
    <2> QED
      BY <1>1, <2>1, SendKinds
  <1>10. ASSUME NEW c \in Cmd, CallTimeout(c)
        PROVE  PartInv'
    BY <1>10 DEF CallTimeout, pageVars, hubVars
  <1>11. CASE PageTakes
    <2> DEFINE Taken == /\ KindsOf(down') \subseteq KindsOf(down)
                        /\ UNCHANGED <<hasty, ts, leaving>>
                        /\ LetGo => LetGo'
    <2>1. Taken
      <3> USE <1>1, TakesKinds DEF hubVars, ClearRetry
      <3>1. CASE TakeConnecting \/ TakeConnected
        BY <3>1 DEF TakeConnecting, TakeConnected
      <3>2. CASE TakeSnapshot \/ TakeRefused
        BY <3>2 DEF TakeSnapshot, TakeRefused
      <3>3. CASE TakeFatal \/ TakeDropped \/ TakeBye
        BY <3>3 DEF TakeFatal, TakeDropped, TakeBye, ScheduleRetry
      <3>4. ASSUME NEW c \in Cmd, TakeResult(c)
            PROVE  Taken
        BY <3>4 DEF TakeResult, pageVars
      <3> QED
        BY <1>11, <3>1, <3>2, <3>3, <3>4 DEF PageTakes
    <2>2. CASE up' = up
      BY <2>1, <2>2
    <2>3. CASE up' # up
      <3>1. want' = FALSE /\ timer' = FALSE /\ Send(Msg("disconnect", None))
        BY <1>11, <2>3 DEF PageTakes, TakeConnecting, TakeConnected, TakeSnapshot, TakeRefused,
                           TakeFatal, TakeDropped, TakeBye, TakeResult, ClearRetry
      <3> QED
        BY <1>1, <2>1, <3>1, SendKinds, Kinds
    <2> QED
      BY <2>2, <2>3
  <1>12. CASE HubStep
    <2>1. UNCHANGED <<hasty, want, timer>>
      BY <1>12 DEF HubStep, HubConnects, HubDisconnects, HubGoodbye, HubDials, HubUp, HubFails,
                   HubKicked, HubDropped, HubTakesCmd, HubAnswers, pageVars
    <2>2. CASE HubConnects
      <3>1. /\ KindsOf(up') \subseteq KindsOf(up) /\ "connect" \in KindsOf(up)
            /\ NoConnectBehind(up) => NoConnectBehind(up')
        BY <1>1, <2>2, HearsKinds DEF HubConnects
      <3>2. KindsOf(down') \subseteq KindsOf(down) \cup {"refused", "fatal"} /\ leaving' = leaving
        BY <1>1, <2>2, TellKinds, Kinds DEF HubConnects
      <3> QED
        BY <2>1, <3>1, <3>2
    <2>3. CASE HubDisconnects
      <3>1. /\ KindsOf(up') \subseteq KindsOf(up) /\ "disconnect" \in KindsOf(up)
            /\ NoConnectBehind(up) => NoConnectBehind(up') /\ "connect" \notin KindsOf(up')
        BY <1>1, <2>3, HearsKinds DEF HubDisconnects
      <3>2. down' = down /\ ts' = "none"
        BY <2>3 DEF HubDisconnects
      <3> QED
        BY <2>1, <3>1, <3>2
    <2>4. CASE HubGoodbye
      <3>1. leaving > 0 /\ UNCHANGED <<up, ts>> /\ KindsOf(down') = KindsOf(down) \cup {"bye"}
        BY <1>1, <2>4, TellKinds, Kinds DEF HubGoodbye
      <3> QED
        BY <2>1, <3>1
    <2>5. CASE HubDials \/ HubFails \/ HubKicked \/ HubDropped
      <3>1. /\ ts # "none" /\ UNCHANGED <<up, leaving>>
            /\ KindsOf(down') \subseteq KindsOf(down) \cup {"connecting", "fatal", "dropped"}
        BY <1>1, <2>5, TellKinds, Kinds DEF HubDials, HubFails, HubKicked, HubDropped
      <3> QED
        BY <2>1, <3>1
    <2>6. CASE HubUp
      <3>1. KindsOf(down') \subseteq KindsOf(down) \cup {"connected", "snapshot"}
        BY <1>1, <2>6, UpKinds
      <3>2. ts # "none" /\ UNCHANGED <<up, leaving>>
        BY <2>6 DEF HubUp
      <3> QED
        BY <2>1, <3>1, <3>2
    <2>7. CASE HubTakesCmd
      <3>1. /\ KindsOf(up') \subseteq KindsOf(up)
            /\ NoConnectBehind(up) => NoConnectBehind(up')
        BY <1>1, <2>7, HearsKinds DEF HubTakesCmd
      <3>2. UNCHANGED <<down, ts, leaving>>
        BY <2>7 DEF HubTakesCmd
      <3> QED
        BY <2>1, <3>1, <3>2
    <2>8. ASSUME NEW c \in Cmd, HubAnswers(c)
          PROVE  PartInv'
      <3>1. KindsOf(down') = KindsOf(down) \cup {"result"} /\ UNCHANGED <<up, ts, leaving>>
        BY <1>1, <2>8, TellKinds, Kinds DEF HubAnswers
      <3> QED
        BY <2>1, <3>1
    <2> QED
      BY <1>12, <2>2, <2>3, <2>4, <2>5, <2>6, <2>7, <2>8 DEF HubStep
  <1> QED
    BY <1>2, <1>3, <1>4, <1>5, <1>6, <1>7, <1>8, <1>9, <1>10, <1>11, <1>12 DEF Next

-----------------------------------------------------------------------------
\* What the hub has the page will show, unless its user is hasty.
MissesInv ==
  ~hasty /\ ts = "up" =>
    /\ Final(0) => conn = "connected" /\ ~timer
    /\ \A i \in 1..Len(down) : Tells(down[i]) /\ Final(i) => down[i].kind = "snapshot"

LEMMA MissesTaken ==
  ASSUME LinkTypeOK, MissesInv, NEW k, Takes(k), UNCHANGED <<hasty, ts>>,
         k = "snapshot" => conn' = "connected" /\ ~timer',
         ~Tells([kind |-> k]) => conn' = conn /\ (timer' => timer)
  PROVE  MissesInv'
  <1> SUFFICES ASSUME ~hasty, ts = "up"
               PROVE  MissesInv'
    BY DEF MissesInv
  <1>1. /\ down # <<>> /\ down' = Tail(down) /\ down[1].kind = k
        /\ Len(down) \in Nat /\ Len(down) >= 1 /\ Len(down') = Len(down) - 1
        /\ \A i \in 1..Len(down') : i + 1 \in 1..Len(down) /\ down'[i] = down[i + 1]
        /\ \A i \in 1..Len(down) : i # 1 => i - 1 \in 1..Len(down')
    BY TailAt DEF Takes, LinkTypeOK
  <1>2. \A i \in 0..Len(down') : Final(i)' => Final(i + 1)
    <2> SUFFICES ASSUME NEW i \in 0..Len(down'), Final(i)', NEW j \in 1..Len(down), j > i + 1
                 PROVE  ~Tells(down[j])
      BY DEF Final
    <2>1. j - 1 \in 1..Len(down') /\ j - 1 > i /\ down'[j - 1] = down[j]
      BY <1>1
    <2> QED
      BY <2>1 DEF Final, Tells
  <1>3. ASSUME Final(0)'
        PROVE  conn' = "connected" /\ ~timer'
    <2>1. Final(1)
      BY <1>1, <1>2, <1>3
    <2>2. CASE Tells(down[1])
      BY <1>1, <2>1, <2>2 DEF MissesInv
    <2>3. CASE ~Tells(down[1])
      <3>1. Final(0)
        BY <1>1, <2>1, <2>3 DEF Final
      <3> QED
        BY <1>1, <2>3, <3>1 DEF MissesInv, Tells
    <2> QED
      BY <2>2, <2>3
  <1>4. ASSUME NEW i \in 1..Len(down'), Tells(down'[i]), Final(i)'
        PROVE  down'[i].kind = "snapshot"
    BY <1>1, <1>2, <1>4 DEF MissesInv
  <1> QED
    BY <1>3, <1>4 DEF MissesInv

LEMMA MissesTold ==
  ASSUME LinkTypeOK, MissesInv, NEW m \in DownMsgs, Tell(m), UNCHANGED <<hasty, conn, timer>>,
         ~hasty /\ ts' = "up" => ts = "up" /\ ~Tells(m)
  PROVE  MissesInv'
  <1> SUFFICES ASSUME ~hasty, ts' = "up"
               PROVE  MissesInv'
    BY DEF MissesInv
  <1>1. /\ Len(down) \in Nat /\ Len(down') = Len(down) + 1 /\ down'[Len(down')] = m
        /\ \A i \in 1..Len(down') : i # Len(down') => i \in 1..Len(down) /\ down'[i] = down[i]
    BY AppendAt DEF Tell, LinkTypeOK
  <1>2. \A i \in 0..Len(down) : Final(i)' => Final(i)
    BY <1>1 DEF Final, Tells
  <1> QED
    BY <1>1, <1>2 DEF MissesInv

LEMMA MissesByUser ==
  ASSUME MissesInv, UNCHANGED <<hasty, down, ts>>,
         ~hasty /\ ts = "up" /\ Final(0) => conn' = conn /\ (timer' => timer)
  PROVE  MissesInv'
  BY DEF MissesInv, Final

LEMMA MissesStep ==
  ASSUME CallsInv, PartInv, MissesInv, Next
  PROVE  MissesInv'
  <1>1. LinkTypeOK
    BY DEF CallsInv
  <1>2. CASE LinkOpens
    BY <1>2, FreshLink DEF MissesInv
  <1>3. ASSUME NEW u \in BOOLEAN, LinkCloses(u)
        PROVE  MissesInv'
    BY <1>3 DEF LinkCloses, MissesInv
  <1>4. CASE OpenPage \/ Redial
    BY <1>4, MissesByUser DEF OpenPage, Redial, pageVars, hubVars
  <1>5. CASE Reconnect
    <2>1. conn # "connected" /\ UserMay /\ UNCHANGED <<hasty, down, ts>>
      BY <1>5 DEF Reconnect, hubVars
    <2>2. ~hasty /\ ts = "up" => ~Final(0)
      BY <2>1 DEF MissesInv
    <2> QED
      BY <2>1, <2>2, MissesByUser
  <1>6. CASE Retry
    <2>1. timer /\ UNCHANGED <<hasty, down, ts>>
      BY <1>6 DEF Retry, hubVars
    <2>2. ~hasty /\ ts = "up" => ~Final(0)
      BY <2>1 DEF MissesInv
    <2> QED
      BY <2>1, <2>2, MissesByUser
  <1>7. CASE Disconnect
    BY <1>7, MissesByUser DEF Disconnect, ClearRetry, hubVars
  <1>8. ASSUME NEW r \in Req, Submit(r)
        PROVE  MissesInv'
    <2>1. conn = "idle" /\ UNCHANGED <<hasty, down, ts>>
      BY <1>8 DEF Submit, hubVars
    <2>2. ~hasty /\ ts = "up" => ~Final(0)
      BY <2>1 DEF MissesInv
    <2> QED
      BY <2>1, <2>2, MissesByUser
  <1>9. ASSUME NEW c \in Cmd, Call(c) \/ CallTimeout(c)
        PROVE  MissesInv'
    BY <1>9, MissesByUser DEF Call, CallTimeout, pageVars, hubVars
  <1>10. CASE PageTakes
    <2> USE <1>1, MissesTaken DEF Tells, hubVars, ClearRetry
    <2>1. CASE TakeConnecting
      BY <2>1 DEF TakeConnecting
    <2>2. CASE TakeConnected
      BY <2>2 DEF TakeConnected
    <2>3. CASE TakeSnapshot
      BY <2>3 DEF TakeSnapshot
    <2>4. CASE TakeRefused
      BY <2>4 DEF TakeRefused
    <2>5. CASE TakeFatal
      BY <2>5 DEF TakeFatal
    <2>6. CASE TakeDropped
      BY <2>6 DEF TakeDropped
    <2>7. CASE TakeBye
      BY <2>7 DEF TakeBye
    <2>8. ASSUME NEW c \in Cmd, TakeResult(c)
          PROVE  MissesInv'
      BY <2>8 DEF TakeResult, pageVars
    <2> QED
      BY <1>10, <2>1, <2>2, <2>3, <2>4, <2>5, <2>6, <2>7, <2>8 DEF PageTakes
  <1>11. CASE HubStep
    <2>1. UNCHANGED <<hasty, conn, timer>>
      BY <1>11 DEF HubStep, HubConnects, HubDisconnects, HubGoodbye, HubDials, HubUp, HubFails,
                   HubKicked, HubDropped, HubTakesCmd, HubAnswers, pageVars
    <2>2. CASE HubConnects
      <3>1. CASE Tell(Msg("refused", None)) /\ UNCHANGED ts
        <4>1. Msg("refused", None) \in DownMsgs /\ ~Tells(Msg("refused", None))
          BY MsgKinds, Kinds DEF Tells
        <4> QED
          BY <1>1, <2>1, <3>1, <4>1, MissesTold
      <3>2. CASE ts' # "up"
        BY <3>2 DEF MissesInv
      <3> QED
        BY <2>2, <3>1, <3>2 DEF HubConnects
    <2>3. CASE HubDisconnects
      BY <2>3 DEF HubDisconnects, MissesInv
    <2>4. CASE HubGoodbye
      <3>1. ~hasty => ts' # "up"
        BY <2>4 DEF HubGoodbye, PartInv
      <3> QED
        BY <2>1, <3>1 DEF MissesInv
    <2>5. CASE HubDials \/ HubFails \/ HubKicked \/ HubDropped
      <3>1. ts' # "up"
        BY <2>5 DEF HubDials, HubFails, HubKicked, HubDropped
      <3> QED
        BY <3>1 DEF MissesInv
    <2>6. CASE HubUp
      <3>1. down' = down \o <<Msg("connected", None), Msg("snapshot", None)>>
        BY <2>6 DEF HubUp
      <3>2. /\ Len(down) \in Nat /\ Len(down') = Len(down) + 2
            /\ down'[Len(down')].kind = "snapshot"
        BY <1>1, <3>1, MsgKinds DEF LinkTypeOK
      <3>3. /\ Tells(down'[Len(down')]) /\ Len(down') \in 1..Len(down')
            /\ \A i \in 0..Len(down') : i # Len(down') => Len(down') > i
        BY <3>2 DEF Tells
      <3>4. \A i \in 0..Len(down') : Final(i)' => i = Len(down')
        BY <3>3 DEF Final, Tells
      <3> QED
        BY <3>2, <3>4 DEF MissesInv
    <2>7. CASE HubTakesCmd
      BY <2>1, <2>7, MissesByUser DEF HubTakesCmd
    <2>8. ASSUME NEW c \in Cmd, HubAnswers(c)
          PROVE  MissesInv'
      <3>1. Msg("result", c) \in DownMsgs /\ ~Tells(Msg("result", c))
        BY <2>8, MsgKinds, Kinds DEF HubAnswers, Tells
      <3> QED
        BY <1>1, <2>1, <2>8, <3>1, MissesTold DEF HubAnswers
    <2> QED
      BY <1>11, <2>2, <2>3, <2>4, <2>5, <2>6, <2>7, <2>8 DEF HubStep
  <1> QED
    BY <1>2, <1>3, <1>4, <1>5, <1>6, <1>7, <1>8, <1>9, <1>10, <1>11 DEF Next

AgreeInv == CallsInv /\ ShutInv /\ ShowsInv /\ PartInv /\ MissesInv

LEMMA AgreeInvInit == Init => AgreeInv
  <1>1. Init => MissesInv
    BY DEF Init, MissesInv
  <1> QED
    BY <1>1, AgreeInit, CallsInit, PartInit DEF AgreeInv

LEMMA AgreeInvStep == AgreeInv /\ [Next]_vars => AgreeInv'
  <1> SUFFICES ASSUME AgreeInv, [Next]_vars
               PROVE  AgreeInv'
    OBVIOUS
  <1>1. CallsInv'
    BY CallsStep DEF AgreeInv
  <1>2. CASE UNCHANGED vars
    BY <1>1, <1>2 DEF vars, AgreeInv, ShutInv, ShowsInv, PartInv, MissesInv, Final, Held, LetGo
  <1> QED
    BY <1>1, <1>2, ShutStep, ShowsStep, PartStep, MissesStep DEF AgreeInv

LEMMA AgreeInvAgrees == AgreeInv => PageAgrees
  <1> SUFFICES ASSUME AgreeInv, Settled
               PROVE  /\ conn = "connected" => ts = "up"
                      /\ ~hasty /\ ts = "up" => conn = "connected"
    BY DEF PageAgrees
  <1>1. down = <<>> /\ leaving = 0
    BY DEF Settled
  <1>2. Final(0)
    BY <1>1 DEF Final
  <1> QED
    BY <1>1, <1>2 DEF AgreeInv, ShowsInv, MissesInv, Held

\* Whatever was dropped, refused, kicked, retried, redialled or clicked: once nothing is
\* in flight, the page shows a connection only if the hub has one, and, unless its user
\* is hasty, exactly if it has.
THEOREM PageAndHubAgree == Spec => []PageAgrees
  BY AgreeInvInit, AgreeInvStep, AgreeInvAgrees, PTL DEF Spec

-----------------------------------------------------------------------------
(* One request at a time; two where the form waited for a link that is to    *)
(* be replayed on.                                                          *)

\* A channel with at most one connect request, which is for r.
OneFor(s, r) ==
  \A i \in 1..Len(s) : s[i].kind = "connect" =>
    /\ s[i].of = r
    /\ \A j \in 1..Len(s) : s[j].kind = "connect" => j = i

\* A drop is the last the hub has to say of a connection.
DropLast(s) ==
  \A i, j \in 1..Len(s) : s[i].kind = "dropped" /\ j > i => s[j].kind = "result"

LEMMA NoneDropped == ASSUME NEW s, "dropped" \notin KindsOf(s)
                     PROVE  DropLast(s)
  BY DEF DropLast, KindsOf

LEMMA OneAppend ==
  ASSUME NEW S, NEW s \in Seq(S), NEW x \in S, NEW r
  PROVE  /\ OneFor(s, r) /\ x.kind # "connect" => OneFor(Append(s, x), r)
         /\ "connect" \notin KindsOf(s) /\ x.of = r => OneFor(Append(s, x), r)
         /\ DropLast(s) /\ (x.kind = "result" \/ "dropped" \notin KindsOf(s)) =>
              DropLast(Append(s, x))
  <1> DEFINE t == Append(s, x)
  <1>1. /\ Len(s) \in Nat /\ Len(t) = Len(s) + 1 /\ t[Len(t)] = x
        /\ \A i \in 1..Len(s) : t[i] = s[i]
        /\ \A i \in 1..Len(t) : i # Len(t) => i \in 1..Len(s)
    OBVIOUS
  <1>2. \A i \in 1..Len(s) : s[i].kind \in KindsOf(s)
    BY DEF KindsOf
  <1> HIDE DEF t
  <1>3. OneFor(s, r) /\ x.kind # "connect" => OneFor(t, r)
    BY <1>1 DEF OneFor
  <1>4. "connect" \notin KindsOf(s) /\ x.of = r => OneFor(t, r)
    BY <1>1, <1>2 DEF OneFor
  <1>5. DropLast(s) /\ (x.kind = "result" \/ "dropped" \notin KindsOf(s)) => DropLast(t)
    <2>1. \A i, j \in 1..Len(t) : j > i => i \in 1..Len(s)
      BY <1>1
    <2> QED
      BY <1>1, <1>2, <2>1 DEF DropLast
  <1> QED
    BY <1>3, <1>4, <1>5 DEF t

LEMMA OneTail ==
  ASSUME NEW S, NEW s \in Seq(S), s # <<>>, NEW r
  PROVE  /\ OneFor(s, r) => OneFor(Tail(s), r)
         /\ OneFor(s, r) /\ Head(s).kind = "connect" =>
              Head(s).of = r /\ "connect" \notin KindsOf(Tail(s))
         /\ DropLast(s) =>
              /\ DropLast(Tail(s))
              /\ Head(s).kind = "dropped" => KindsOf(Tail(s)) \subseteq {"result"}
  <1> DEFINE t == Tail(s)
  <1>1. /\ Len(s) \in Nat /\ Len(s) >= 1 /\ Len(t) = Len(s) - 1 /\ Head(s) = s[1]
        /\ 1 \in 1..Len(s)
        /\ \A i \in 1..Len(t) : i + 1 \in 1..Len(s) /\ t[i] = s[i + 1] /\ i + 1 > 1 /\ i + 1 # 1
    BY TailAt
  <1> HIDE DEF t
  <1>2. OneFor(s, r) => OneFor(t, r)
    <2> SUFFICES ASSUME OneFor(s, r), NEW i \in 1..Len(t), t[i].kind = "connect"
                 PROVE  t[i].of = r /\ \A j \in 1..Len(t) : t[j].kind = "connect" => j = i
      BY DEF OneFor
    <2>1. s[i + 1].of = r /\ \A j \in 1..Len(s) : s[j].kind = "connect" => j = i + 1
      BY <1>1 DEF OneFor
    <2>2. ASSUME NEW j \in 1..Len(t), t[j].kind = "connect"
          PROVE  j = i
      <3>1. j + 1 = i + 1
        BY <1>1, <2>1, <2>2
      <3> QED
        BY <3>1
    <2> QED
      BY <1>1, <2>1, <2>2
  <1>3. OneFor(s, r) /\ Head(s).kind = "connect" => Head(s).of = r /\ "connect" \notin KindsOf(t)
    BY <1>1 DEF OneFor, KindsOf
  <1>4. DropLast(s) => DropLast(t)
    BY <1>1, SMTT(30) DEF DropLast
  <1>5. DropLast(s) /\ Head(s).kind = "dropped" => KindsOf(t) \subseteq {"result"}
    BY <1>1 DEF DropLast, KindsOf
  <1> QED
    BY <1>2, <1>3, <1>4, <1>5 DEF t

LEMMA OneNone == \A r : OneFor(<<>>, r) /\ DropLast(<<>>)
  BY DEF OneFor, DropLast

-----------------------------------------------------------------------------
\* A request on its way finds the hub without a connection, and the page waiting for it;
\* so does a dial.  While a retry is due there is nothing else.
Asking == "connect" \in KindsOf(up)
TurnInv ==
  ~hasty /\ ~twice =>
    /\ asked # None => link # "open" /\ ~err
    /\ OneFor(up, last)
    /\ ts # "none" => target = last
    /\ Asking \/ ts \in {"resolving", "dialling"} => conn = "connecting" /\ ~err
    /\ Asking \/ timer => ts = "none" /\ KindsOf(down) \subseteq {"result"}
    /\ ~(Asking /\ timer)
    /\ ts \in {"resolving", "dialling"} => KindsOf(down) \subseteq {"result", "connecting"}
    /\ ts = "up" => KindsOf(down) \subseteq {"result", "connecting", "connected", "snapshot"}
    /\ "dropped" \in KindsOf(down) => ts = "none" /\ leaving = 0 /\ ~Asking /\ ~timer
    /\ DropLast(down)

LEMMA OneInit == Init => TurnInv
  BY NoKinds, OneNone DEF Init, TurnInv, Asking

\* Who asks when nothing is outstanding asks a hub that has no connection.
LEMMA NoneHeld ==
  ASSUME AgreeInv, TurnInv, UserMay, ~hasty, ~twice, conn = "idle" \/ (conn = "connecting" /\ (err \/ timer))
  PROVE  ts = "none" /\ up = <<>> /\ down = <<>> /\ leaving = 0
  <1>1. LinkTypeOK
    BY DEF AgreeInv, CallsInv
  <1>2. up = <<>> /\ down = <<>> /\ leaving = 0 /\ ts # "ending"
    BY <1>1, QuietUser
  <1>3. Final(0)
    BY <1>2 DEF Final
  <1>4. ts # "up"
    BY <1>3 DEF AgreeInv, MissesInv
  <1>5. ts \notin {"resolving", "dialling"}
    BY DEF TurnInv
  <1> QED
    BY <1>1, <1>2, <1>4, <1>5 DEF LinkTypeOK

LEMMA OneSent ==
  ASSUME LinkTypeOK, NEW m \in UpMsgs, Send(m), NEW r
  PROVE  /\ up' = up \/ KindsOf(up') = KindsOf(up) \cup {m.kind}
         /\ OneFor(up, r) /\ m.kind # "connect" => OneFor(up', r)
         /\ "connect" \notin KindsOf(up) /\ m.of = r /\ OneFor(up, r) => OneFor(up', r)
  <1>1. up \in Seq(UpMsgs) /\ (up' = up \/ up' = Append(up, m))
    BY DEF LinkTypeOK, Send
  <1>2. CASE up' = up
    BY <1>2
  <1>3. CASE up' = Append(up, m)
    <2>1. /\ OneFor(up, r) /\ m.kind # "connect" => OneFor(Append(up, m), r)
          /\ "connect" \notin KindsOf(up) /\ m.of = r => OneFor(Append(up, m), r)
      BY <1>1, OneAppend
    <2> QED
      BY <1>3, <2>1, SendKinds
  <1> QED
    BY <1>1, <1>2, <1>3

LEMMA OneTold ==
  ASSUME LinkTypeOK, NEW m \in DownMsgs, Tell(m)
  PROVE  /\ KindsOf(down') = KindsOf(down) \cup {m.kind}
         /\ DropLast(down) /\ (m.kind = "result" \/ "dropped" \notin KindsOf(down)) =>
              DropLast(down')
  <1>1. down \in Seq(DownMsgs) /\ down' = Append(down, m)
    BY DEF LinkTypeOK, Tell
  <1>2. DropLast(down) /\ (m.kind = "result" \/ "dropped" \notin KindsOf(down)) =>
          DropLast(Append(down, m))
    BY <1>1, OneAppend
  <1> QED
    BY <1>1, <1>2, TellKinds

LEMMA OneHeard ==
  ASSUME LinkTypeOK, NEW k, Hears(k), NEW r, OneFor(up, r)
  PROVE  /\ KindsOf(up') \subseteq KindsOf(up) /\ k \in KindsOf(up) /\ OneFor(up', r)
         /\ k = "connect" => Head(up).of = r /\ "connect" \notin KindsOf(up')
  <1>1. up \in Seq(UpMsgs) /\ up # <<>> /\ Head(up).kind = k /\ up' = Tail(up)
    BY DEF LinkTypeOK, Hears
  <1>2. /\ OneFor(Tail(up), r)
        /\ k = "connect" => Head(up).of = r /\ "connect" \notin KindsOf(Tail(up))
    BY <1>1, OneTail
  <1> QED
    BY <1>1, <1>2, HearsKinds

LEMMA OneTaken ==
  ASSUME LinkTypeOK, NEW k, Takes(k), DropLast(down)
  PROVE  /\ KindsOf(down') \subseteq KindsOf(down) /\ k \in KindsOf(down) /\ DropLast(down')
         /\ k = "dropped" => KindsOf(down') \subseteq {"result"}
  <1>1. down \in Seq(DownMsgs) /\ down # <<>> /\ Head(down).kind = k /\ down' = Tail(down)
    BY DEF LinkTypeOK, Takes
  <1>2. /\ DropLast(Tail(down))
        /\ k = "dropped" => KindsOf(Tail(down)) \subseteq {"result"}
    BY <1>1, OneTail
  <1> QED
    BY <1>1, <1>2, TakesKinds

\* The link and the user.
LEMMA OneByLink ==
  ASSUME AgreeInv, TurnInv, ~hasty, LinkMoves
  PROVE  TurnInv'
  <1>1. LinkTypeOK /\ ShutInv
    BY DEF AgreeInv, CallsInv
  <1> USE DEF TurnInv, Asking
  <1>2. CASE OpenPage
    BY <1>2 DEF OpenPage, OpenHub, pageVars, hubVars
  <1>3. CASE LinkOpens /\ twice'
    BY <1>3
  <1>4. CASE LinkOpens /\ ~twice'
    <2>1. /\ down' = <<>> /\ ts' = "none" /\ asked' = None /\ ~timer /\ timer' = FALSE
          /\ ~twice
      BY <1>1, <1>4 DEF LinkOpens, ShutInv, ClearRetry
    <2>2. asked = None \/ ~(want /\ last # None)
      BY <1>4 DEF LinkOpens
    <2>3. OneFor(up', last')
      <3>1. \A r : /\ OneFor(<<Msg("connect", r)>>, r)
                   /\ OneFor(Append(<<>>, Msg("connect", r)), r)
        <4>1. \A r : Msg("connect", r).of = r
          BY DEF Msg
        <4> QED
          BY <4>1 DEF OneFor
      <3> QED
        BY <1>4, <2>2, <3>1, OneNone DEF LinkOpens
    <2>4. "connect" \in KindsOf(up') => conn' = "connecting" /\ ~err'
      <3>1. CASE asked = None /\ ~(want /\ last # None)
        <4>1. up' = <<>>
          BY <1>4, <3>1 DEF LinkOpens
        <4> QED
          BY <4>1, NoKinds
      <3>2. CASE asked # None \/ (want /\ last # None)
        BY <1>4, <2>1, <3>2 DEF LinkOpens
      <3> QED
        BY <3>1, <3>2
    <2> QED
      BY <2>1, <2>3, <2>4, NoKinds, OneNone
  <1>5. CASE Redial
    BY <1>1, <1>5 DEF Redial, pageVars, hubVars, LinkTypeOK
  <1>6. ASSUME NEW u \in BOOLEAN, LinkCloses(u)
        PROVE  TurnInv'
    <2>1. /\ up' = <<>> /\ down' = <<>> /\ asked' = None /\ ts' = "none" /\ timer' = FALSE
      BY <1>6 DEF LinkCloses, ClearRetry
    <2> QED
      BY <2>1, NoKinds, OneNone
  <1> QED
    BY <1>2, <1>3, <1>4, <1>5, <1>6 DEF LinkMoves

LEMMA OneByUser ==
  ASSUME AgreeInv, TurnInv, ~hasty, ~twice, UserMoves
  PROVE  TurnInv'
  <1>1. LinkTypeOK /\ ShutInv /\ PartInv
    BY DEF AgreeInv, CallsInv
  <1>2. \A k, x : Msg(k, x).kind = k /\ Msg(k, x).of = x
    BY DEF Msg
  <1> USE DEF TurnInv, Asking
  <1>3. CASE Reconnect
    <2>1. /\ Send(Msg("connect", last)) /\ Msg("connect", last) \in UpMsgs
          /\ conn' = "connecting" /\ err' = FALSE /\ timer' = FALSE /\ link = "open"
          /\ UNCHANGED <<last, asked, want, target, ts, down, leaving, link>>
      BY <1>1, <1>3, Kinds DEF Reconnect, AttemptReconnect, ClearRetry, hubVars, LinkTypeOK
    <2>2. ts = "none" /\ up = <<>> /\ down = <<>> /\ leaving = 0
      BY <1>1, <1>3, NoneHeld DEF Reconnect, LinkTypeOK
    <2>3. OneFor(up', last)
      BY <1>1, <1>2, <2>1, <2>2, OneSent, NoKinds, OneNone
    <2> QED
      BY <2>1, <2>2, <2>3, NoKinds, OneNone
  <1>4. CASE Retry
    <2>1. /\ timer /\ timer' = FALSE /\ link = "open"
          /\ UNCHANGED <<want, last, asked, down, ts, target, leaving>>
      BY <1>1, <1>4 DEF Retry, hubVars, ShutInv
    <2>2. CASE last # None /\ want
      <3>1. /\ Send(Msg("connect", last)) /\ Msg("connect", last) \in UpMsgs
            /\ conn' = "connecting" /\ err' = FALSE /\ link' = link
        BY <1>1, <1>4, <2>1, <2>2, Kinds DEF Retry, AttemptReconnect, LinkTypeOK
      <3>2. OneFor(up', last) /\ (up' = up \/ KindsOf(up') = KindsOf(up) \cup {"connect"})
        BY <1>1, <1>2, <2>1, <3>1, OneSent
      <3> QED
        BY <2>1, <3>1, <3>2
    <2>3. CASE ~(last # None /\ want)
      <3>1. UNCHANGED <<conn, err, up, link>>
        BY <1>4, <2>3 DEF Retry
      <3> QED
        BY <2>1, <3>1
    <2> QED
      BY <2>2, <2>3
  <1>5. CASE Disconnect
    <2>1. /\ Send(Msg("disconnect", None)) /\ Msg("disconnect", None) \in UpMsgs
          /\ want' = FALSE /\ timer' = FALSE
          /\ UNCHANGED <<link, conn, last, err, asked, target, ts, down, leaving>>
      BY <1>5, Kinds DEF Disconnect, ClearRetry, linkVars, hubVars
    <2>2. /\ OneFor(up', last)
          /\ up' = up \/ KindsOf(up') = KindsOf(up) \cup {"disconnect"}
      BY <1>1, <1>2, <2>1, OneSent
    <2> QED
      BY <2>1, <2>2
  <1>6. ASSUME NEW r \in Req, Submit(r)
        PROVE  TurnInv'
    <2>1. /\ err' = FALSE /\ asked = None
          /\ UNCHANGED <<down, target, ts, leaving>>
      BY <1>6 DEF Submit, hubVars
    <2>2. ts = "none" /\ up = <<>> /\ down = <<>> /\ leaving = 0
      BY <1>6, NoneHeld DEF Submit
    <2>3. CASE link = "open"
      <3>1. /\ Send(Msg("connect", r)) /\ Msg("connect", r) \in UpMsgs
            /\ conn' = "connecting" /\ last' = r /\ timer' = FALSE /\ asked' = asked
        BY <1>6, <2>3, Kinds DEF Submit, ClearRetry
      <3>2. OneFor(up', r)
        BY <1>1, <1>2, <2>2, <3>1, OneSent, NoKinds, OneNone
      <3> QED
        BY <2>1, <2>2, <3>1, <3>2, NoKinds, OneNone
    <2>4. CASE link # "open"
      <3>1. UNCHANGED <<up, conn, want, last, timer>> /\ link' # "open"
        BY <1>6, <2>4 DEF Submit, OpenHub
      <3> QED
        BY <2>1, <2>2, <3>1, NoKinds, OneNone
    <2> QED
      BY <2>3, <2>4
  <1>7. ASSUME NEW c \in Cmd, Call(c)
        PROVE  TurnInv'
    <2>1. /\ Send(Msg("cmd", c)) /\ Msg("cmd", c) \in UpMsgs
          /\ UNCHANGED <<linkVars, pageVars, asked, down, hubVars>>
      BY <1>7, Kinds DEF Call
    <2>2. /\ OneFor(up', last)
          /\ up' = up \/ KindsOf(up') = KindsOf(up) \cup {"cmd"}
      BY <1>1, <1>2, <2>1, OneSent
    <2> QED
      BY <2>1, <2>2 DEF linkVars, pageVars, hubVars
  <1>8. ASSUME NEW c \in Cmd, CallTimeout(c)
        PROVE  TurnInv'
    BY <1>8 DEF CallTimeout, linkVars, pageVars, hubVars
  <1> QED
    BY <1>3, <1>4, <1>5, <1>6, <1>7, <1>8 DEF UserMoves

\* The page and the hub.
LEMMA OneByPage ==
  ASSUME AgreeInv, TurnInv, ~hasty, ~twice, PageTakes
  PROVE  TurnInv'
  <1>1. LinkTypeOK /\ ShutInv /\ DropLast(down)
    BY DEF AgreeInv, CallsInv, TurnInv
  <1>2. /\ UNCHANGED <<link, last, asked, ts, target, leaving>> /\ down # <<>> /\ link = "open"
        /\ asked # None => FALSE
    <2>1. UNCHANGED <<link, last, asked, ts, target, leaving>> /\ down # <<>>
      BY DEF PageTakes, Takes, TakeConnecting, TakeConnected, TakeSnapshot, TakeRefused, TakeFatal,
             TakeDropped, TakeBye, TakeResult, linkVars, hubVars, pageVars
    <2> QED
      BY <1>1, <2>1 DEF ShutInv, TurnInv
  <1>3. up' = up \/ (KindsOf(up') = KindsOf(up) \cup {"disconnect"} /\ OneFor(up', last))
    <2>1. up' = up \/ Send(Msg("disconnect", None))
      BY DEF PageTakes, TakeConnecting, TakeConnected, TakeSnapshot, TakeRefused, TakeFatal,
             TakeDropped, TakeBye, TakeResult
    <2> QED
      BY <1>1, <2>1, OneSent, Kinds, MsgKinds DEF TurnInv
  <1>4. \A k : Takes(k) =>
          /\ KindsOf(down') \subseteq KindsOf(down) /\ k \in KindsOf(down) /\ DropLast(down')
          /\ k = "dropped" => KindsOf(down') \subseteq {"result"}
    BY <1>1, OneTaken
  <1> USE <1>2, <1>3, <1>4 DEF TurnInv, Asking, ClearRetry
  <1>5. CASE TakeConnecting
    BY <1>5 DEF TakeConnecting
  <1>6. CASE TakeConnected
    BY <1>6 DEF TakeConnected
  <1>7. CASE TakeSnapshot
    BY <1>7 DEF TakeSnapshot
  <1>8. CASE TakeRefused
    BY <1>8 DEF TakeRefused
  <1>9. CASE TakeFatal
    BY <1>9 DEF TakeFatal
  <1>10. CASE TakeDropped
    BY <1>10 DEF TakeDropped
  <1>11. CASE TakeBye
    BY <1>11 DEF TakeBye
  <1>12. ASSUME NEW c \in Cmd, TakeResult(c)
         PROVE  TurnInv'
    BY <1>12 DEF TakeResult, pageVars
  <1> QED
    BY <1>5, <1>6, <1>7, <1>8, <1>9, <1>10, <1>11, <1>12 DEF PageTakes

LEMMA OneByHub ==
  ASSUME AgreeInv, TurnInv, ~hasty, ~twice, HubStep
  PROVE  TurnInv'
  <1>1. LinkTypeOK /\ PartInv /\ leaving \in Nat
    BY DEF AgreeInv, CallsInv, LinkTypeOK
  <1>2. UNCHANGED <<link, conn, want, last, err, asked, timer>>
    BY DEF HubStep, HubConnects, HubDisconnects, HubGoodbye, HubDials, HubUp, HubFails,
           HubKicked, HubDropped, HubTakesCmd, HubAnswers, linkVars, pageVars
  <1>3. \A m \in DownMsgs : Tell(m) =>
          /\ KindsOf(down') = KindsOf(down) \cup {m.kind}
          /\ DropLast(down) /\ (m.kind = "result" \/ "dropped" \notin KindsOf(down)) =>
               DropLast(down')
    BY <1>1, OneTold
  <1>4. \A k : Hears(k) =>
          /\ KindsOf(up') \subseteq KindsOf(up) /\ k \in KindsOf(up) /\ OneFor(up', last)
          /\ k = "connect" => Head(up).of = last /\ "connect" \notin KindsOf(up')
    BY <1>1, OneHeard DEF TurnInv
  <1>5. leaving > 0 => LetGo /\ ts = "none" /\ "connect" \notin KindsOf(up)
    BY <1>1 DEF PartInv
  <1> USE <1>1, <1>2, <1>3, <1>4, <1>5, MsgKinds, Kinds DEF TurnInv, Asking
  <1>6. CASE HubConnects
    BY <1>6 DEF HubConnects
  <1>7. CASE HubDisconnects
    BY <1>7 DEF HubDisconnects
  <1>8. CASE HubGoodbye
    BY <1>8 DEF HubGoodbye, LetGo
  <1>9. CASE HubDials
    BY <1>9 DEF HubDials
  <1>10. CASE HubUp
    <2>1. KindsOf(down') \subseteq KindsOf(down) \cup {"connected", "snapshot"} /\ DropLast(down')
      <3>1. KindsOf(down') \subseteq KindsOf(down) \cup {"connected", "snapshot"}
        BY <1>10, UpKinds
      <3>2. "dropped" \notin KindsOf(down')
        BY <1>10, <3>1 DEF HubUp
      <3>3. DropLast(down')
        BY <3>2, NoneDropped
      <3> QED
        BY <3>1, <3>3
    <2> QED
      BY <1>10, <2>1 DEF HubUp
  <1>11. CASE HubFails
    BY <1>11 DEF HubFails
  <1>12. CASE HubKicked
    BY <1>12 DEF HubKicked
  <1>13. CASE HubDropped
    BY <1>13 DEF HubDropped
  <1>14. CASE HubTakesCmd
    BY <1>14 DEF HubTakesCmd
  <1>15. ASSUME NEW c \in Cmd, HubAnswers(c)
         PROVE  TurnInv'
    BY <1>15 DEF HubAnswers
  <1> QED
    BY <1>6, <1>7, <1>8, <1>9, <1>10, <1>11, <1>12, <1>13, <1>14, <1>15 DEF HubStep

LEMMA OneStep ==
  ASSUME AgreeInv, TurnInv, [Next]_vars
  PROVE  TurnInv'
  <1>1. CASE UNCHANGED vars
    BY <1>1 DEF vars, TurnInv, Asking
  <1>2. CASE LinkMoves
    <2>1. hasty' = hasty
      BY <1>2 DEF LinkMoves, OpenPage, LinkOpens, LinkCloses, Redial
    <2> QED
      BY <1>2, <2>1, OneByLink DEF TurnInv
  <1>3. CASE UserMoves
    <2>1. hasty' = hasty /\ twice' = twice
      BY <1>3 DEF UserMoves, Submit, Reconnect, Retry, Disconnect, Call, CallTimeout, linkVars
    <2> QED
      BY <1>3, <2>1, OneByUser DEF TurnInv
  <1>4. CASE PageTakes
    <2>1. hasty' = hasty /\ twice' = twice
      BY <1>4 DEF PageTakes, TakeConnecting, TakeConnected, TakeSnapshot, TakeRefused,
                  TakeFatal, TakeDropped, TakeBye, TakeResult, linkVars
    <2> QED
      BY <1>4, <2>1, OneByPage DEF TurnInv
  <1>5. CASE HubStep
    <2>1. hasty' = hasty /\ twice' = twice
      BY <1>5 DEF HubStep, HubConnects, HubDisconnects, HubGoodbye, HubDials, HubUp, HubFails,
                  HubKicked, HubDropped, HubTakesCmd, HubAnswers, linkVars
    <2> QED
      BY <1>5, <2>1, OneByHub DEF TurnInv
  <1> QED
    BY <1>1, <1>2, <1>3, <1>4, <1>5 DEF Next, LinkMoves, UserMoves

-----------------------------------------------------------------------------
(* Two requests at most: a connection the hub works on, the news of its loss   *)
(* and the timer that news sets each come from one request and lead to one.    *)

At(s, k) == {i \in 1..Len(s) : s[i].kind = k}
Count(s, k) == Cardinality(At(s, k))

LEMMA AtFinite ==
  ASSUME NEW S, NEW s \in Seq(S), NEW k
  PROVE  IsFiniteSet(At(s, k)) /\ Count(s, k) \in Nat
  <1>1. IsFiniteSet(1..Len(s))
    BY FS_Interval
  <1> QED
    BY <1>1, FS_Subset, FS_CardinalityType DEF At, Count

LEMMA CountNone == \A k : Count(<<>>, k) = 0
  BY FS_EmptySet DEF At, Count

LEMMA CountAppend ==
  ASSUME NEW S, NEW s \in Seq(S), NEW x \in S, NEW k
  PROVE  /\ Count(Append(s, x), k) \in Nat
         /\ x.kind # k => Count(Append(s, x), k) = Count(s, k)
         /\ Count(Append(s, x), k) <= Count(s, k) + 1
  <1> DEFINE t == Append(s, x)
  <1>1. /\ Len(s) \in Nat /\ Len(t) = Len(s) + 1 /\ t[Len(t)] = x /\ t \in Seq(S)
        /\ \A i \in 1..Len(s) : t[i] = s[i]
        /\ 1..Len(t) = 1..Len(s) \cup {Len(t)} /\ Len(t) \notin 1..Len(s)
    OBVIOUS
  <1> HIDE DEF t
  <1>2. At(t, k) = IF x.kind = k THEN At(s, k) \cup {Len(t)} ELSE At(s, k)
    BY <1>1 DEF At
  <1>3. /\ IsFiniteSet(At(s, k)) /\ Count(s, k) \in Nat /\ Count(t, k) \in Nat
    BY <1>1, AtFinite
  <1>4. Cardinality(At(s, k) \cup {Len(t)}) <= Cardinality(At(s, k)) + 1
    <2>1. Cardinality(At(s, k)) \in Nat
      BY <1>3 DEF Count
    <2>2. Cardinality(At(s, k) \cup {Len(t)}) \in {Cardinality(At(s, k)), Cardinality(At(s, k)) + 1}
      BY <1>3, FS_AddElement
    <2> QED
      BY <2>1, <2>2
  <1>5. Count(t, k) <= Count(s, k) + 1 /\ (x.kind # k => Count(t, k) = Count(s, k))
    BY <1>2, <1>3, <1>4 DEF Count
  <1> QED
    BY <1>3, <1>5 DEF t

LEMMA CountTail ==
  ASSUME NEW S, NEW s \in Seq(S), s # <<>>, NEW k
  PROVE  /\ Count(Tail(s), k) \in Nat
         /\ Count(Tail(s), k) <= Count(s, k)
         /\ Head(s).kind = k => Count(Tail(s), k) <= Count(s, k) - 1
  <1> DEFINE t == Tail(s)
             A == At(s, k) \ {1}
             f == [i \in A |-> i - 1]
  <1>1. /\ Len(s) \in Nat /\ Len(s) >= 1 /\ Len(t) = Len(s) - 1 /\ Head(s) = s[1]
        /\ 1 \in 1..Len(s) /\ t \in Seq(S)
        /\ \A i \in 1..Len(t) : i + 1 \in 1..Len(s) /\ t[i] = s[i + 1] /\ i + 1 # 1
                                /\ i = (i + 1) - 1
    BY TailAt
  <1>2. \A i \in 1..Len(s) : i # 1 => i - 1 \in 1..Len(t) /\ (i - 1) + 1 = i
    BY <1>1
  <1> HIDE DEF t
  <1>3. IsFiniteSet(At(s, k)) /\ Count(s, k) \in Nat /\ Count(t, k) \in Nat
    BY <1>1, AtFinite
  <1>4. f \in [A -> At(t, k)]
    <2>1. \A i \in A : i - 1 \in At(t, k)
      BY <1>1, <1>2 DEF At
    <2> QED
      BY <2>1
  <1>5. \A j \in At(t, k) : \E i \in A : f[i] = j
    <2> SUFFICES ASSUME NEW j \in At(t, k)
                 PROVE  \E i \in A : f[i] = j
      OBVIOUS
    <2>1. j + 1 \in A /\ (j + 1) - 1 = j
      BY <1>1 DEF At
    <2> QED
      BY <2>1
  <1>6. f \in Surjection(A, At(t, k))
    BY <1>4, <1>5 DEF Surjection
  <1>7. /\ IsFiniteSet(A) /\ Cardinality(A) \in Nat
        /\ Cardinality(A) = IF 1 \in At(s, k) THEN Cardinality(At(s, k)) - 1
                            ELSE Cardinality(At(s, k))
    BY <1>3, FS_RemoveElement, FS_CardinalityType
  <1> HIDE DEF f
  <1>8. Cardinality(At(t, k)) <= Cardinality(A)
    BY <1>6, <1>7, FS_Surjection
  <1>9. Head(s).kind = k => 1 \in At(s, k)
    BY <1>1 DEF At
  <1>10. /\ Count(t, k) <= Count(s, k)
         /\ Head(s).kind = k => Count(t, k) <= Count(s, k) - 1
    BY <1>3, <1>7, <1>8, <1>9 DEF Count
  <1> QED
    BY <1>3, <1>10 DEF t

\* The requests a user who is not hasty has under way, in whatever form.
Tokens ==
  Count(up, "connect") + Count(down, "dropped")
    + (IF timer THEN 1 ELSE 0) + (IF ts # "none" THEN 1 ELSE 0)

TokensInv == ~hasty => Tokens <= 2

LEMMA TokensInit == Init => TokensInv
  BY CountNone DEF Init, TokensInv, Tokens

LEMMA CountsNat ==
  ASSUME LinkTypeOK
  PROVE  Count(up, "connect") \in Nat /\ Count(down, "dropped") \in Nat
  BY AtFinite DEF LinkTypeOK

LEMMA CountSent ==
  ASSUME LinkTypeOK, NEW m \in UpMsgs, Send(m)
  PROVE  /\ Count(up', "connect") \in Nat
         /\ Count(up', "connect") <= Count(up, "connect") + 1
         /\ m.kind # "connect" => Count(up', "connect") = Count(up, "connect")
  <1>1. up \in Seq(UpMsgs) /\ (up' = up \/ up' = Append(up, m))
    BY DEF LinkTypeOK, Send
  <1>2. CASE up' = up
    BY <1>2, CountsNat
  <1>3. CASE up' = Append(up, m)
    BY <1>1, <1>3, CountAppend
  <1> QED
    BY <1>1, <1>2, <1>3

LEMMA CountTold ==
  ASSUME LinkTypeOK, NEW m \in DownMsgs, Tell(m)
  PROVE  /\ Count(down', "dropped") \in Nat
         /\ Count(down', "dropped") <= Count(down, "dropped") + 1
         /\ m.kind # "dropped" => Count(down', "dropped") = Count(down, "dropped")
  <1>1. down \in Seq(DownMsgs) /\ down' = Append(down, m)
    BY DEF LinkTypeOK, Tell
  <1> QED
    BY <1>1, CountAppend

LEMMA CountHeard ==
  ASSUME LinkTypeOK, NEW k, Hears(k)
  PROVE  /\ Count(up', "connect") \in Nat
         /\ Count(up', "connect") <= Count(up, "connect")
         /\ k = "connect" => Count(up', "connect") <= Count(up, "connect") - 1
  <1>1. up \in Seq(UpMsgs) /\ up # <<>> /\ Head(up).kind = k /\ up' = Tail(up)
    BY DEF LinkTypeOK, Hears
  <1> QED
    BY <1>1, CountTail

LEMMA CountTaken ==
  ASSUME LinkTypeOK, NEW k, Takes(k)
  PROVE  /\ Count(down', "dropped") \in Nat
         /\ Count(down', "dropped") <= Count(down, "dropped")
         /\ k = "dropped" => Count(down', "dropped") <= Count(down, "dropped") - 1
  <1>1. down \in Seq(DownMsgs) /\ down # <<>> /\ Head(down).kind = k /\ down' = Tail(down)
    BY DEF LinkTypeOK, Takes
  <1> QED
    BY <1>1, CountTail

\* A fresh link carries two at most, and nothing else.
LEMMA TokensByLink ==
  ASSUME CallsInv, ShutInv, Tokens <= 2, LinkMoves
  PROVE  Tokens' <= 2
  <1>1. LinkTypeOK
    BY DEF CallsInv
  <1>2. CASE OpenPage
    BY <1>2 DEF OpenPage, pageVars, hubVars, Tokens
  <1>3. CASE Redial
    BY <1>3 DEF Redial, pageVars, hubVars, Tokens
  <1>4. ASSUME NEW u \in BOOLEAN, LinkCloses(u)
        PROVE  Tokens' <= 2
    <2>1. up' = <<>> /\ down' = <<>> /\ ts' = "none" /\ timer' = FALSE
      BY <1>4 DEF LinkCloses, ClearRetry
    <2> QED
      BY <2>1, CountNone DEF Tokens
  <1>5. CASE LinkOpens
    <2>1. down' = <<>> /\ ts' = "none" /\ timer' = FALSE
      BY <1>5 DEF LinkOpens, ShutInv, ClearRetry
    <2>2. Count(up', "connect") \in Nat /\ Count(up', "connect") <= 2
      <3> DEFINE M == {Msg("connect", last), Msg("connect", asked)}
      <3>1. <<>> \in Seq(M) /\ Count(<<>>, "connect") = 0
        BY CountNone
      <3>2. /\ <<Msg("connect", last)>> \in Seq(M)
            /\ Msg("connect", asked) \in M
        OBVIOUS
      <3>3. /\ Count(<<Msg("connect", last)>>, "connect") \in Nat
            /\ Count(<<Msg("connect", last)>>, "connect") <= 1
        <4>1. At(<<Msg("connect", last)>>, "connect") \in SUBSET {1}
          BY DEF At
        <4>2. IsFiniteSet({1}) /\ Cardinality({1}) = 1
          BY FS_Singleton
        <4>3. /\ IsFiniteSet(At(<<Msg("connect", last)>>, "connect"))
              /\ Cardinality(At(<<Msg("connect", last)>>, "connect")) <= 1
          BY <4>1, <4>2, FS_Subset
        <4> QED
          BY <4>3, FS_CardinalityType DEF Count
      <3> HIDE DEF M
      <3>4. /\ Count(Append(<<>>, Msg("connect", asked)), "connect") \in Nat
            /\ Count(Append(<<>>, Msg("connect", asked)), "connect") <= Count(<<>>, "connect") + 1
        BY <3>1, <3>2, CountAppend
      <3>5. /\ Count(Append(<<Msg("connect", last)>>, Msg("connect", asked)), "connect") \in Nat
            /\ Count(Append(<<Msg("connect", last)>>, Msg("connect", asked)), "connect")
                 <= Count(<<Msg("connect", last)>>, "connect") + 1
        BY <3>2, CountAppend
      <3>6. \/ up' = <<>>
            \/ up' = <<Msg("connect", last)>>
            \/ up' = Append(<<>>, Msg("connect", asked))
            \/ up' = Append(<<Msg("connect", last)>>, Msg("connect", asked))
        BY <1>5 DEF LinkOpens
      <3>7. CASE up' = <<>>
        BY <3>1, <3>7
      <3>8. CASE up' = <<Msg("connect", last)>>
        BY <3>3, <3>8
      <3>9. CASE up' = Append(<<>>, Msg("connect", asked))
        <4>1. /\ Count(up', "connect") \in Nat
              /\ Count(up', "connect") <= Count(<<>>, "connect") + 1
          BY <3>4, <3>9
        <4> QED
          BY <3>1, <4>1
      <3>10. CASE up' = Append(<<Msg("connect", last)>>, Msg("connect", asked))
        <4>1. /\ Count(up', "connect") \in Nat
              /\ Count(up', "connect") <= Count(<<Msg("connect", last)>>, "connect") + 1
          BY <3>5, <3>10
        <4> QED
          BY <3>3, <4>1
      <3> QED
        BY <3>6, <3>7, <3>8, <3>9, <3>10
    <2> QED
      BY <2>1, <2>2, CountNone DEF Tokens
  <1> QED
    BY <1>2, <1>3, <1>4, <1>5 DEF LinkMoves

\* The form and the banner ask when nothing is on its way, and stop the timer; the
\* retry spends its timer.
LEMMA TokensByUser ==
  ASSUME CallsInv, ~hasty, Tokens <= 2, UserMoves
  PROVE  Tokens' <= 2
  <1>1. LinkTypeOK
    BY DEF CallsInv
  <1>2. Count(up, "connect") \in Nat /\ Count(down, "dropped") \in Nat
    BY <1>1, CountsNat
  <1>3. UserMay => Count(up, "connect") = 0 /\ Count(down, "dropped") = 0
    BY <1>1, QuietUser, CountNone
  <1> USE DEF Tokens
  <1>4. CASE Reconnect
    <2>1. /\ UserMay /\ timer' = FALSE /\ UNCHANGED <<down, ts>>
          /\ Send(Msg("connect", last)) /\ Msg("connect", last) \in UpMsgs
      BY <1>1, <1>4, Kinds DEF Reconnect, AttemptReconnect, ClearRetry, hubVars, LinkTypeOK
    <2>2. Count(up', "connect") \in Nat /\ Count(up', "connect") <= 1
      BY <1>1, <1>3, <2>1, CountSent
    <2> QED
      BY <1>3, <2>1, <2>2
  <1>5. CASE Retry
    <2>1. timer /\ timer' = FALSE /\ UNCHANGED <<down, ts>>
      BY <1>5 DEF Retry, hubVars
    <2>2. /\ Count(up', "connect") \in Nat
          /\ Count(up', "connect") <= Count(up, "connect") + 1
      <3>1. CASE last # None /\ want
        <4>1. Send(Msg("connect", last)) /\ Msg("connect", last) \in UpMsgs
          BY <1>1, <1>5, <3>1, Kinds DEF Retry, AttemptReconnect, LinkTypeOK
        <4> QED
          BY <1>1, <4>1, CountSent
      <3>2. CASE ~(last # None /\ want)
        <4>1. up' = up
          BY <1>5, <3>2 DEF Retry
        <4> QED
          BY <1>2, <4>1
      <3> QED
        BY <3>1, <3>2
    <2> QED
      BY <1>2, <2>1, <2>2
  <1>6. CASE Disconnect
    <2>1. /\ Send(Msg("disconnect", None)) /\ Msg("disconnect", None) \in UpMsgs
          /\ timer' = FALSE /\ UNCHANGED <<down, ts>>
      BY <1>6, Kinds DEF Disconnect, ClearRetry, hubVars
    <2>2. Count(up', "connect") = Count(up, "connect")
      BY <1>1, <2>1, CountSent, MsgKinds
    <2> QED
      BY <1>2, <2>1, <2>2
  <1>7. ASSUME NEW r \in Req, Submit(r)
        PROVE  Tokens' <= 2
    <2>1. UserMay /\ UNCHANGED <<down, ts>>
      BY <1>7 DEF Submit, hubVars
    <2>2. CASE link = "open"
      <3>1. /\ Send(Msg("connect", r)) /\ Msg("connect", r) \in UpMsgs /\ timer' = FALSE
        BY <1>7, <2>2, Kinds DEF Submit, ClearRetry
      <3>2. Count(up', "connect") \in Nat /\ Count(up', "connect") <= 1
        BY <1>1, <1>3, <2>1, <3>1, CountSent
      <3> QED
        BY <1>3, <2>1, <3>1, <3>2
    <2>3. CASE link # "open"
      <3>1. UNCHANGED <<up, timer>>
        BY <1>7, <2>3 DEF Submit
      <3> QED
        BY <2>1, <3>1
    <2> QED
      BY <2>2, <2>3
  <1>8. ASSUME NEW c \in Cmd, Call(c)
        PROVE  Tokens' <= 2
    <2>1. /\ Send(Msg("cmd", c)) /\ Msg("cmd", c) \in UpMsgs
          /\ UNCHANGED <<timer, down, ts>>
      BY <1>8, Kinds DEF Call, pageVars, hubVars
    <2>2. Count(up', "connect") = Count(up, "connect")
      BY <1>1, <2>1, CountSent, MsgKinds
    <2> QED
      BY <1>2, <2>1, <2>2
  <1>9. ASSUME NEW c \in Cmd, CallTimeout(c)
        PROVE  Tokens' <= 2
    BY <1>9 DEF CallTimeout, pageVars, hubVars
  <1> QED
    BY <1>4, <1>5, <1>6, <1>7, <1>8, <1>9 DEF UserMoves

\* The news of a loss may set the timer; all else the page takes adds nothing.
LEMMA TokensByPage ==
  ASSUME CallsInv, Tokens <= 2, PageTakes
  PROVE  Tokens' <= 2
  <1>1. LinkTypeOK
    BY DEF CallsInv
  <1>2. Count(up, "connect") \in Nat /\ Count(down, "dropped") \in Nat
    BY <1>1, CountsNat
  <1>3. ts' = ts /\ (up' = up \/ Send(Msg("disconnect", None)))
    BY DEF PageTakes, TakeConnecting, TakeConnected, TakeSnapshot, TakeRefused, TakeFatal,
           TakeDropped, TakeBye, TakeResult, hubVars
  <1>4. Count(up', "connect") = Count(up, "connect")
    BY <1>1, <1>3, CountSent, Kinds, MsgKinds
  <1>5. \/ Takes("dropped")
        \/ \E k : Takes(k) /\ timer' \in {timer, FALSE}
    BY DEF PageTakes, TakeConnecting, TakeConnected, TakeSnapshot, TakeRefused, TakeFatal,
           TakeDropped, TakeBye, TakeResult, ClearRetry, pageVars
  <1>6. CASE Takes("dropped")
    <2>1. /\ Count(down', "dropped") \in Nat
          /\ Count(down', "dropped") <= Count(down, "dropped") - 1
      BY <1>1, <1>6, CountTaken
    <2> QED
      BY <1>2, <1>3, <1>4, <2>1 DEF Tokens
  <1>7. ASSUME NEW k, Takes(k), timer' \in {timer, FALSE}
        PROVE  Tokens' <= 2
    <2>1. /\ Count(down', "dropped") \in Nat
          /\ Count(down', "dropped") <= Count(down, "dropped")
      BY <1>1, <1>7, CountTaken
    <2>2. CASE timer' = timer
      BY <1>2, <1>3, <1>4, <2>1, <2>2 DEF Tokens
    <2>3. CASE timer' = FALSE
      BY <1>2, <1>3, <1>4, <2>1, <2>3 DEF Tokens
    <2> QED
      BY <1>7, <2>2, <2>3
  <1> QED
    BY <1>5, <1>6, <1>7

\* The hub makes a connection of a request, and the news of its loss of the connection.
LEMMA TokensByHub ==
  ASSUME CallsInv, Tokens <= 2, HubStep
  PROVE  Tokens' <= 2
  <1>1. LinkTypeOK
    BY DEF CallsInv
  <1>2. Count(up, "connect") \in Nat /\ Count(down, "dropped") \in Nat
    BY <1>1, CountsNat
  <1>3. timer' = timer
    BY DEF HubStep, HubConnects, HubDisconnects, HubGoodbye, HubDials, HubUp, HubFails,
           HubKicked, HubDropped, HubTakesCmd, HubAnswers, pageVars
  <1>4. \A m \in DownMsgs : Tell(m) =>
          /\ Count(down', "dropped") \in Nat
          /\ Count(down', "dropped") <= Count(down, "dropped") + 1
          /\ m.kind # "dropped" => Count(down', "dropped") = Count(down, "dropped")
    BY <1>1, CountTold
  <1>5. \A k : Hears(k) =>
          /\ Count(up', "connect") \in Nat
          /\ Count(up', "connect") <= Count(up, "connect")
          /\ k = "connect" => Count(up', "connect") <= Count(up, "connect") - 1
    BY <1>1, CountHeard
  <1> USE <1>2, <1>3, <1>4, <1>5, Kinds, MsgKinds DEF Tokens
  <1>6. CASE HubConnects
    <2>1. /\ Count(up', "connect") \in Nat
          /\ Count(up', "connect") <= Count(up, "connect") - 1
      BY <1>6 DEF HubConnects
    <2>2. Count(down', "dropped") = Count(down, "dropped")
      BY <1>6 DEF HubConnects
    <2> QED
      BY <2>1, <2>2
  <1>7. CASE HubDisconnects
    BY <1>7 DEF HubDisconnects
  <1>8. CASE HubGoodbye
    BY <1>8 DEF HubGoodbye
  <1>9. CASE HubDials
    BY <1>9 DEF HubDials
  <1>10. CASE HubUp
    <2>1. /\ Len(down) \in Nat /\ Len(down') = Len(down) + 2
          /\ \A i \in 1..Len(down) : down'[i] = down[i]
          /\ down'[Len(down) + 1].kind = "connected" /\ down'[Len(down) + 2].kind = "snapshot"
      BY <1>1, <1>10 DEF HubUp, LinkTypeOK
    <2>2. \A i \in 1..Len(down') : i \in 1..Len(down) \/ i = Len(down) + 1 \/ i = Len(down) + 2
      BY <2>1
    <2>3. \A i \in 1..Len(down') : down'[i].kind = "dropped" => i \in 1..Len(down)
      BY <2>1, <2>2
    <2>4. At(down', "dropped") = At(down, "dropped")
      <3>1. 1..Len(down) \subseteq 1..Len(down')
        BY <2>1
      <3>2. At(down', "dropped") \subseteq At(down, "dropped")
        BY <2>1, <2>3 DEF At
      <3>3. At(down, "dropped") \subseteq At(down', "dropped")
        BY <2>1, <3>1 DEF At
      <3> QED
        BY <3>2, <3>3
    <2>5. Count(down', "dropped") = Count(down, "dropped")
      BY <2>4 DEF Count
    <2> QED
      BY <1>10, <2>5 DEF HubUp
  <1>11. CASE HubFails
    BY <1>11 DEF HubFails
  <1>12. CASE HubKicked
    BY <1>12 DEF HubKicked
  <1>13. CASE HubDropped
    BY <1>13 DEF HubDropped
  <1>14. CASE HubTakesCmd
    BY <1>14 DEF HubTakesCmd
  <1>15. ASSUME NEW c \in Cmd, HubAnswers(c)
         PROVE  Tokens' <= 2
    BY <1>15 DEF HubAnswers
  <1> QED
    BY <1>6, <1>7, <1>8, <1>9, <1>10, <1>11, <1>12, <1>13, <1>14, <1>15 DEF HubStep

LEMMA TokensStep ==
  ASSUME AgreeInv, TokensInv, [Next]_vars
  PROVE  TokensInv'
  <1>1. hasty' = hasty
    <2>1. CASE UNCHANGED vars
      BY <2>1 DEF vars
    <2>2. CASE LinkMoves \/ UserMoves
      BY <2>2 DEF LinkMoves, UserMoves, OpenPage, LinkOpens, LinkCloses, Redial, Submit, Reconnect,
                  Retry, Disconnect, Call, CallTimeout
    <2>3. CASE PageTakes
      BY <2>3 DEF PageTakes, TakeConnecting, TakeConnected, TakeSnapshot, TakeRefused,
                  TakeFatal, TakeDropped, TakeBye, TakeResult
    <2>4. CASE HubStep
      BY <2>4 DEF HubStep, HubConnects, HubDisconnects, HubGoodbye, HubDials, HubUp, HubFails,
                  HubKicked, HubDropped, HubTakesCmd, HubAnswers
    <2> QED
      BY <2>1, <2>2, <2>3, <2>4 DEF Next, LinkMoves, UserMoves
  <1> SUFFICES ASSUME ~hasty
               PROVE  Tokens' <= 2
    BY <1>1 DEF TokensInv
  <1>2. CallsInv /\ ShutInv /\ Tokens <= 2
    BY DEF AgreeInv, TokensInv
  <1>3. CASE UNCHANGED vars
    BY <1>2, <1>3 DEF vars, Tokens
  <1>4. CASE Next
    BY <1>2, <1>4, TokensByLink, TokensByUser, TokensByPage, TokensByHub
       DEF Next, LinkMoves, UserMoves
  <1> QED
    BY <1>3, <1>4

-----------------------------------------------------------------------------
AskInv == AgreeInv /\ TurnInv /\ TokensInv

LEMMA AskInvAlways == Spec => []AskInv
  <1>1. Init => AskInv
    BY AgreeInvInit, OneInit, TokensInit DEF AskInv
  <1>2. AskInv /\ [Next]_vars => AskInv'
    BY AgreeInvStep, OneStep, TokensStep DEF AskInv
  <1> QED
    BY <1>1, <1>2, PTL DEF Spec

LEMMA OneUnderWay ==
  ASSUME AskInv
  PROVE  OneConnectUnderWay
  <1> SUFFICES ASSUME ~hasty
               PROVE  Count(up, "connect") <= IF twice THEN 2 ELSE 1
    BY DEF OneConnectUnderWay, Count, At
  <1>1. LinkTypeOK
    BY DEF AskInv, AgreeInv, CallsInv
  <1>2. Count(up, "connect") \in Nat /\ Count(down, "dropped") \in Nat
    BY <1>1, CountsNat
  <1>3. CASE twice
    <2>1. Tokens <= 2
      BY DEF AskInv, TokensInv
    <2> QED
      BY <1>2, <1>3, <2>1 DEF Tokens
  <1>4. CASE ~twice
    <2>1. \A i, j \in At(up, "connect") : i = j
      BY <1>4 DEF AskInv, TurnInv, OneFor, At
    <2>2. CASE At(up, "connect") = {}
      BY <1>4, <2>2, FS_EmptySet DEF Count
    <2>3. CASE At(up, "connect") # {}
      <3>1. PICK i \in At(up, "connect") : TRUE
        BY <2>3
      <3>2. At(up, "connect") = {i}
        BY <2>1, <3>1
      <3>3. Count(up, "connect") = 1
        BY <3>2, FS_Singleton DEF Count
      <3> QED
        BY <1>4, <3>3
    <2> QED
      BY <2>2, <2>3
  <1> QED
    BY <1>3, <1>4

\* A user who is not hasty never has two connect requests under way, not the form's and
\* the banner's, not the retry's and the replay's, but over a link the form waited for
\* while it was to be replayed on; and never three.
THEOREM OneRequestAtATime == Spec => []OneConnectUnderWay
  <1>1. AskInv => OneConnectUnderWay
    BY OneUnderWay
  <1> QED
    BY <1>1, AskInvAlways, PTL

\* The run that shows the page on the wrong server shows the only way there: whatever is
\* retried, replayed, dropped or clicked, a user who is not hasty is connected where he
\* asked to be, unless the form waited for a link that was to be replayed on.
THEOREM ConnectedWhereAsked == Spec => [](ConnectedAsAsked \/ twice)
  <1>1. AskInv => ConnectedAsAsked \/ twice
    BY AgreeInvAgrees DEF AskInv, TurnInv, ConnectedAsAsked, PageAgrees, Settled
  <1> QED
    BY <1>1, AskInvAlways, PTL
=============================================================================
