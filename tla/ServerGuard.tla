----------------------------- MODULE ServerGuard -----------------------------
(***************************************************************************)
(* The budget the commands of every page share at one TeamSpeak server     *)
(* (gateway/server-guard.ts, tsCmdSlot): a burst, then one per refill,     *)
(* with a gap between any two, or the server's anti-flood bans the hub's   *)
(* address with every user behind it.                                      *)
(*                                                                         *)
(* A slot is booked when it is asked for; its command waits for it, after  *)
(* the waiters before it.  The bucket is one number, the theoretical       *)
(* arrival time; booked is the history the promise is about.               *)
(***************************************************************************)
EXTENDS Integers, Sequences

CONSTANTS
  Burst,    \* TS_CMD_BURST
  Refill,   \* TS_CMD_REFILL_MS
  Spacing,  \* TS_CMD_SPACING_MS
  MaxWait,  \* TS_CMD_MAX_WAIT_MS
  MaxTime,  \* bound: the clock
  MaxSlots  \* bound: slots booked

ASSUME GuardAssumption ==
  /\ Burst \in Nat \ {0}
  /\ Refill \in Nat /\ Spacing \in Nat /\ MaxWait \in Nat
  /\ MaxTime \in Nat /\ MaxSlots \in Nat

VARIABLES
  now,       \* clock.now()
  cmdTat,    \* ServerGuard.cmdTat
  lastCmd,   \* ServerGuard.lastCmd
  booked,    \* the slots booked, in order
  asked,     \* when each was asked for
  released   \* how many of their waiters went on (cmdQueue)

guardVars == <<now, cmdTat, lastCmd, booked, asked, released>>

Larger(a, b) == IF a >= b THEN a ELSE b

\* With the clock at 0 these are as good as minus infinity.
GuardInit ==
  /\ now = 0 /\ cmdTat = 0 /\ lastCmd = -Spacing
  /\ booked = <<>> /\ asked = <<>> /\ released = 0

Pass ==
  /\ now < MaxTime
  /\ now' = now + 1
  /\ UNCHANGED <<cmdTat, lastCmd, booked, asked, released>>

Tat == Larger(cmdTat, now)

\* (Mutant: the burst is one too large.)
StartLoose == Larger(now, Larger(Tat - Burst * Refill, lastCmd + Spacing))

\* When the next slot starts.
Start0 == Larger(now, Larger(Tat - (Burst - 1) * Refill, lastCmd + Spacing))

\* tsCmdSlot: booked at once, or refused, which costs nothing.
Book ==
  /\ Len(booked) < MaxSlots
  /\ Start0 - now <= MaxWait
  /\ cmdTat' = Larger(Tat, Start0) + Refill
  /\ lastCmd' = Start0
  /\ booked' = Append(booked, Start0)
  /\ asked' = Append(asked, now)
  /\ UNCHANGED <<now, released>>

\* The first waiter's sleep is over.
Release ==
  /\ released < Len(booked)
  /\ now >= booked[released + 1]
  /\ released' = released + 1
  /\ UNCHANGED <<now, cmdTat, lastCmd, booked, asked>>

GuardNext == Pass \/ Book \/ Release

GuardSpec == GuardInit /\ [][GuardNext]_guardVars

-----------------------------------------------------------------------------
(* Properties.                                                             *)

\* Of any run of commands, at most Burst start together and the rest a refill apart
\* each, no two closer than the spacing; and none starts later than it may wait.
BudgetKept ==
  \A i, j \in 1..Len(booked) : i < j =>
    /\ booked[j] - booked[i] >= (j - i - (Burst - 1)) * Refill
    /\ booked[j] - booked[i] >= (j - i) * Spacing
    /\ booked[j] - asked[j] <= MaxWait
=============================================================================
