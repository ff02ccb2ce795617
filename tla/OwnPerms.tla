------------------------------ MODULE OwnPerms ------------------------------
(***************************************************************************)
(* The permissions of its own client a connection reports to its page      *)
(* (gateway/own-perms.ts).                                                 *)
(*                                                                         *)
(* The server announces the flags that changed row by row and says when    *)
(* the client's groups changed; powers it tells only when asked (permget). *)
(* A flush gathers what came in 50 ms, awaits the catalogue of names and   *)
(* then the powers, and reports the whole set once and patches from then   *)
(* on; rows that arrive during either await belong to the next flush.      *)
(***************************************************************************)
EXTENDS Naturals, Sequences, FiniteSets

CONSTANTS
  Flag,       \* permissions the server announces
  Power,      \* permissions it tells when asked (POWER_PERMS)
  Unset,      \* undefined
  MaxChanges  \* bound: changes of permissions at the server

ASSUME PermAssumption ==
  /\ Flag \cap Power = {}
  /\ Unset \notin {0, 1}
  /\ MaxChanges \in Nat

VARIABLES
  atServer,     \* the permissions as they are
  changes,      \* how often they changed
  permWire,     \* what the server has said and the hub has not read
  permStarted,  \* OwnPermissions.started
  permOver,     \* the session ended
  values,       \* OwnPermissions.values
  toReport,      \* OwnPermissions.pending: flags to report
  powers,       \* OwnPermissions.powers
  sentFull,     \* OwnPermissions.sentFull
  powersStale,  \* OwnPermissions.powersStale
  permTimer,    \* OwnPermissions.timer is set
  flushing,     \* where the flush under way stands
  needed,       \* its flags to report
  permPage,     \* what the page was told
  listLost      \* the environment's: may the list be refused when the cached one is old?

permServerVars == <<atServer, changes, listLost>>
permVars == <<atServer, changes, listLost, permWire, permStarted, permOver, values,
              toReport, powers, sentFull, powersStale, permTimer, flushing, needed, permPage>>

Nothing == [p \in Flag \cup Power |-> Unset]

PermInit ==
  /\ atServer = [p \in Flag \cup Power |-> 0]
  /\ changes = 0 /\ listLost \in BOOLEAN
  /\ permWire = <<>>
  /\ permStarted = FALSE /\ permOver = FALSE
  /\ values = Nothing /\ toReport = {} /\ powers = Nothing
  /\ sentFull = FALSE /\ powersStale = FALSE /\ permTimer = FALSE
  /\ flushing = "no" /\ needed = Nothing
  /\ permPage = Nothing

-----------------------------------------------------------------------------
(* The server.                                                             *)

Flip(p) ==
  /\ changes < MaxChanges
  /\ changes' = changes + 1
  /\ atServer' = [atServer EXCEPT ![p] = 1 - @]

\* A flag is granted or taken: notifyclientneededpermissions.
FlagChanges(p) ==
  /\ Flip(p)
  /\ permWire' = Append(permWire, [kind |-> "flag", of |-> p, value |-> 1 - atServer[p]])
  /\ UNCHANGED <<listLost, permStarted, permOver, values, toReport, powers, sentFull,
                 powersStale, permTimer, flushing, needed, permPage>>

\* A group changed that grants only a power: notifyservergroupclientadded and kin.
PowerChanges(q) ==
  /\ Flip(q)
  /\ permWire' = Append(permWire, [kind |-> "groups"])
  /\ UNCHANGED <<listLost, permStarted, permOver, values, toReport, powers, sentFull,
                 powersStale, permTimer, flushing, needed, permPage>>

\* It answers permget, in order with its notifications.
TellsPowers ==
  /\ flushing = "permget"
  /\ permWire' = Append(permWire,
       [kind |-> "powers", told |-> [p \in Flag \cup Power |->
                                       IF p \in Power THEN atServer[p] ELSE Unset]])
  /\ flushing' = "told"
  /\ UNCHANGED <<permServerVars, permStarted, permOver, values, toReport, powers, sentFull,
                 powersStale, permTimer, needed, permPage>>

-----------------------------------------------------------------------------
(* The connection.                                                         *)

\* schedule: nothing before the start, one timer, none beside a flush.
Schedules == permTimer' = (permTimer \/ (permStarted /\ flushing = "no"))

Reads(kind) ==
  /\ permWire # <<>>
  /\ Head(permWire).kind = kind
  /\ permWire' = Tail(permWire)

\* add
Add ==
  /\ Reads("flag")
  /\ ~permOver
  /\ LET row == Head(permWire) IN
     /\ values' = [values EXCEPT ![row.of] = row.value]
     /\ toReport' = toReport \cup {row.of}
  /\ Schedules
  /\ UNCHANGED <<permServerVars, permStarted, permOver, powers, sentFull, powersStale,
                 flushing, needed, permPage>>

\* refreshPowers
RefreshPowers ==
  /\ Reads("groups")
  /\ ~permOver
  /\ powersStale' = (powersStale \/ permStarted)
  /\ Schedules
  /\ UNCHANGED <<permServerVars, permStarted, permOver, values, toReport, powers, sentFull,
                 flushing, needed, permPage>>

\* start, once the snapshot is sent.
Start ==
  /\ ~permStarted /\ ~permOver
  /\ permStarted' = TRUE
  /\ permTimer' = TRUE
  /\ UNCHANGED <<permServerVars, permWire, permOver, values, toReport, powers, sentFull,
                 powersStale, flushing, needed, permPage>>

\* The session ends: reset().  A flush under way goes on.
PermOver ==
  /\ ~permOver
  /\ permOver' = TRUE
  /\ permStarted' = FALSE /\ sentFull' = FALSE /\ powersStale' = FALSE
  /\ permTimer' = FALSE
  /\ values' = Nothing /\ toReport' = {} /\ powers' = Nothing
  /\ UNCHANGED <<permServerVars, permWire, flushing, needed, permPage>>

\* The timer: a flush begins.
Flush ==
  /\ permTimer
  /\ permTimer' = FALSE
  /\ IF sentFull /\ toReport = {} /\ ~powersStale
     THEN UNCHANGED <<flushing, powersStale>>
     ELSE flushing' = "catalog" /\ powersStale' = FALSE
  /\ UNCHANGED <<permServerVars, permWire, permStarted, permOver, values, toReport, powers,
                 sentFull, needed, permPage>>

\* The flush reports with the powers it got, and is over; what came meanwhile
\* starts the next.
Report(got, flags, left) ==
  LET full == ~sentFull
      moved == {q \in Power : got[q] # Unset /\ (full \/ powers[q] # got[q])}
  IN
  /\ flushing' = "no"
  /\ IF permStarted
     THEN /\ powers' = got
          /\ sentFull' = TRUE
          /\ permPage' = [p \in Flag \cup Power |->
               IF p \in moved THEN got[p]
               ELSE IF flags[p] # Unset THEN flags[p]
               ELSE IF full THEN Unset ELSE permPage[p]]
          /\ permTimer' = (permTimer \/ left # {} \/ powersStale)
     ELSE UNCHANGED <<powers, sentFull, permPage, permTimer>>

\* The catalogue is there: the flags to report are taken.  Powers are asked for if
\* the server lets its guests see them.
CatalogComes ==
  LET flags == [p \in Flag \cup Power |->
                  IF ~sentFull \/ p \in toReport THEN values[p] ELSE Unset]
  IN
  /\ flushing = "catalog"
  /\ toReport' = {}
  /\ needed' = flags
  /\ \/ flushing' = "permget" /\ UNCHANGED <<powers, sentFull, permPage, permTimer>>
     \/ Report(Nothing, flags, {})
  /\ UNCHANGED <<permServerVars, permWire, permStarted, permOver, values, powersStale>>

\* The catalogue is refused: not asked for again until fresh rows come, or, once
\* the full set was sent, for those that wait.  A list that was there is cached.
CatalogRefused ==
  /\ flushing = "catalog"
  /\ sentFull => listLost
  /\ flushing' = "no"
  /\ permTimer' = (permTimer \/ (permStarted /\ sentFull /\ (toReport # {} \/ powersStale)))
  /\ UNCHANGED <<permServerVars, permWire, permStarted, permOver, values, toReport, powers,
                 sentFull, powersStale, needed, permPage>>

\* (Mutant: what is toReport is forgotten when it is reported, not when it is taken.)
PowersComeForgetting ==
  /\ flushing = "told"
  /\ Reads("powers")
  /\ toReport' = {}
  /\ Report(Head(permWire).told, needed, {})
  /\ UNCHANGED <<permServerVars, permStarted, permOver, values, powersStale, needed>>

PowersCome ==
  /\ flushing = "told"
  /\ Reads("powers")
  /\ Report(Head(permWire).told, needed, toReport)
  /\ UNCHANGED <<permServerVars, permStarted, permOver, values, toReport, powersStale, needed>>

\* permget fails: the flags are reported without the powers.
PermgetFails ==
  /\ flushing = "permget"
  /\ Report(Nothing, needed, toReport)
  /\ UNCHANGED <<permServerVars, permWire, permStarted, permOver, values, toReport,
                 powersStale, needed>>

PermNext ==
  \/ \E p \in Flag : FlagChanges(p)
  \/ \E q \in Power : PowerChanges(q)
  \/ TellsPowers
  \/ Add \/ RefreshPowers \/ Start \/ PermOver
  \/ Flush \/ CatalogComes \/ CatalogRefused \/ PowersCome \/ PermgetFails

PermSpec == PermInit /\ [][PermNext]_permVars

-----------------------------------------------------------------------------
(* Properties.                                                             *)

PermIdle == permStarted /\ ~permTimer /\ flushing = "no" /\ permWire = <<>>

\* Whatever changed at the server while a flush awaited the catalogue or the powers:
\* once nothing is left to read or to flush, a page that got its full set has every
\* flag the server announced as it is, and every power as the hub has it, which is as
\* it is unless the list of permissions was lost (OwnPermissions.flush, schedule).
PagePermsCurrent ==
  PermIdle /\ sentFull =>
    /\ \A p \in Flag : values[p] # Unset => permPage[p] = atServer[p]
    /\ \A q \in Power : powers[q] # Unset =>
         /\ permPage[q] = powers[q]
         /\ ~listLost => powers[q] = atServer[q]
=============================================================================
