------------------------- MODULE OneDecision_proofs -------------------------
(***************************************************************************)
(* What holds of TradeWorkflow while the decisions on one trade's events   *)
(* do not overlap and the demo data is not refreshed, however proposals,   *)
(* checks, agents, operators, the decisions on different trades and        *)
(* failures overlap.  For every set of trades, events and handlers, every  *)
(* bound and every environment without "refresh".                          *)
(***************************************************************************)
EXTENDS TradeWorkflow_proofs

(* Both hypotheses are needed: the runs TwoInForce and LostTrade violate   *)
(* OneCurrent and NeverLost with two decisions at a time, and a refresh    *)
(* removes trades whose events stay.                                       *)
NoRefresh == "refresh" \notin Environment

-----------------------------------------------------------------------------
(* The inductive invariant, in terms of a table tb and an event table ev.  *)

(* A version up to the one in force, and the one that follows it.          *)
Settled(tb, t, v) == \E c \in CurrentVersions(tb, t) : v <= c
NextTo(tb, t, v) == \E c \in CurrentVersions(tb, t) : v = c + 1

(* A version as create_next_version has inserted it.                       *)
Waits(tb, t, v) == tb[t][v] = [status |-> "EventPending", current |-> FALSE]

(* Event e is undecided and will put version v of trade t in force.        *)
Amends(ev, e, t, v) ==
  /\ ev[e].status \in InFlightStatus
  /\ ev[e].trade = t /\ ev[e].type = "AMEND" /\ ev[e].to = v

(* At most one version of a trade is in force, everything up to it exists, *)
(* and beyond it only the next one, as it was inserted, and only for an    *)
(* undecided amendment.                                                    *)
Unique(tb) == \A t \in Trade : \A c, d \in CurrentVersions(tb, t) : c = d
Filled(tb) == \A t \in Trade, v \in Version : Settled(tb, t, v) => Exists(tb, t, v)
Beyond(tb, ev) ==
  \A t \in Trade, v \in Version : Exists(tb, t, v) /\ ~Settled(tb, t, v) =>
    /\ NextTo(tb, t, v)
    /\ \E e \in Event : Amends(ev, e, t, v)
Ready(tb, ev) ==
  \A e \in Event, t \in Trade, v \in Version : Amends(ev, e, t, v) =>
    NextTo(tb, t, v) /\ Waits(tb, t, v)
Single(ev) ==
  \A e, f \in Event, t \in Trade, v, x \in Version :
    Amends(ev, e, t, v) /\ Amends(ev, f, t, x) => e = f

Known(tb, ev) == \A e \in Event : ev[e] \in EventRow => HasCurrent(tb, ev[e].trade)

TableInv(tb, ev) ==
  Unique(tb) /\ Filled(tb) /\ Beyond(tb, ev) /\ Ready(tb, ev) /\ Single(ev) /\ Known(tb, ev)

(* A request at work on a decision: the event is still undecided, and what *)
(* it is going to write fits the version in force.                         *)
Activates(ev, w) == w.outcome = "Done" /\ ev[w.event].type = "AMEND"
Removes(ev, w) == w.outcome = "Cancelled" /\ ev[w.event].type = "AMEND"

DecisionInv(tb, ev, w) ==
  LET d == ev[w.event] IN
  /\ d \in EventRow
  /\ \/ d.status = "FoUserToValidate" /\ w.outcome \in {"FoValidated", "Cancelled"}
     \/ d.status = "FoValidated" /\ w.outcome \in {"Done", "Cancelled"}
  /\ w.at = "reset" => Removes(ev, w)
  /\ w.at \in {"reset", "decided"} => w.dropped = IF Removes(ev, w) THEN {d.to} ELSE {}
  /\ w.at = "decided" =>
       IF Activates(ev, w)
       THEN /\ w.update.on = {d.to} /\ w.update.off = CurrentVersions(tb, d.trade)
            /\ w.update.on \cup w.update.off \subseteq w.update.updated
       ELSE /\ w.update.on = {} /\ w.update.off = {}
            /\ \A v \in w.update.updated : Settled(tb, d.trade, v)

(* Any other request: it updates no version beyond the one in force, and a *)
(* version it has inserted, but not committed, is the next one.            *)
ProposalStage == {"guard", "number", "insert", "mark", "create"}
WorkInv(tb, ev, w) ==
  /\ w.at \in {"update", "create"} => \A v \in w.update.updated : Settled(tb, w.trade, v)
  /\ w.at \in ProposalStage => HasCurrent(tb, w.trade)
  /\ w.at \in {"number", "insert"} => w.type = "AMEND"
  /\ w.at = "insert" => Settled(tb, w.trade, w.to) \/ NextTo(tb, w.trade, w.to)
  /\ w.at \in {"mark", "create"} /\ w.type = "AMEND" =>
       NextTo(tb, w.trade, w.to) /\ ~Exists(tb, w.trade, w.to)
  /\ w.at \in DecisionStage => DecisionInv(tb, ev, w)

(* Two open transactions never hold the same inserted key.                 *)
Apart ==
  \A g, h \in Handler, t \in Trade, v \in Version :
    Reserves(work[g], t, v) /\ Reserves(work[h], t, v) => g = h

ByApprovers == \A h \in Handler : work[h].at \in DecisionStage => h \in Approver

VInv ==
  /\ IInv
  /\ TableInv(rows, event)
  /\ \A h \in Handler : WorkInv(rows, event, work[h])
  /\ Apart
  /\ ByApprovers

-----------------------------------------------------------------------------
(* What a committed step does to the two tables.                           *)

(* Statuses change, of versions up to the one in force.                    *)
Keeps(tb, new) ==
  \A t \in Trade, v \in Version :
    /\ new[t][v].current <=> tb[t][v].current
    /\ Exists(new, t, v) <=> Exists(tb, t, v)
    /\ ~Settled(tb, t, v) => new[t][v] = tb[t][v]

(* Trades are booked.                                                      *)
Booked(tb, new, T) ==
  \A t \in Trade :
    IF t \in T THEN /\ tb[t] = Absent
                    /\ \E s \in WorkflowStatus : new[t] = FirstVersion(s)
               ELSE new[t] = tb[t]

(* An event is created, an amendment with the version it proposes.         *)
Proposed(tb, ev, new, nev, e) ==
  LET r == nev[e] IN
  /\ ev[e].status = "None"
  /\ r \in EventRow /\ r.status = "FoUserToValidate"
  /\ nev = [ev EXCEPT ![e] = r]
  /\ HasCurrent(tb, r.trade)
  /\ IF r.type = "AMEND"
     THEN /\ NextTo(tb, r.trade, r.to) /\ ~Exists(tb, r.trade, r.to)
          /\ new = InsertVersion(tb, r.trade, r.to)
     ELSE new = tb

(* An undecided event gets another status, which decides it unless FO      *)
(* forwards it to BO: a rejected amendment loses its version, an approved  *)
(* one puts it in force.                                                   *)
Activated(tb, new, t, to) ==
  /\ \A v \in Version : (new[t][v].current <=> v = to) /\ (Exists(new, t, v) <=> Exists(tb, t, v))
  /\ \A x \in Trade \ {t} : new[x] = tb[x]
Decided(tb, ev, new, nev, e) ==
  LET r == ev[e] IN
  /\ r \in EventRow
  /\ \E s \in {"FoValidated", "Cancelled", "Done"} :
       /\ nev = [ev EXCEPT ![e].status = s]
       /\ \/ r.status = "FoUserToValidate" /\ s \in {"FoValidated", "Cancelled"}
          \/ r.status = "FoValidated" /\ s \in {"Done", "Cancelled"}
       /\ \/ r.type # "AMEND" /\ new = tb
          \/ r.type = "AMEND" /\ s = "FoValidated" /\ new = tb
          \/ r.type = "AMEND" /\ s = "Cancelled" /\ new = DeleteVersions(tb, r.trade, {r.to})
          \/ r.type = "AMEND" /\ s = "Done" /\ Activated(tb, new, r.trade, r.to)

-----------------------------------------------------------------------------
(* Lemmas about versions.                                                  *)

LEMMA VersionIsNat == Version \subseteq Nat
BY BoundsAssumption DEF Version

LEMMA CurrentSettled ==
  ASSUME NEW tb, NEW t, NEW c \in CurrentVersions(tb, t)
  PROVE  Settled(tb, t, c)
<1>1. c \in Nat
  BY VersionIsNat DEF CurrentVersions
<1>2. c <= c
  BY <1>1
<1> QED BY <1>2 DEF Settled

LEMMA SettledMeans ==
  ASSUME NEW tb, Unique(tb), NEW t \in Trade, NEW c \in CurrentVersions(tb, t), NEW v
  PROVE  /\ c \in Version /\ c \in Nat
         /\ HasCurrent(tb, t) /\ Current(tb, t) = c
         /\ CurrentVersions(tb, t) = {c}
         /\ Settled(tb, t, v) <=> v <= c
         /\ NextTo(tb, t, v) <=> v = c + 1
<1>1. c \in Version /\ c \in Nat /\ tb[t][c].current
  BY VersionIsNat DEF CurrentVersions
<1>2. CurrentVersions(tb, t) = {c}
  BY DEF Unique
<1>3. Current(tb, t) \in Version /\ tb[t][Current(tb, t)].current
  BY <1>1 DEF Current
<1>4. Current(tb, t) = c
  BY <1>2, <1>3 DEF CurrentVersions
<1> QED BY <1>1, <1>2, <1>4 DEF HasCurrent, Settled, NextTo

(* What waits for approval exists and is not settled.                      *)
LEMMA WaitsMeans ==
  ASSUME NEW tb, Unique(tb), NEW t \in Trade, NEW v, Waits(tb, t, v)
  PROVE  /\ Exists(tb, t, v) /\ ~tb[t][v].current
         /\ NextTo(tb, t, v) => ~Settled(tb, t, v)
<1>1. Exists(tb, t, v) /\ ~tb[t][v].current
  BY DEF Waits, Exists
<1>2. ASSUME NextTo(tb, t, v) PROVE ~Settled(tb, t, v)
  <2>1. PICK c \in CurrentVersions(tb, t) : v = c + 1
    BY <1>2 DEF NextTo
  <2>2. c \in Nat /\ (Settled(tb, t, v) <=> v <= c)
    BY SettledMeans
  <2> QED BY <2>1, <2>2
<1> QED BY <1>1, <1>2

LEMMA SameCurrent ==
  ASSUME NEW tb, NEW new, NEW t, CurrentVersions(new, t) = CurrentVersions(tb, t), NEW v
  PROVE  /\ Settled(new, t, v) <=> Settled(tb, t, v)
         /\ NextTo(new, t, v) <=> NextTo(tb, t, v)
         /\ HasCurrent(new, t) <=> HasCurrent(tb, t)
BY DEF Settled, NextTo, HasCurrent

-----------------------------------------------------------------------------
(* Each kind of step preserves the table's part of the invariant.          *)

LEMMA KeepsCurrent ==
  ASSUME NEW tb, NEW new, Keeps(tb, new)
  PROVE  \A t \in Trade : CurrentVersions(new, t) = CurrentVersions(tb, t)
BY DEF Keeps, CurrentVersions

LEMMA KeepsTable ==
  ASSUME NEW tb, NEW new, Keeps(tb, new), NEW ev, TableInv(tb, ev)
  PROVE  TableInv(new, ev)
<1>1. \A t \in Trade : CurrentVersions(new, t) = CurrentVersions(tb, t)
  BY KeepsCurrent
<1>2. \A t \in Trade, v \in Version : /\ Settled(new, t, v) <=> Settled(tb, t, v)
                                      /\ NextTo(new, t, v) <=> NextTo(tb, t, v)
                                      /\ Exists(new, t, v) <=> Exists(tb, t, v)
  BY <1>1, SameCurrent DEF Keeps
<1>3. Unique(new)
  BY <1>1 DEF TableInv, Unique
<1>4. Filled(new) /\ Beyond(new, ev)
  BY <1>2 DEF TableInv, Filled, Beyond
<1>5. Ready(new, ev)
  <2> SUFFICES ASSUME NEW e \in Event, NEW t \in Trade, NEW v \in Version, Amends(ev, e, t, v)
               PROVE  NextTo(new, t, v) /\ Waits(new, t, v)
    BY DEF Ready
  <2>1. NextTo(tb, t, v) /\ Waits(tb, t, v) /\ Unique(tb)
    BY DEF TableInv, Ready
  <2>2. ~Settled(tb, t, v)
    BY <2>1, WaitsMeans
  <2>3. new[t][v] = tb[t][v]
    BY <2>2 DEF Keeps
  <2> QED BY <1>2, <2>1, <2>3 DEF Waits
<1>6. Known(new, ev)
  BY <1>1 DEF TableInv, Known, HasCurrent, EventRow
<1> QED BY <1>3, <1>4, <1>5, <1>6 DEF TableInv

(* What a booking leaves of the trades booked and of the others.           *)
LEMMA BookedMeans ==
  ASSUME NEW tb, NEW new, NEW T \in SUBSET Trade, Booked(tb, new, T)
  PROVE  \A t \in Trade :
           IF t \in T
           THEN /\ ~HasCurrent(tb, t) /\ CurrentVersions(new, t) = {1}
                /\ \A v \in Version : ~Exists(tb, t, v) /\ (Exists(new, t, v) <=> v = 1)
           ELSE /\ new[t] = tb[t] /\ CurrentVersions(new, t) = CurrentVersions(tb, t)
                /\ \A v \in Version : Exists(new, t, v) <=> Exists(tb, t, v)
<1> SUFFICES ASSUME NEW t \in Trade
             PROVE  IF t \in T
                    THEN /\ ~HasCurrent(tb, t) /\ CurrentVersions(new, t) = {1}
                         /\ \A v \in Version : ~Exists(tb, t, v) /\ (Exists(new, t, v) <=> v = 1)
                    ELSE /\ new[t] = tb[t] /\ CurrentVersions(new, t) = CurrentVersions(tb, t)
                         /\ \A v \in Version : Exists(new, t, v) <=> Exists(tb, t, v)
  OBVIOUS
<1>1. CASE t \in T
  <2>1. PICK s \in WorkflowStatus : tb[t] = Absent /\ new[t] = FirstVersion(s)
    BY <1>1 DEF Booked
  <2>2. \A v \in Version : ~tb[t][v].current /\ ~Exists(tb, t, v)
    BY <2>1 DEF Absent, NoRow, Exists
  <2>3. s # "None"
    BY DEF WorkflowStatus
  <2>4. \A v \in Version : (new[t][v].current <=> v = 1) /\ (Exists(new, t, v) <=> v = 1)
    <3> TAKE v \in Version
    <3>1. new[t][v] = IF v = 1 THEN [status |-> s, current |-> TRUE] ELSE NoRow
      BY <2>1 DEF FirstVersion
    <3> QED BY <2>3, <3>1 DEF NoRow, Exists
  <2>5. 1 \in Version
    BY BoundsAssumption DEF Version
  <2> QED BY <1>1, <2>2, <2>4, <2>5 DEF HasCurrent, CurrentVersions
<1>2. CASE t \notin T
  <2>1. new[t] = tb[t]
    BY <1>2 DEF Booked
  <2> QED BY <1>2, <2>1 DEF CurrentVersions, Exists
<1> QED BY <1>1, <1>2

LEMMA BookedTable ==
  ASSUME NEW tb, NEW new, NEW T \in SUBSET Trade, Booked(tb, new, T),
         NEW ev, TableInv(tb, ev)
  PROVE  TableInv(new, ev)
<1>a. \A t \in T : CurrentVersions(new, t) = {1} /\ ~HasCurrent(tb, t)
                   /\ \A v \in Version : Exists(new, t, v) <=> v = 1
  BY BookedMeans
<1>b. \A t \in Trade \ T : /\ new[t] = tb[t] /\ CurrentVersions(new, t) = CurrentVersions(tb, t)
                           /\ \A v \in Version : Exists(new, t, v) <=> Exists(tb, t, v)
  BY BookedMeans
<1>c. \A t \in Trade \ T, v \in Version : /\ Settled(new, t, v) <=> Settled(tb, t, v)
                                          /\ NextTo(new, t, v) <=> NextTo(tb, t, v)
  BY <1>b, SameCurrent
<1>d. \A t \in T, v \in Version : Settled(new, t, v) <=> v = 1
  BY <1>a, VersionIsNat, BoundsAssumption DEF Settled, Version
<1>1. Unique(new)
  BY <1>a, <1>b DEF TableInv, Unique
<1>2. Filled(new)
  BY <1>a, <1>b, <1>c, <1>d DEF TableInv, Filled
<1>3. Beyond(new, ev)
  BY <1>a, <1>b, <1>c, <1>d DEF TableInv, Beyond
<1>4. Ready(new, ev)
  <2> SUFFICES ASSUME NEW e \in Event, NEW t \in Trade, NEW v \in Version, Amends(ev, e, t, v)
               PROVE  NextTo(new, t, v) /\ Waits(new, t, v)
    BY DEF Ready
  <2>1. NextTo(tb, t, v) /\ Waits(tb, t, v)
    BY DEF TableInv, Ready
  <2>2. t \notin T
    BY <1>a, <2>1 DEF NextTo, HasCurrent
  <2> QED BY <1>b, <1>c, <2>1, <2>2 DEF Waits
<1>5. Known(new, ev)
  <2>1. \A t \in Trade : HasCurrent(tb, t) => HasCurrent(new, t)
    BY <1>a, <1>b DEF HasCurrent
  <2> QED BY <2>1 DEF TableInv, Known, EventRow
<1> QED BY <1>1, <1>2, <1>3, <1>4, <1>5 DEF TableInv

(* What a proposal leaves of the events.                                   *)
LEMMA ProposedEvents ==
  ASSUME NEW tb, NEW ev \in EventTable, NEW new, NEW nev, NEW e \in Event,
         Proposed(tb, ev, new, nev, e)
  PROVE  /\ ev[e] \notin EventRow /\ nev[e] \in EventRow
         /\ \A f \in Event \ {e} : nev[f] = ev[f]
         /\ \A f \in Event : \A t, v : Amends(nev, f, t, v) <=>
              \/ Amends(ev, f, t, v)
              \/ f = e /\ nev[e].type = "AMEND" /\ t = nev[e].trade /\ v = nev[e].to
<1>1. ev[e].status = "None" /\ nev[e] \in EventRow /\ nev[e].status = "FoUserToValidate"
  BY DEF Proposed
<1>2. \A f \in Event \ {e} : nev[f] = ev[f]
  BY DEF Proposed, EventTable
<1>3. ev[e] \notin EventRow
  BY <1>1 DEF EventRow, EventStatus
<1> QED BY <1>1, <1>2, <1>3 DEF Amends, InFlightStatus

LEMMA ProposedTable ==
  ASSUME NEW tb \in TradeTable, NEW ev \in EventTable, NEW new, NEW nev, NEW e \in Event,
         Proposed(tb, ev, new, nev, e), TableInv(tb, ev)
  PROVE  TableInv(new, nev)
<1> DEFINE r == nev[e]
<1>1. r \in EventRow /\ r.trade \in Trade /\ r.to \in Version
  BY ProposedEvents DEF EventRow
<1>2. \A f \in Event : \A t, v : Amends(nev, f, t, v) <=>
        Amends(ev, f, t, v) \/ (f = e /\ r.type = "AMEND" /\ t = r.trade /\ v = r.to)
  BY ProposedEvents
<1>a. Known(tb, nev)
  <2>1. \A f \in Event \ {e} : nev[f] = ev[f]
    BY DEF Proposed, EventTable
  <2>2. HasCurrent(tb, nev[e].trade)
    BY DEF Proposed
  <2>3. Known(tb, ev)
    BY DEF TableInv
  <2> QED BY <2>1, <2>2, <2>3 DEF Known
<1>3. CASE r.type # "AMEND"
  <2>1. new = tb
    BY <1>3 DEF Proposed
  <2>2. \A f \in Event : \A t, v : Amends(nev, f, t, v) <=> Amends(ev, f, t, v)
    BY <1>2, <1>3
  <2>3. Beyond(tb, nev)
    BY <2>2 DEF TableInv, Beyond
  <2>4. Ready(tb, nev) /\ Single(nev)
    BY <2>2 DEF TableInv, Ready, Single
  <2> QED BY <1>a, <2>1, <2>3, <2>4 DEF TableInv
<1>4. CASE r.type = "AMEND"
  <2>1. NextTo(tb, r.trade, r.to) /\ ~Exists(tb, r.trade, r.to) /\ new = InsertVersion(tb, r.trade, r.to)
    BY <1>4 DEF Proposed
  <2>2. /\ Waits(new, r.trade, r.to)
        /\ \A t \in Trade, v \in Version : t # r.trade \/ v # r.to => new[t][v] = tb[t][v]
    BY <1>1, <2>1, InsertVersionType DEF Waits
  <2>3. \A t \in Trade, v \in Version :
          /\ new[t][v].current <=> tb[t][v].current
          /\ Exists(new, t, v) <=> Exists(tb, t, v) \/ (t = r.trade /\ v = r.to)
    <3> TAKE t \in Trade, v \in Version
    <3>1. CASE t = r.trade /\ v = r.to
      BY <2>1, <2>2, <3>1, ExistsIsRow DEF Waits, Exists
    <3>2. CASE ~(t = r.trade /\ v = r.to)
      BY <2>2, <3>2 DEF Exists
    <3> QED BY <3>1, <3>2
  <2>4. \A t \in Trade : CurrentVersions(new, t) = CurrentVersions(tb, t)
    BY <2>3 DEF CurrentVersions
  <2>5. \A t \in Trade, v \in Version : /\ Settled(new, t, v) <=> Settled(tb, t, v)
                                        /\ NextTo(new, t, v) <=> NextTo(tb, t, v)
    BY <2>4, SameCurrent
  <2>6. \A f \in Event, v \in Version : ~Amends(ev, f, r.trade, v)
    <3> SUFFICES ASSUME NEW f \in Event, NEW v \in Version, Amends(ev, f, r.trade, v) PROVE FALSE
      OBVIOUS
    <3>1. NextTo(tb, r.trade, v) /\ Waits(tb, r.trade, v) /\ Unique(tb)
      BY <1>1 DEF TableInv, Ready
    <3>2. Exists(tb, r.trade, v)
      BY <3>1 DEF Waits, Exists
    <3>3. v = r.to
      BY <1>1, <2>1, <3>1 DEF NextTo, Unique
    <3> QED BY <2>1, <3>2, <3>3
  <2>7. Unique(new)
    BY <2>4 DEF TableInv, Unique
  <2>8. Filled(new)
    BY <2>3, <2>5 DEF TableInv, Filled
  <2>9. Beyond(new, nev)
    <3> SUFFICES ASSUME NEW t \in Trade, NEW v \in Version, Exists(new, t, v), ~Settled(new, t, v)
                 PROVE  NextTo(new, t, v) /\ \E f \in Event : Amends(nev, f, t, v)
      BY DEF Beyond
    <3>1. CASE t = r.trade /\ v = r.to
      BY <1>2, <1>4, <2>1, <2>5, <3>1
    <3>2. CASE ~(t = r.trade /\ v = r.to)
      BY <1>2, <2>3, <2>5, <3>2 DEF TableInv, Beyond
    <3> QED BY <3>1, <3>2
  <2>10. Ready(new, nev)
    <3> SUFFICES ASSUME NEW f \in Event, NEW t \in Trade, NEW v \in Version, Amends(nev, f, t, v)
                 PROVE  NextTo(new, t, v) /\ Waits(new, t, v)
      BY DEF Ready
    <3>1. CASE t = r.trade /\ v = r.to
      BY <2>1, <2>2, <2>5, <3>1
    <3>2. CASE ~(t = r.trade /\ v = r.to)
      BY <1>2, <2>2, <2>5, <3>2 DEF TableInv, Ready, Waits
    <3> QED BY <3>1, <3>2
  <2>11. Single(nev)
    BY <1>2, <2>6 DEF TableInv, Single
  <2>12. Known(new, nev)
    BY <1>a, <2>4 DEF Known, HasCurrent, EventRow
  <2> QED BY <2>7, <2>8, <2>9, <2>10, <2>11, <2>12 DEF TableInv
<1> QED BY <1>3, <1>4

(* What a decision leaves of the events.                                   *)
LEMMA DecidedEvents ==
  ASSUME NEW ev \in EventTable, NEW nev, NEW e \in Event, ev[e] \in EventRow,
         NEW s \in {"FoValidated", "Cancelled", "Done"},
         nev = [ev EXCEPT ![e].status = s]
  PROVE  /\ nev[e] \in EventRow /\ nev[e].status = s
         /\ nev[e].trade = ev[e].trade /\ nev[e].type = ev[e].type /\ nev[e].to = ev[e].to
         /\ \A f \in Event \ {e} : nev[f] = ev[f]
<1> DEFINE r == [ev[e] EXCEPT !.status = s]
<1>1. /\ r \in EventRow /\ r.status = s
      /\ r.trade = ev[e].trade /\ r.type = ev[e].type /\ r.to = ev[e].to
  BY DEF EventRow, EventStatus
<1>2. nev = [ev EXCEPT ![e] = r]
  OBVIOUS
<1> HIDE DEF r
<1> QED BY <1>1, <1>2 DEF EventTable

(* While an event stays undecided, nothing that is required of it changes. *)
LEMMA ForwardedTable ==
  ASSUME NEW tb, NEW ev, NEW nev, TableInv(tb, ev),
         \A f \in Event : \A t, v : Amends(nev, f, t, v) <=> Amends(ev, f, t, v),
         Known(tb, nev)
  PROVE  TableInv(tb, nev)
<1>1. Beyond(tb, nev)
  BY DEF TableInv, Beyond
<1>2. Ready(tb, nev) /\ Single(nev)
  BY DEF TableInv, Ready, Single
<1> QED BY <1>1, <1>2 DEF TableInv

(* A rejected amendment loses its version.                                 *)
LEMMA RejectedTable ==
  ASSUME NEW tb \in TradeTable, NEW ev, NEW nev, TableInv(tb, ev),
         NEW e \in Event, NEW t \in Trade, NEW to \in Version, Amends(ev, e, t, to),
         \A f \in Event : \A x, v : Amends(nev, f, x, v) <=> Amends(ev, f, x, v) /\ f # e,
         Known(tb, nev)
  PROVE  TableInv(DeleteVersions(tb, t, {to}), nev)
<1> DEFINE new == DeleteVersions(tb, t, {to})
<1>1. NextTo(tb, t, to) /\ Waits(tb, t, to) /\ Unique(tb)
  BY DEF TableInv, Ready
<1>2. ~tb[t][to].current /\ Exists(tb, t, to) /\ ~Settled(tb, t, to)
  BY <1>1, WaitsMeans
<1>3. \A x \in Trade, v \in Version : new[x][v] = IF x = t /\ v = to THEN NoRow ELSE tb[x][v]
  BY DEF DeleteVersions, TradeTable
<1> HIDE DEF new
<1>4. \A x \in Trade, v \in Version :
        /\ new[x][v].current <=> tb[x][v].current
        /\ Exists(new, x, v) <=> Exists(tb, x, v) /\ ~(x = t /\ v = to)
  BY <1>2, <1>3 DEF NoRow, Exists
<1>5. \A x \in Trade : CurrentVersions(new, x) = CurrentVersions(tb, x)
  BY <1>4 DEF CurrentVersions
<1>6. \A x \in Trade, v \in Version : /\ Settled(new, x, v) <=> Settled(tb, x, v)
                                      /\ NextTo(new, x, v) <=> NextTo(tb, x, v)
  BY <1>5, SameCurrent
<1>7. \A f \in Event, v \in Version : Amends(ev, f, t, v) => f = e
  BY DEF TableInv, Single
<1>8. \A f \in Event, v \in Version : Amends(ev, f, t, v) => v = to
  BY <1>7 DEF Amends
<1>9. Unique(new)
  BY <1>5 DEF TableInv, Unique
<1>10. Filled(new)
  BY <1>2, <1>4, <1>6 DEF TableInv, Filled
<1>11. Beyond(new, nev)
  <2> SUFFICES ASSUME NEW x \in Trade, NEW v \in Version, Exists(new, x, v), ~Settled(new, x, v)
               PROVE  NextTo(new, x, v) /\ \E f \in Event : Amends(nev, f, x, v)
    BY DEF Beyond
  <2>1. NextTo(tb, x, v) /\ \E f \in Event : Amends(ev, f, x, v)
    BY <1>4, <1>6 DEF TableInv, Beyond
  <2>2. PICK f \in Event : Amends(ev, f, x, v)
    BY <2>1
  <2>3. f # e
    BY <1>4, <2>2 DEF Amends
  <2> QED BY <1>6, <2>1, <2>2, <2>3
<1>12. Ready(new, nev)
  <2> SUFFICES ASSUME NEW f \in Event, NEW x \in Trade, NEW v \in Version, Amends(nev, f, x, v)
               PROVE  NextTo(new, x, v) /\ Waits(new, x, v)
    BY DEF Ready
  <2>1. Amends(ev, f, x, v) /\ x # t
    BY <1>7
  <2> QED BY <1>3, <1>6, <2>1 DEF TableInv, Ready, Waits
<1>13. Single(nev)
  BY DEF TableInv, Single
<1>14. Known(new, nev)
  BY <1>5 DEF Known, HasCurrent, EventRow
<1> QED BY <1>9, <1>10, <1>11, <1>12, <1>13, <1>14 DEF TableInv, new

(* An approved amendment's version comes into force.                       *)
LEMMA ActivatedMeans ==
  ASSUME NEW tb, NEW new, NEW t \in Trade, NEW to \in Version, Activated(tb, new, t, to)
  PROVE  /\ CurrentVersions(new, t) = {to}
         /\ \A x \in Trade \ {t} : CurrentVersions(new, x) = CurrentVersions(tb, x)
         /\ \A x \in Trade, v \in Version : Exists(new, x, v) <=> Exists(tb, x, v)
<1>1. CurrentVersions(new, t) = {to}
  BY DEF Activated, CurrentVersions
<1>2. \A x \in Trade \ {t} : new[x] = tb[x]
  BY DEF Activated
<1>3. \A x \in Trade \ {t} : CurrentVersions(new, x) = CurrentVersions(tb, x)
  BY <1>2 DEF CurrentVersions
<1>4. \A x \in Trade, v \in Version : Exists(new, x, v) <=> Exists(tb, x, v)
  BY <1>2 DEF Activated, Exists
<1> QED BY <1>1, <1>3, <1>4

LEMMA ActivatedTable ==
  ASSUME NEW tb, NEW new, NEW ev, NEW nev, TableInv(tb, ev),
         NEW e \in Event, NEW t \in Trade, NEW to \in Version, Amends(ev, e, t, to),
         Activated(tb, new, t, to),
         \A f \in Event : \A x, v : Amends(nev, f, x, v) <=> Amends(ev, f, x, v) /\ f # e,
         Known(tb, nev)
  PROVE  TableInv(new, nev)
<1>1. NextTo(tb, t, to) /\ Waits(tb, t, to) /\ Unique(tb)
  BY DEF TableInv, Ready
<1>2. PICK c \in CurrentVersions(tb, t) : to = c + 1
  BY <1>1 DEF NextTo
<1>3. c \in Nat /\ \A v \in Version : /\ Settled(tb, t, v) <=> v <= c
                                      /\ NextTo(tb, t, v) <=> v = c + 1
  BY <1>1, SettledMeans
<1>4. /\ CurrentVersions(new, t) = {to}
      /\ \A x \in Trade \ {t} : CurrentVersions(new, x) = CurrentVersions(tb, x)
      /\ \A x \in Trade, v \in Version : Exists(new, x, v) <=> Exists(tb, x, v)
  BY ActivatedMeans
<1>5. \A v \in Version : Settled(new, t, v) <=> v <= to
  BY <1>4 DEF Settled
<1>6. \A x \in Trade \ {t}, v \in Version : /\ Settled(new, x, v) <=> Settled(tb, x, v)
                                            /\ NextTo(new, x, v) <=> NextTo(tb, x, v)
  BY <1>4, SameCurrent
<1>7. \A f \in Event, v \in Version : Amends(ev, f, t, v) => f = e
  BY DEF TableInv, Single
<1>8. Exists(tb, t, to)
  BY <1>1 DEF Waits, Exists
<1>9. Unique(new)
  BY <1>4 DEF TableInv, Unique
<1>10. Filled(new)
  <2> SUFFICES ASSUME NEW x \in Trade, NEW v \in Version, Settled(new, x, v)
               PROVE  Exists(tb, x, v)
    BY <1>4 DEF Filled
  <2>1. CASE x = t
    <3>1. v <= c \/ v = to
      BY <1>2, <1>3, <1>5, <2>1, VersionIsNat
    <3> QED BY <1>3, <1>8, <2>1, <3>1 DEF TableInv, Filled
  <2>2. CASE x # t
    BY <1>6, <2>2 DEF TableInv, Filled
  <2> QED BY <2>1, <2>2
<1>11. Beyond(new, nev)
  <2> SUFFICES ASSUME NEW x \in Trade, NEW v \in Version, Exists(new, x, v), ~Settled(new, x, v)
               PROVE  NextTo(new, x, v) /\ \E f \in Event : Amends(nev, f, x, v)
    BY DEF Beyond
  <2>1. CASE x = t
    <3>1. ~(v <= to) /\ Exists(tb, t, v)
      BY <1>4, <1>5, <2>1
    <3>2. ~(v <= c) /\ v # c + 1
      BY <1>2, <1>3, <3>1, VersionIsNat
    <3> QED BY <1>3, <3>1, <3>2 DEF TableInv, Beyond
  <2>2. CASE x # t
    <3>1. NextTo(tb, x, v) /\ \E f \in Event : Amends(ev, f, x, v)
      BY <1>4, <1>6, <2>2 DEF TableInv, Beyond
    <3>2. PICK f \in Event : Amends(ev, f, x, v)
      BY <3>1
    <3>3. f # e
      BY <2>2, <3>2 DEF Amends
    <3> QED BY <1>6, <2>2, <3>1, <3>2, <3>3
  <2> QED BY <2>1, <2>2
<1>12. Ready(new, nev)
  <2> SUFFICES ASSUME NEW f \in Event, NEW x \in Trade, NEW v \in Version, Amends(nev, f, x, v)
               PROVE  NextTo(new, x, v) /\ Waits(new, x, v)
    BY DEF Ready
  <2>1. Amends(ev, f, x, v) /\ x # t
    BY <1>7
  <2>2. new[x] = tb[x]
    BY <2>1 DEF Activated
  <2> QED BY <1>6, <2>1, <2>2 DEF TableInv, Ready, Waits
<1>13. Single(nev)
  BY DEF TableInv, Single
<1>14. Known(new, nev)
  BY <1>4 DEF Known, HasCurrent, EventRow
<1> QED BY <1>9, <1>10, <1>11, <1>12, <1>13, <1>14 DEF TableInv

LEMMA DecidedTable ==
  ASSUME NEW tb \in TradeTable, NEW ev \in EventTable, NEW new, NEW nev, NEW e \in Event,
         Decided(tb, ev, new, nev, e), TableInv(tb, ev)
  PROVE  TableInv(new, nev)
<1> DEFINE r == ev[e]
<1>1. PICK s \in {"FoValidated", "Cancelled", "Done"} :
        /\ nev = [ev EXCEPT ![e].status = s]
        /\ \/ r.type # "AMEND" /\ new = tb
           \/ r.type = "AMEND" /\ s = "FoValidated" /\ new = tb
           \/ r.type = "AMEND" /\ s = "Cancelled" /\ new = DeleteVersions(tb, r.trade, {r.to})
           \/ r.type = "AMEND" /\ s = "Done" /\ Activated(tb, new, r.trade, r.to)
  BY DEF Decided
<1>2. /\ r \in EventRow /\ r.trade \in Trade /\ r.to \in Version
      /\ r.status \in {"FoUserToValidate", "FoValidated"}
  BY DEF Decided, EventRow
<1>3. /\ nev[e] \in EventRow /\ nev[e].status = s
      /\ nev[e].trade = r.trade /\ nev[e].type = r.type /\ nev[e].to = r.to
      /\ \A f \in Event \ {e} : nev[f] = ev[f]
  BY <1>1, <1>2, DecidedEvents
<1>a. Known(tb, nev)
  BY <1>2, <1>3 DEF TableInv, Known
<1> HIDE DEF r
<1>4. \A f \in Event : \A t, v :
        Amends(nev, f, t, v) <=> Amends(ev, f, t, v) /\ (f # e \/ s = "FoValidated")
  BY <1>2, <1>3 DEF Amends, InFlightStatus, r
<1>5. CASE r.type # "AMEND" \/ s = "FoValidated"
  <2>1. new = tb
    BY <1>1, <1>5
  <2>2. \A f \in Event : \A t, v : Amends(nev, f, t, v) <=> Amends(ev, f, t, v)
    BY <1>4, <1>5 DEF Amends, r
  <2> QED BY <2>1, <2>2, <1>a, ForwardedTable
<1>6. CASE r.type = "AMEND" /\ s # "FoValidated"
  <2>1. Amends(ev, e, r.trade, r.to)
    BY <1>2, <1>6 DEF Amends, InFlightStatus, r
  <2>2. \A f \in Event : \A t, v : Amends(nev, f, t, v) <=> Amends(ev, f, t, v) /\ f # e
    BY <1>4, <1>6
  <2>3. CASE s = "Cancelled"
    <3>1. new = DeleteVersions(tb, r.trade, {r.to})
      BY <1>1, <1>6, <2>3
    <3> QED BY <1>2, <2>1, <2>2, <3>1, <1>a, RejectedTable
  <2>4. CASE s = "Done"
    <3>1. Activated(tb, new, r.trade, r.to)
      BY <1>1, <1>6, <2>4
    <3> QED BY <1>2, <2>1, <2>2, <3>1, <1>a, ActivatedTable
  <2> QED BY <1>6, <2>3, <2>4
<1> QED BY <1>5, <1>6

-----------------------------------------------------------------------------
(* What another request relies on survives each kind of step.              *)

(* Versions in force only go up, and what follows one goes on to do so     *)
(* until it is in force itself.                                            *)
Advances(tb, new) ==
  \A t \in Trade, v \in Version :
    /\ Settled(tb, t, v) => Settled(new, t, v)
    /\ NextTo(tb, t, v) => NextTo(new, t, v) \/ Settled(new, t, v)

(* A request's uncommitted version stays the next one, and the event it is *)
(* deciding on and the version in force there stay as they are.            *)
Undisturbed(tb, ev, new, nev, w) ==
  /\ \A t \in Trade, v \in Version :
       Reserves(w, t, v) /\ NextTo(tb, t, v) /\ ~Exists(tb, t, v) =>
         NextTo(new, t, v) /\ ~Exists(new, t, v)
  /\ w.at \in DecisionStage =>
       /\ nev[w.event] = ev[w.event]
       /\ CurrentVersions(new, ev[w.event].trade) = CurrentVersions(tb, ev[w.event].trade)

LEMMA WorkUndisturbed ==
  ASSUME NEW tb, NEW ev, NEW new, NEW nev, NEW w \in AnyWork, WorkInv(tb, ev, w),
         Advances(tb, new), Undisturbed(tb, ev, new, nev, w)
  PROVE  WorkInv(new, nev, w)
<1>1. w.at = "update" => w \in UpdateWork
  BY WorkByStage
<1>2. w.at \in ProposalStage => w \in ProposalWork
  BY WorkByStage DEF ProposalStage
<1>3. ASSUME w.at \in {"update", "create"}, NEW v \in w.update.updated
      PROVE  Settled(new, w.trade, v)
  <2>1. w.trade \in Trade /\ v \in Version
    BY <1>1, <1>2, <1>3 DEF UpdateWork, ProposalWork, Update, ProposalStage
  <2> QED BY <1>3, <2>1 DEF WorkInv, Advances
<1>4. ASSUME w.at \in ProposalStage
      PROVE  HasCurrent(new, w.trade)
  <2>1. w.trade \in Trade
    BY <1>2, <1>4 DEF ProposalWork
  <2>2. PICK c \in CurrentVersions(tb, w.trade) : TRUE
    BY <1>4 DEF WorkInv, HasCurrent
  <2>3. c \in Version /\ Settled(tb, w.trade, c)
    BY <2>2, VersionIsNat DEF Settled, CurrentVersions
  <2>4. Settled(new, w.trade, c)
    BY <2>1, <2>3 DEF Advances
  <2> QED BY <2>4 DEF Settled, HasCurrent
<1>5. ASSUME w.at = "insert"
      PROVE  Settled(new, w.trade, w.to) \/ NextTo(new, w.trade, w.to)
  <2>1. w.trade \in Trade /\ w.to \in Version
    BY <1>2, <1>5 DEF ProposalWork, ProposalStage
  <2> QED BY <1>5, <2>1 DEF WorkInv, Advances
<1>6. ASSUME w.at \in {"mark", "create"}, w.type = "AMEND"
      PROVE  NextTo(new, w.trade, w.to) /\ ~Exists(new, w.trade, w.to)
  <2>1. w.trade \in Trade /\ w.to \in Version
    BY <1>2, <1>6 DEF ProposalWork, ProposalStage
  <2>2. Reserves(w, w.trade, w.to)
    BY <1>6 DEF Reserves
  <2> QED BY <1>6, <2>1, <2>2 DEF WorkInv, Undisturbed
<1>7. ASSUME w.at \in DecisionStage
      PROVE  DecisionInv(new, nev, w)
  <2>1. DecisionInv(tb, ev, w) /\ nev[w.event] = ev[w.event]
        /\ CurrentVersions(new, ev[w.event].trade) = CurrentVersions(tb, ev[w.event].trade)
    BY <1>7 DEF WorkInv, Undisturbed
  <2>2. \A v : Settled(new, ev[w.event].trade, v) <=> Settled(tb, ev[w.event].trade, v)
    BY <2>1 DEF Settled
  <2> QED BY <2>1, <2>2 DEF DecisionInv, Removes, Activates
<1> QED BY <1>3, <1>4, <1>5, <1>6, <1>7 DEF WorkInv

(* When a trade keeps its version in force, so does all that is said of it.*)
LEMMA SameAdvances ==
  ASSUME NEW tb, NEW new,
         \A t \in Trade : CurrentVersions(new, t) = CurrentVersions(tb, t)
  PROVE  Advances(tb, new)
BY SameCurrent DEF Advances

LEMMA KeepsWork ==
  ASSUME NEW tb, NEW new, Keeps(tb, new), NEW ev, NEW w \in AnyWork, WorkInv(tb, ev, w)
  PROVE  WorkInv(new, ev, w)
<1>1. \A t \in Trade : CurrentVersions(new, t) = CurrentVersions(tb, t)
  BY KeepsCurrent
<1>2. \A t \in Trade, v \in Version : NextTo(new, t, v) <=> NextTo(tb, t, v)
  BY <1>1, SameCurrent
<1>3. w.at \in DecisionStage => ev[w.event].trade \in Trade
  BY DEF WorkInv, DecisionInv, EventRow
<1>4. Undisturbed(tb, ev, new, ev, w)
  BY <1>1, <1>2, <1>3 DEF Undisturbed, Keeps
<1> QED BY <1>1, <1>4, SameAdvances, WorkUndisturbed

LEMMA BookedWork ==
  ASSUME NEW tb, NEW new, NEW T \in SUBSET Trade, Booked(tb, new, T), NEW ev, TableInv(tb, ev),
         NEW w \in AnyWork, WorkInv(tb, ev, w)
  PROVE  WorkInv(new, ev, w)
<1>a. \A t \in T : ~HasCurrent(tb, t)
  BY BookedMeans
<1>b. \A t \in Trade \ T : /\ CurrentVersions(new, t) = CurrentVersions(tb, t)
                           /\ \A v \in Version : Exists(new, t, v) <=> Exists(tb, t, v)
  BY BookedMeans
<1>c. \A t \in Trade, v \in Version : Settled(tb, t, v) \/ NextTo(tb, t, v) => t \notin T
  BY <1>a DEF Settled, NextTo, HasCurrent
<1>d. \A t \in Trade \ T, v \in Version : /\ Settled(new, t, v) <=> Settled(tb, t, v)
                                          /\ NextTo(new, t, v) <=> NextTo(tb, t, v)
  BY <1>b, SameCurrent
<1>1. Advances(tb, new)
  BY <1>c, <1>d DEF Advances
<1>2. w.at \in DecisionStage => ev[w.event].trade \in Trade \ T
  <2>1. w.at \in DecisionStage => w.event \in Event /\ ev[w.event] \in EventRow
    BY WorkByStage DEF WorkInv, DecisionInv, DecisionStage, DecisionWork
  <2> QED BY <1>a, <2>1 DEF TableInv, Known, EventRow
<1>3. Undisturbed(tb, ev, new, ev, w)
  BY <1>b, <1>c, <1>d, <1>2 DEF Undisturbed
<1> QED BY <1>1, <1>3, WorkUndisturbed

LEMMA ProposedWork ==
  ASSUME NEW tb \in TradeTable, NEW ev \in EventTable, NEW new, NEW nev, NEW e \in Event,
         Proposed(tb, ev, new, nev, e), NEW w \in AnyWork, WorkInv(tb, ev, w),
         nev[e].type = "AMEND" => ~Reserves(w, nev[e].trade, nev[e].to)
  PROVE  WorkInv(new, nev, w)
<1> DEFINE r == nev[e]
<1>1. /\ r.trade \in Trade /\ r.to \in Version /\ ev[e] \notin EventRow
      /\ \A f \in Event \ {e} : nev[f] = ev[f]
  BY ProposedEvents DEF EventRow
<1>2. \A t \in Trade, v \in Version :
        /\ new[t][v].current <=> tb[t][v].current
        /\ Exists(new, t, v) => Exists(tb, t, v) \/ (r.type = "AMEND" /\ t = r.trade /\ v = r.to)
  <2>1. CASE r.type # "AMEND"
    BY <2>1 DEF Proposed
  <2>2. CASE r.type = "AMEND"
    <3> TAKE t \in Trade, v \in Version
    <3>1. ~Exists(tb, r.trade, r.to) /\ new = InsertVersion(tb, r.trade, r.to)
      BY <2>2 DEF Proposed
    <3>2. CASE t = r.trade /\ v = r.to
      <4>1. ~tb[t][v].current
        BY <1>1, <3>1, <3>2, ExistsIsRow
      <4>2. ~new[t][v].current
        BY <1>1, <3>1, <3>2, InsertVersionType
      <4> QED BY <2>2, <3>2, <4>1, <4>2
    <3>3. CASE ~(t = r.trade /\ v = r.to)
      BY <1>1, <3>1, <3>3, InsertVersionType DEF Exists
    <3> QED BY <3>2, <3>3
  <2> QED BY <2>1, <2>2
<1> HIDE DEF r
<1>3. \A t \in Trade : CurrentVersions(new, t) = CurrentVersions(tb, t)
  BY <1>2 DEF CurrentVersions
<1>4. \A t \in Trade, v \in Version : NextTo(new, t, v) <=> NextTo(tb, t, v)
  BY <1>3, SameCurrent
<1>5. w.at \in DecisionStage => /\ ev[w.event].trade \in Trade
                                /\ nev[w.event] = ev[w.event]
  <2>1. w.at \in DecisionStage => w.event \in Event /\ ev[w.event] \in EventRow
    BY WorkByStage DEF WorkInv, DecisionInv, DecisionStage, DecisionWork
  <2> QED BY <1>1, <2>1 DEF EventRow
<1>6. Undisturbed(tb, ev, new, nev, w)
  BY <1>2, <1>3, <1>4, <1>5 DEF Undisturbed, r
<1> QED BY <1>3, <1>6, SameAdvances, WorkUndisturbed

LEMMA DecidedWork ==
  ASSUME NEW tb \in TradeTable, NEW ev \in EventTable, NEW new, NEW nev, NEW e \in Event,
         Decided(tb, ev, new, nev, e), TableInv(tb, ev), NEW w \in AnyWork, WorkInv(tb, ev, w),
         w.at \in DecisionStage => ev[w.event].trade # ev[e].trade
  PROVE  WorkInv(new, nev, w)
<1> DEFINE r == ev[e]
<1>1. PICK s \in {"FoValidated", "Cancelled", "Done"} :
        /\ nev = [ev EXCEPT ![e].status = s]
        /\ \/ r.type # "AMEND" /\ new = tb
           \/ r.type = "AMEND" /\ s = "FoValidated" /\ new = tb
           \/ r.type = "AMEND" /\ s = "Cancelled" /\ new = DeleteVersions(tb, r.trade, {r.to})
           \/ r.type = "AMEND" /\ s = "Done" /\ Activated(tb, new, r.trade, r.to)
  BY DEF Decided
<1>2. /\ r \in EventRow /\ r.trade \in Trade /\ r.to \in Version
      /\ r.status \in {"FoUserToValidate", "FoValidated"}
  BY DEF Decided, EventRow
<1>3. \A f \in Event \ {e} : nev[f] = ev[f]
  BY <1>1, <1>2, DecidedEvents
<1>4. w.at \in DecisionStage => /\ w.event \in Event \ {e}
                                /\ ev[w.event].trade \in Trade \ {r.trade}
  <2>1. w.at \in DecisionStage => w.event \in Event /\ ev[w.event] \in EventRow
    BY WorkByStage DEF WorkInv, DecisionInv, DecisionStage, DecisionWork
  <2> QED BY <2>1 DEF EventRow
<1> HIDE DEF r
<1>5. CASE new = tb
  <2>1. Undisturbed(tb, ev, new, nev, w)
    BY <1>3, <1>4, <1>5 DEF Undisturbed
  <2> QED BY <1>5, <2>1, SameAdvances, WorkUndisturbed
<1>6. CASE r.type = "AMEND" /\ new = DeleteVersions(tb, r.trade, {r.to})
  <2>1. Waits(tb, r.trade, r.to)
    BY <1>2, <1>6 DEF TableInv, Ready, Amends, InFlightStatus, r
  <2>2. \A t \in Trade, v \in Version :
          /\ new[t][v].current <=> tb[t][v].current
          /\ Exists(new, t, v) => Exists(tb, t, v)
    <3> TAKE t \in Trade, v \in Version
    <3>1. new[t][v] = IF t = r.trade /\ v = r.to THEN NoRow ELSE tb[t][v]
      BY <1>6 DEF DeleteVersions, TradeTable
    <3> QED BY <2>1, <3>1 DEF NoRow, Exists, Waits
  <2>3. \A t \in Trade : CurrentVersions(new, t) = CurrentVersions(tb, t)
    BY <2>2 DEF CurrentVersions
  <2>4. \A t \in Trade, v \in Version : NextTo(new, t, v) <=> NextTo(tb, t, v)
    BY <2>3, SameCurrent
  <2>5. Undisturbed(tb, ev, new, nev, w)
    BY <1>3, <1>4, <2>2, <2>3, <2>4 DEF Undisturbed
  <2> QED BY <2>3, <2>5, SameAdvances, WorkUndisturbed
<1>7. CASE r.type = "AMEND" /\ Activated(tb, new, r.trade, r.to)
  <2>1. NextTo(tb, r.trade, r.to) /\ Waits(tb, r.trade, r.to) /\ Unique(tb)
    BY <1>2, <1>7 DEF TableInv, Ready, Amends, InFlightStatus, r
  <2>2. PICK c \in CurrentVersions(tb, r.trade) : r.to = c + 1
    BY <2>1 DEF NextTo
  <2>3. c \in Nat /\ \A v \in Version : /\ Settled(tb, r.trade, v) <=> v <= c
                                        /\ NextTo(tb, r.trade, v) <=> v = c + 1
    BY <1>2, <2>1, SettledMeans
  <2>4. /\ CurrentVersions(new, r.trade) = {r.to}
        /\ \A x \in Trade \ {r.trade} : CurrentVersions(new, x) = CurrentVersions(tb, x)
        /\ \A x \in Trade, v \in Version : Exists(new, x, v) <=> Exists(tb, x, v)
    BY <1>2, <1>7, ActivatedMeans
  <2>5. \A x \in Trade \ {r.trade}, v \in Version : /\ Settled(new, x, v) <=> Settled(tb, x, v)
                                                    /\ NextTo(new, x, v) <=> NextTo(tb, x, v)
    BY <2>4, SameCurrent
  <2>6. \A v \in Version : Settled(new, r.trade, v) <=> v <= c + 1
    BY <2>2, <2>4 DEF Settled
  <2>7. Advances(tb, new)
    <3> SUFFICES ASSUME NEW t \in Trade, NEW v \in Version
                 PROVE  /\ Settled(tb, t, v) => Settled(new, t, v)
                        /\ NextTo(tb, t, v) => NextTo(new, t, v) \/ Settled(new, t, v)
      BY DEF Advances
    <3>1. CASE t = r.trade
      <4>1. v \in Nat
        BY VersionIsNat
      <4> QED BY <2>3, <2>6, <3>1, <4>1
    <3>2. CASE t # r.trade
      BY <2>5, <3>2
    <3> QED BY <3>1, <3>2
  <2>8. \A v \in Version : NextTo(tb, r.trade, v) => Exists(tb, r.trade, v)
    BY <2>1, <2>2, <2>3 DEF Waits, Exists
  <2>9. Undisturbed(tb, ev, new, nev, w)
    BY <1>3, <1>4, <2>4, <2>5, <2>8 DEF Undisturbed
  <2> QED BY <2>7, <2>9, WorkUndisturbed
<1> QED BY <1>1, <1>5, <1>6, <1>7

-----------------------------------------------------------------------------
(* The steps of the two tables, and the frame of a step.                   *)

Kinds(tb, ev, new, nev) ==
  \/ nev = ev /\ Keeps(tb, new)
  \/ nev = ev /\ \E T \in SUBSET Trade : Booked(tb, new, T)
  \/ \E e \in Event, base \in TradeTable :
       (Proposed(tb, ev, base, nev, e) \/ Decided(tb, ev, base, nev, e)) /\ Keeps(base, new)

LEMMA KeepsRefl == \A tb : Keeps(tb, tb)
BY DEF Keeps

LEMMA Unchanging ==
  ASSUME UNCHANGED <<rows, event>>
  PROVE  Kinds(rows, event, rows', event')
BY KeepsRefl DEF Kinds

(* A flush without flags of rows up to the one in force.                   *)
LEMMA ApplyKeeps ==
  ASSUME NEW tb \in TradeTable, NEW t \in Trade, NEW u \in Update, Filled(tb),
         u.on = {}, u.off = {}, \A v \in u.updated : Settled(tb, t, v)
  PROVE  Keeps(tb, Apply(tb, t, u)) /\ Apply(tb, t, u) \in TradeTable
<1> DEFINE new == Apply(tb, t, u)
<1>1. \A x \in Trade, v \in Version :
        new[x][v] = IF x = t /\ v \in u.updated THEN Written(tb[t][v], v, u) ELSE tb[x][v]
  BY DEF Apply, TradeTable
<1>2. u.status \in WorkflowStatus /\ u.updated \subseteq Version
  BY DEF Update
<1>3. "None" \notin WorkflowStatus
  BY DEF WorkflowStatus
<1>4. CanApply(tb, t, u)
  BY <1>2 DEF CanApply, Filled
<1>5. new \in TradeTable
  BY <1>4, ApplyType
<1> HIDE DEF new
<1>6. ASSUME NEW x \in Trade, NEW v \in Version
      PROVE  /\ new[x][v].current <=> tb[x][v].current
             /\ Exists(new, x, v) <=> Exists(tb, x, v)
             /\ ~Settled(tb, x, v) => new[x][v] = tb[x][v]
  <2>1. CASE x = t /\ v \in u.updated
    <3>1. Exists(tb, t, v)
      BY <1>4, <2>1 DEF CanApply
    <3>2. new[x][v] = Written(tb[t][v], v, u)
      BY <1>1, <2>1
    <3>3. /\ Written(tb[t][v], v, u).current = ((tb[t][v].current \/ v \in u.on) /\ v \notin u.off)
          /\ Written(tb[t][v], v, u).status
               = IF v \in u.restatus THEN u.status ELSE tb[t][v].status
      BY DEF Written
    <3>4. new[x][v].current <=> tb[x][v].current
      BY <2>1, <3>2, <3>3
    <3>5. new[x][v].status # "None"
      BY <1>2, <1>3, <3>1, <3>2, <3>3 DEF Exists
    <3> QED BY <2>1, <3>1, <3>4, <3>5 DEF Exists
  <2>2. CASE ~(x = t /\ v \in u.updated)
    BY <1>1, <2>2 DEF Exists
  <2> QED BY <2>1, <2>2
<1> QED BY <1>5, <1>6 DEF Keeps, new

(* Most stages promise nothing.                                            *)
LEMMA PlainWork ==
  ASSUME NEW tb, NEW ev, NEW w, w.at \notin {"update"} \cup ProposalStage \cup DecisionStage
  PROVE  WorkInv(tb, ev, w) /\ (\A t, v : ~Reserves(w, t, v)) /\ w.at \notin DecisionStage
BY DEF WorkInv, Reserves, ProposalStage, DecisionStage

LEMMA Frame ==
  ASSUME VInv, IInv', NEW h \in Handler, NEW w, SetWork(h, w),
         TableInv(rows', event'),
         \A g \in Handler \ {h} : WorkInv(rows', event', work[g]),
         WorkInv(rows', event', w),
         \A g \in Handler \ {h}, t \in Trade, v \in Version :
           ~(Reserves(w, t, v) /\ Reserves(work[g], t, v)),
         w.at \in DecisionStage => h \in Approver
  PROVE  VInv'
<1>1. work'[h] = w /\ \A g \in Handler \ {h} : work'[g] = work[g]
  BY SetWorkIs DEF VInv, IInv
<1>2. \A g \in Handler : WorkInv(rows', event', work'[g])
  BY <1>1
<1>3. Apart'
  <2> SUFFICES ASSUME NEW f \in Handler, NEW g \in Handler, NEW t \in Trade, NEW v \in Version,
                      Reserves(work'[f], t, v), Reserves(work'[g], t, v)
               PROVE  f = g
    BY DEF Apart
  <2>1. CASE f # h /\ g # h
    BY <1>1, <2>1 DEF VInv, Apart
  <2>2. CASE f = h \/ g = h
    BY <1>1, <2>2
  <2> QED BY <2>1, <2>2
<1>4. ByApprovers'
  <2> SUFFICES ASSUME NEW g \in Handler, work'[g].at \in DecisionStage
               PROVE  g \in Approver
    BY DEF ByApprovers, DecisionStage
  <2> QED BY <1>1 DEF VInv, ByApprovers
<1> QED BY <1>2, <1>3, <1>4 DEF VInv

(* A step that commits nothing.                                            *)
LEMMA OwnStep ==
  ASSUME VInv, IInv', NEW h \in Handler, NEW w, SetWork(h, w), UNCHANGED <<rows, event>>,
         WorkInv(rows, event, w),
         \A g \in Handler \ {h}, t \in Trade, v \in Version :
           ~(Reserves(w, t, v) /\ Reserves(work[g], t, v)),
         w.at \in DecisionStage => h \in Approver
  PROVE  VInv' /\ Kinds(rows, event, rows', event')
<1>1. TableInv(rows', event') /\ \A g \in Handler : WorkInv(rows', event', work[g])
  BY DEF VInv
<1>2. WorkInv(rows', event', w)
  OBVIOUS
<1> QED BY <1>1, <1>2, Frame, Unchanging

LEMMA PlainStep ==
  ASSUME VInv, IInv', NEW h \in Handler, NEW w, SetWork(h, w), UNCHANGED <<rows, event>>,
         w.at \notin {"update"} \cup ProposalStage \cup DecisionStage
  PROVE  VInv' /\ Kinds(rows, event, rows', event')
BY PlainWork, OwnStep

(* The SELECT of update_workflow_status.                                   *)
LEMMA SelectV ==
  ASSUME VInv, IInv', NEW h \in Handler, NEW t \in Trade, NEW s \in WorkflowStatus, NEW loaded,
         NEW after, SelectCurrent(h, t, s, loaded, after), UNCHANGED <<rows, event>>
  PROVE  VInv' /\ Kinds(rows, event, rows', event')
<1>1. PICK u \in StatusUpdates(rows, t, s, loaded) :
        SetWork(h, [at |-> "update", trade |-> t, update |-> u, after |-> after])
  BY DEF SelectCurrent
<1> DEFINE w == [at |-> "update", trade |-> t, update |-> u, after |-> after]
<1>2. u.updated \subseteq CurrentVersions(rows, t)
  BY StatusUpdatesType
<1>3. \A v \in u.updated : Settled(rows, t, v)
  BY <1>2, CurrentSettled
<1>4. w.at = "update" /\ w.trade = t /\ w.update = u
  OBVIOUS
<1>5. SetWork(h, w)
  BY <1>1
<1> HIDE DEF w
<1>6. WorkInv(rows, event, w) /\ (\A x, v : ~Reserves(w, x, v)) /\ w.at \notin DecisionStage
  BY <1>3, <1>4 DEF WorkInv, Reserves, ProposalStage, DecisionStage
<1> QED BY <1>5, <1>6, OwnStep

-----------------------------------------------------------------------------
(* Every step is of one of the kinds and preserves the invariant.          *)

LEMMA CheckReadV ==
  ASSUME VInv, IInv', NEW h \in Handler, NEW t \in Trade, NEW at \in {"foRules", "boRules"},
         NEW chain \in BOOLEAN, CheckRead(h, t, at, chain), UNCHANGED <<rows, event>>
  PROVE  VInv' /\ Kinds(rows, event, rows', event')
<1>1. PICK w : SetWork(h, w) /\ w.at \in {"idle", at}
  BY CheckReadStep DEF VInv
<1>2. w.at \notin {"update"} \cup ProposalStage \cup DecisionStage
  BY <1>1 DEF ProposalStage, DecisionStage
<1> QED BY <1>1, <1>2, PlainStep

LEMMA UpdateCommitV ==
  ASSUME VInv, IInv', NEW h \in Handler, UpdateCommit(h)
  PROVE  VInv' /\ Kinds(rows, event, rows', event')
<1> DEFINE w == work[h]
<1>1. w.at = "update" /\ w \in UpdateWork /\ Sound(event, w) /\ WorkInv(rows, event, w)
  BY WorkTyped, WorkByStage DEF UpdateCommit, VInv
<1>2. /\ w.trade \in Trade /\ w.update \in Update /\ w.update.on = {} /\ w.update.off = {}
      /\ \A v \in w.update.updated : Settled(rows, w.trade, v)
  BY <1>1 DEF UpdateWork, Sound, Quiet, WorkInv
<1>3. PICK new : SetWork(h, new) /\ new.at \in {"idle", "maybeBo", "foTriage", "boTriage"}
  BY <1>2, FollowStep DEF UpdateCommit
<1>4. new.at \notin {"update"} \cup ProposalStage \cup DecisionStage
  BY <1>3 DEF ProposalStage, DecisionStage
<1>5. Filled(rows) /\ rows \in TradeTable /\ TableInv(rows, event)
  BY DEF VInv, TableInv, IInv, TypeOK
<1>6. Keeps(rows, rows') /\ event' = event
  <2>1. CASE CanApply(rows, w.trade, w.update)
    <3>1. rows' = Apply(rows, w.trade, w.update) /\ event' = event
      BY <2>1 DEF UpdateCommit
    <3> HIDE DEF w
    <3> QED BY <1>2, <1>5, <3>1, ApplyKeeps
  <2>2. CASE ~CanApply(rows, w.trade, w.update)
    BY <2>2, KeepsRefl DEF UpdateCommit
  <2> QED BY <2>1, <2>2
<1>7. TableInv(rows', event')
  BY <1>5, <1>6, KeepsTable
<1>8. \A g \in Handler \ {h} : WorkInv(rows', event', work[g])
  BY <1>6, WorkTyped, KeepsWork DEF VInv
<1>9. VInv'
  BY <1>3, <1>4, <1>7, <1>8, PlainWork, Frame
<1> QED BY <1>6, <1>9 DEF Kinds

LEMMA RuleV ==
  ASSUME VInv, IInv', RuleNext
  PROVE  VInv' /\ Kinds(rows, event, rows', event')
<1> SUFFICES ASSUME NEW h \in Handler,
                    \/ \E t \in Trade : FoCheckRequest(h, t) \/ BoCheckRequest(h, t)
                    \/ MaybeRunFoCheck(h) \/ MaybeRunBoCheck(h)
                    \/ FoRules(h) \/ BoRules(h) \/ Select(h) \/ UpdateCommit(h)
                    \/ \E key \in TunableKeys : UpdateSetting(h, key)
             PROVE  VInv' /\ Kinds(rows, event, rows', event')
  BY DEF RuleNext
<1> DEFINE w == work[h]
<1>0. /\ w.at \in {"maybeFo", "maybeBo"} => w \in CallWork
      /\ w.at \in {"foRules", "boRules"} => w \in CheckWork
      /\ w.at = "select" => w \in SelectWork
  BY WorkTyped, WorkByStage DEF VInv
<1>a. {"FoValidated", "FoAgentToCheck", "Done", "BoAgentToCheck", "FoCheck", "BoCheck"}
        \subseteq WorkflowStatus
  BY DEF WorkflowStatus
<1>1. ASSUME NEW t \in Trade, FoCheckRequest(h, t) \/ BoCheckRequest(h, t)
      PROVE  VInv' /\ Kinds(rows, event, rows', event')
  <2>1. UNCHANGED <<rows, event>>
    BY <1>1 DEF FoCheckRequest, BoCheckRequest
  <2>2. CheckRead(h, t, "foRules", TRUE) \/ CheckRead(h, t, "boRules", FALSE)
    BY <1>1 DEF FoCheckRequest, BoCheckRequest
  <2> QED BY <2>1, <2>2, CheckReadV
<1>2. CASE MaybeRunFoCheck(h)
  <2>1. UNCHANGED <<rows, event>> /\ w.trade \in Trade
    BY <1>0, <1>2 DEF MaybeRunFoCheck, CallWork
  <2>2. CheckRead(h, w.trade, "foRules", TRUE) \/ SelectCurrent(h, w.trade, "FoCheck", {}, "end")
    BY <1>2 DEF MaybeRunFoCheck
  <2> HIDE DEF w
  <2> QED BY <1>a, <2>1, <2>2, CheckReadV, SelectV
<1>3. CASE MaybeRunBoCheck(h)
  <2>1. UNCHANGED <<rows, event>> /\ w.trade \in Trade
    BY <1>0, <1>3 DEF MaybeRunBoCheck, CallWork
  <2>2. CheckRead(h, w.trade, "boRules", FALSE) \/ SelectCurrent(h, w.trade, "BoCheck", {}, "end")
    BY <1>3 DEF MaybeRunBoCheck
  <2> HIDE DEF w
  <2> QED BY <1>a, <2>1, <2>2, CheckReadV, SelectV
<1>4. CASE FoRules(h)
  <2>1. UNCHANGED <<rows, event>> /\ w.trade \in Trade
    BY <1>0, <1>4 DEF FoRules, CheckWork
  <2>2. \/ SelectCurrent(h, w.trade, "FoValidated", w.loaded, IF w.chain THEN "chain" ELSE "end")
        \/ SelectCurrent(h, w.trade, "FoAgentToCheck", w.loaded, "foFailed")
    BY <1>4 DEF FoRules
  <2> HIDE DEF w
  <2> QED BY <1>a, <2>1, <2>2, SelectV
<1>5. CASE BoRules(h)
  <2>1. UNCHANGED <<rows, event>> /\ w.trade \in Trade
    BY <1>0, <1>5 DEF BoRules, CheckWork
  <2>2. \/ SelectCurrent(h, w.trade, "Done", w.loaded, "end")
        \/ SelectCurrent(h, w.trade, "BoAgentToCheck", w.loaded, "boFailed")
    BY <1>5 DEF BoRules
  <2> HIDE DEF w
  <2> QED BY <1>a, <2>1, <2>2, SelectV
<1>6. CASE Select(h)
  <2>1. UNCHANGED <<rows, event>> /\ w.trade \in Trade /\ w.status \in WorkflowStatus
    BY <1>0, <1>6 DEF Select, SelectWork
  <2>2. SelectCurrent(h, w.trade, w.status, w.loaded, w.after)
    BY <1>6 DEF Select
  <2> HIDE DEF w
  <2> QED BY <2>1, <2>2, SelectV
<1>7. ASSUME NEW key \in TunableKeys, UpdateSetting(h, key)
      PROVE  VInv' /\ Kinds(rows, event, rows', event')
  <2>1. UNCHANGED <<rows, event, work>>
    BY <1>7 DEF UpdateSetting
  <2>2. Apart' /\ ByApprovers'
    BY <2>1 DEF VInv, Apart, ByApprovers
  <2>3. TableInv(rows', event') /\ \A g \in Handler : WorkInv(rows', event', work'[g])
    BY <2>1 DEF VInv
  <2>4. VInv'
    BY <2>2, <2>3 DEF VInv
  <2> QED BY <2>1, <2>4, Unchanging
<1> QED BY <1>1, <1>2, <1>3, <1>4, <1>5, <1>6, <1>7, UpdateCommitV

(* The SELECT that begins a proposal.                                      *)
LEMMA StartProposalV ==
  ASSUME VInv, IInv', NEW h \in Handler, NEW t \in Trade, NEW type \in EventType,
         NEW at \in {"guard", "number", "mark"}, NEW after \in {"end", "foTriage"},
         StartProposal(h, t, type, at, after),
         at # "guard" => (at = "number" <=> type = "AMEND"),
         UNCHANGED <<rows, event>>
  PROVE  VInv' /\ Kinds(rows, event, rows', event')
<1>1. PICK w : /\ SetWork(h, w) /\ w.at = at /\ w.trade = t /\ w.type = type
               /\ w.from \in CurrentVersions(rows, t)
  BY StartProposalStep DEF VInv
<1>2. WorkInv(rows, event, w) /\ (\A x, v : ~Reserves(w, x, v)) /\ w.at \notin DecisionStage
  BY <1>1 DEF WorkInv, HasCurrent, Reserves, ProposalStage, DecisionStage
<1> QED BY <1>1, <1>2, OwnStep

(* The guard of a user's request.                                          *)
LEMMA CheckPendingV ==
  ASSUME VInv, IInv', NEW h \in Handler, CheckPending(h)
  PROVE  VInv' /\ Kinds(rows, event, rows', event')
<1>1. work[h].at = "guard" /\ WorkInv(rows, event, work[h]) /\ UNCHANGED <<rows, event>>
  BY DEF CheckPending, VInv
<1>2. HasCurrent(rows, work[h].trade)
  BY <1>1 DEF WorkInv, ProposalStage
<1>3. PICK w : /\ SetWork(h, w)
               /\ \/ w = Idle
                  \/ /\ w \in ProposalWork /\ w.trade = work[h].trade
                     /\ w.type = work[h].type
                     /\ w.at = IF w.type = "AMEND" THEN "number" ELSE "mark"
  BY CheckPendingStep DEF VInv
<1>4. CASE w = Idle
  BY <1>1, <1>3, <1>4, PlainStep DEF Idle, ProposalStage, DecisionStage
<1>5. CASE w # Idle
  <2>1. WorkInv(rows, event, w) /\ (\A x, v : ~Reserves(w, x, v)) /\ w.at \notin DecisionStage
    BY <1>2, <1>3, <1>5 DEF WorkInv, Reserves, ProposalStage, DecisionStage
  <2> QED BY <1>1, <1>3, <2>1, OwnStep
<1> QED BY <1>4, <1>5

LEMMA ProposalCommitV ==
  ASSUME VInv, IInv', NEW h \in Handler, NEW e \in Event, ProposalCommit(h, e)
  PROVE  VInv' /\ Kinds(rows, event, rows', event')
<1> DEFINE w == work[h]
           base == IF w.type = "AMEND" THEN InsertVersion(rows, w.trade, w.to) ELSE rows
<1>1. w.at = "create" /\ w \in ProposalWork /\ Sound(event, w) /\ WorkInv(rows, event, w)
  BY WorkTyped, WorkByStage DEF ProposalCommit, VInv
<1>2. /\ w.trade \in Trade /\ w.type \in EventType /\ w.from \in Version /\ w.to \in Version
      /\ w.update \in Update /\ w.update.on = {} /\ w.update.off = {}
      /\ \A v \in w.update.updated : Settled(rows, w.trade, v)
      /\ HasCurrent(rows, w.trade)
      /\ w.type = "AMEND" => NextTo(rows, w.trade, w.to) /\ ~Exists(rows, w.trade, w.to)
  BY <1>1 DEF ProposalWork, Sound, Quiet, WorkInv, ProposalStage
<1>3. /\ rows' = Apply(base, w.trade, w.update)
      /\ CreateEvent(e, w.trade, w.type, w.from, w.to)
      /\ EndProposal(h)
  BY DEF ProposalCommit
<1>4. /\ TableInv(rows, event) /\ rows \in TradeTable /\ event \in EventTable
      /\ \A g \in Handler : WorkInv(rows, event, work[g]) /\ work[g] \in AnyWork
  BY WorkTyped DEF VInv, IInv, TypeOK
<1>5. Proposed(rows, event, base, event', e)
  <2> DEFINE r == [trade |-> w.trade, type |-> w.type, from |-> w.from, to |-> w.to,
                   status |-> "FoUserToValidate"]
  <2>1. event' = [event EXCEPT ![e] = r] /\ event[e].status = "None"
    BY <1>3 DEF CreateEvent
  <2>2. event'[e] = r
    BY <1>4, <2>1 DEF EventTable
  <2>3. /\ r \in EventRow /\ r.status = "FoUserToValidate" /\ r.trade = w.trade
        /\ r.type = w.type /\ r.to = w.to
    BY <1>2 DEF EventRow, EventStatus
  <2> HIDE DEF r, w
  <2> QED BY <1>2, <2>1, <2>2, <2>3 DEF Proposed
<1>6. base \in TradeTable /\ CurrentVersions(base, w.trade) = CurrentVersions(rows, w.trade)
  <2>1. CASE w.type = "AMEND"
    <3>1. /\ base \in TradeTable /\ ~base[w.trade][w.to].current
          /\ \A v \in Version : v # w.to => base[w.trade][v] = rows[w.trade][v]
      BY <1>2, <1>4, <2>1, InsertVersionType
    <3>2. ~rows[w.trade][w.to].current
      BY <1>2, <1>4, <2>1, ExistsIsRow
    <3> QED BY <3>1, <3>2 DEF CurrentVersions
  <2>2. CASE w.type # "AMEND"
    BY <1>4, <2>2
  <2> QED BY <2>1, <2>2
<1> HIDE DEF base
<1>7. TableInv(base, event')
  BY <1>4, <1>5, ProposedTable
<1>8. \A g \in Handler \ {h} : WorkInv(base, event', work[g])
  <2> SUFFICES ASSUME NEW g \in Handler \ {h} PROVE WorkInv(base, event', work[g])
    OBVIOUS
  <2>1. event'[e].trade = w.trade /\ event'[e].to = w.to /\ event'[e].type = w.type
    BY <1>3, <1>4 DEF CreateEvent, EventTable
  <2>2. w.type = "AMEND" => Reserves(w, w.trade, w.to)
    BY <1>1 DEF Reserves
  <2>3. w.type = "AMEND" => ~Reserves(work[g], w.trade, w.to)
    BY <1>2, <2>2 DEF VInv, Apart
  <2> HIDE DEF w
  <2> QED BY <1>4, <1>5, <2>1, <2>3, ProposedWork
<1>9. Keeps(base, rows')
  <2>1. \A v \in w.update.updated : Settled(base, w.trade, v)
    BY <1>2, <1>6, SameCurrent
  <2>2. Filled(base)
    BY <1>7 DEF TableInv
  <2> HIDE DEF w
  <2> QED BY <1>2, <1>3, <1>6, <2>1, <2>2, ApplyKeeps
<1>10. TableInv(rows', event')
  BY <1>7, <1>9, KeepsTable
<1>11. \A g \in Handler \ {h} : WorkInv(rows', event', work[g])
  BY <1>4, <1>8, <1>9, KeepsWork
<1>12. PICK new : SetWork(h, new) /\ new.at \in {"idle", "maybeBo", "foTriage", "boTriage"}
  BY <1>1, <1>3, EndProposalStep DEF VInv
<1>13. new.at \notin {"update"} \cup ProposalStage \cup DecisionStage
  BY <1>12 DEF ProposalStage, DecisionStage
<1>14. VInv'
  BY <1>10, <1>11, <1>12, <1>13, PlainWork, Frame
<1> QED BY <1>5, <1>6, <1>9, <1>14 DEF Kinds

LEMMA ProposalV ==
  ASSUME VInv, IInv', ProposalNext
  PROVE  VInv' /\ Kinds(rows, event, rows', event')
<1> SUFFICES ASSUME NEW h \in Handler,
                    \/ NumberVersion(h) \/ InsertPending(h) \/ MarkPending(h)
                    \/ \E e \in Event : ProposalCommit(h, e)
                    \/ ProposalFails(h)
             PROVE  VInv' /\ Kinds(rows, event, rows', event')
  BY DEF ProposalNext
<1> DEFINE w == work[h]
<1>0. IInv /\ WorkInv(rows, event, w) /\ TableInv(rows, event)
      /\ (w.at \in ProposalStage => w \in ProposalWork)
  BY WorkTyped, WorkByStage DEF VInv, ProposalStage
<1>1. CASE NumberVersion(h)
  <2>1. /\ work'[h].at = "insert" /\ work'[h].trade = w.trade /\ work'[h].type = w.type
        /\ NextTo(rows, w.trade, work'[h].to) /\ SetWork(h, work'[h])
    BY <1>0, <1>1, NumberVersionStep DEF NextTo
  <2>2. w.type = "AMEND" /\ HasCurrent(rows, w.trade) /\ UNCHANGED <<rows, event>>
    BY <1>0, <1>1 DEF NumberVersion, WorkInv, ProposalStage
  <2>3. \E new : /\ SetWork(h, new) /\ new.at = "insert" /\ new.trade = w.trade
                 /\ new.type = "AMEND" /\ NextTo(rows, w.trade, new.to)
    BY <2>1, <2>2
  <2>4. PICK new : /\ SetWork(h, new) /\ new.at = "insert" /\ new.trade = w.trade
                   /\ new.type = "AMEND" /\ NextTo(rows, w.trade, new.to)
    BY <2>3
  <2>5. WorkInv(rows, event, new) /\ (\A x, v : ~Reserves(new, x, v)) /\ new.at \notin DecisionStage
    BY <2>2, <2>4 DEF WorkInv, Reserves, ProposalStage, DecisionStage
  <2> QED BY <2>2, <2>4, <2>5, OwnStep
<1>2. CASE InsertPending(h)
  <2>1. /\ work'[h].at = "mark" /\ work'[h].trade = w.trade /\ work'[h].type = w.type
        /\ work'[h].to = w.to /\ SetWork(h, work'[h])
    BY <1>0, <1>2, InsertPendingStep
  <2>2. PICK new : /\ SetWork(h, new) /\ new.at = "mark" /\ new.trade = w.trade
                   /\ new.type = w.type /\ new.to = w.to
    BY <2>1
  <2>3. /\ w.at = "insert" /\ ~Exists(rows, w.trade, w.to) /\ UNCHANGED <<rows, event>>
        /\ \A g \in Handler : ~Reserves(work[g], w.trade, w.to)
    BY <1>2 DEF InsertPending
  <2>4. w.trade \in Trade /\ w.to \in Version
    BY <1>0, <2>3 DEF ProposalWork, ProposalStage
  <2>5. w.type = "AMEND" /\ HasCurrent(rows, w.trade) /\ NextTo(rows, w.trade, w.to)
    BY <1>0, <2>3, <2>4 DEF WorkInv, TableInv, Filled, ProposalStage
  <2>6. WorkInv(rows, event, new) /\ new.at \notin DecisionStage
    BY <2>2, <2>3, <2>5 DEF WorkInv, ProposalStage, DecisionStage
  <2>7. \A x, v : Reserves(new, x, v) => x = w.trade /\ v = w.to
    BY <2>2 DEF Reserves
  <2> HIDE DEF w
  <2> QED BY <2>2, <2>3, <2>6, <2>7, OwnStep
<1>3. CASE MarkPending(h)
  <2>1. /\ work'[h].at = "create" /\ work'[h].trade = w.trade /\ work'[h].type = w.type
        /\ work'[h].to = w.to /\ SetWork(h, work'[h])
        /\ work'[h].update.updated \subseteq CurrentVersions(rows, w.trade)
    BY <1>0, <1>3, MarkPendingStep
  <2>2. PICK new : /\ SetWork(h, new) /\ new.at = "create" /\ new.trade = w.trade
                   /\ new.type = w.type /\ new.to = w.to
                   /\ new.update.updated \subseteq CurrentVersions(rows, w.trade)
    BY <2>1
  <2>3. w.at = "mark" /\ UNCHANGED <<rows, event>>
    BY <1>3 DEF MarkPending
  <2>4. \A v \in new.update.updated : Settled(rows, w.trade, v)
    BY <2>2, CurrentSettled
  <2>5. WorkInv(rows, event, new) /\ new.at \notin DecisionStage
    BY <1>0, <2>2, <2>3, <2>4 DEF WorkInv, ProposalStage, DecisionStage
  <2>6. \A x, v : Reserves(new, x, v) => Reserves(w, x, v)
    BY <2>2, <2>3 DEF Reserves
  <2>7. \A g \in Handler \ {h}, t \in Trade, v \in Version :
          ~(Reserves(new, t, v) /\ Reserves(work[g], t, v))
    BY <2>6 DEF VInv, Apart
  <2> QED BY <2>2, <2>3, <2>5, <2>7, OwnStep
<1>4. CASE ProposalFails(h)
  <2>1. work[h] \in ProposalWork /\ EndProposal(h) /\ UNCHANGED <<rows, event>>
    BY <1>0, <1>4 DEF ProposalFails, ProposalStage
  <2>2. PICK new : SetWork(h, new) /\ new.at \in {"idle", "maybeBo", "foTriage", "boTriage"}
    BY <1>0, <2>1, EndProposalStep
  <2>3. new.at \notin {"update"} \cup ProposalStage \cup DecisionStage
    BY <2>2 DEF ProposalStage, DecisionStage
  <2> QED BY <2>1, <2>2, <2>3, PlainStep
<1> QED BY <1>1, <1>2, <1>3, <1>4, ProposalCommitV

LEMMA AgentV ==
  ASSUME VInv, IInv', AgentNext
  PROVE  VInv' /\ Kinds(rows, event, rows', event')
<1> SUFFICES ASSUME NEW h \in Handler,
                    \/ ImmediateTool(h) \/ AgentStops(h)
                    \/ \E t \in Trade : \/ TriageRequest(h, t) \/ SendBackToFo(h, t)
                                        \/ CreateAmendEvent(h, t) \/ CreateCancelEvent(h, t)
             PROVE  VInv' /\ Kinds(rows, event, rows', event')
  BY DEF AgentNext
<1>1. CASE ImmediateTool(h)
  <2>1. /\ work[h].at \in {"foTriage", "boTriage"} /\ work[h].trade \in Trade
        /\ UNCHANGED <<rows, event>>
    BY <1>1, WorkTyped, WorkByStage DEF ImmediateTool, CallWork, VInv
  <2>2. PICK s \in ImmediateStatus(work[h].at) :
          SelectCurrent(h, work[h].trade, s, {}, work[h].at)
    BY <1>1 DEF ImmediateTool
  <2>3. s \in WorkflowStatus
    BY <2>1 DEF ImmediateStatus, WorkflowStatus
  <2> QED BY <2>1, <2>2, <2>3, SelectV
<1>2. CASE AgentStops(h)
  <2>1. Idle.at \notin {"update"} \cup ProposalStage \cup DecisionStage
    BY DEF Idle, ProposalStage, DecisionStage
  <2> QED BY <1>2, <2>1, PlainStep DEF AgentStops
<1>3. ASSUME NEW t \in Trade, TriageRequest(h, t)
      PROVE  VInv' /\ Kinds(rows, event, rows', event')
  <2>1. PICK at \in {"foTriage", "boTriage"} : SetWork(h, Call(at, t))
    BY <1>3 DEF TriageRequest
  <2>2. Call(at, t).at \notin {"update"} \cup ProposalStage \cup DecisionStage
    BY DEF Call, ProposalStage, DecisionStage
  <2> QED BY <1>3, <2>1, <2>2, PlainStep DEF TriageRequest
<1>4. ASSUME NEW t \in Trade, SendBackToFo(h, t)
      PROVE  VInv' /\ Kinds(rows, event, rows', event')
  <2>1. PICK w : SetWork(h, w) /\ w.at = "select"
    BY <1>4 DEF SendBackToFo
  <2>2. w.at \notin {"update"} \cup ProposalStage \cup DecisionStage
    BY <2>1 DEF ProposalStage, DecisionStage
  <2> QED BY <1>4, <2>1, <2>2, PlainStep DEF SendBackToFo
<1>5. ASSUME NEW t \in Trade, CreateAmendEvent(h, t) \/ CreateCancelEvent(h, t)
      PROVE  VInv' /\ Kinds(rows, event, rows', event')
  <2>1. /\ UNCHANGED <<rows, event>>
        /\ \E type \in EventType, at \in {"number", "mark"} :
             /\ StartProposal(h, t, type, at, "foTriage")
             /\ at = "number" <=> type = "AMEND"
    BY <1>5 DEF CreateAmendEvent, CreateCancelEvent, EventType
  <2> QED BY <2>1, StartProposalV
<1> QED BY <1>1, <1>2, <1>3, <1>4, <1>5

(* What a decision at work on a trade's event knows.                       *)
LEMMA DecisionKnows ==
  ASSUME VInv, NEW h \in Handler, work[h].at \in DecisionStage
  PROVE  LET d == event[work[h].event] IN
         /\ IInv /\ TableInv(rows, event) /\ Unique(rows) /\ h \in Approver
         /\ work[h] \in DecisionWork /\ work[h].event \in Event
         /\ d \in EventRow /\ d.trade \in Trade /\ d.to \in Version
         /\ d.type \in EventType /\ d.status \in InFlightStatus
         /\ DecisionInv(rows, event, work[h])
         /\ d.type = "AMEND" => NextTo(rows, d.trade, d.to) /\ Waits(rows, d.trade, d.to)
<1> DEFINE d == event[work[h].event]
<1>1. /\ IInv /\ TableInv(rows, event) /\ h \in Approver /\ DecisionInv(rows, event, work[h])
  BY DEF VInv, ByApprovers, WorkInv
<1>2. /\ work[h] \in DecisionWork /\ work[h].event \in Event
      /\ d \in EventRow /\ d.trade \in Trade /\ d.to \in Version
  BY <1>1, DecisionTyped
<1>3. d.type \in EventType /\ d.status \in InFlightStatus
  BY <1>1, <1>2 DEF EventRow, DecisionInv, InFlightStatus
<1>4. d.type = "AMEND" => Amends(event, work[h].event, d.trade, d.to)
  BY <1>3 DEF Amends
<1>5. d.type = "AMEND" => NextTo(rows, d.trade, d.to) /\ Waits(rows, d.trade, d.to)
  BY <1>1, <1>2, <1>4 DEF TableInv, Ready
<1> QED BY <1>1, <1>2, <1>3, <1>5 DEF TableInv

(* A step of a decision that commits nothing.                              *)
LEMMA DecisionOwnStep ==
  ASSUME VInv, IInv', NEW h \in Approver, NEW w, SetWork(h, w), UNCHANGED <<rows, event>>,
         w.at \in DecisionStage, DecisionInv(rows, event, w)
  PROVE  VInv' /\ Kinds(rows, event, rows', event')
<1>1. h \in Handler
  BY ApproverAssumption
<1>2. WorkInv(rows, event, w) /\ \A t, v : ~Reserves(w, t, v)
  BY DEF WorkInv, Reserves, ProposalStage, DecisionStage
<1> QED BY <1>1, <1>2, OwnStep

LEMMA DecisionStartV ==
  ASSUME VInv, IInv', NEW h \in Approver, NEW e \in Event, NEW approved \in BOOLEAN,
         FoApproveRequest(h, e, approved) \/ BoApproveRequest(h, e, approved)
  PROVE  VInv' /\ Kinds(rows, event, rows', event')
<1>1. h \in Handler /\ IInv
  BY ApproverAssumption DEF VInv
<1>2. PICK w : /\ SetWork(h, w) /\ UNCHANGED <<rows, event>>
               /\ w.at = "decide" /\ w.event = e /\ event[e] \in EventRow
               /\ \/ /\ event[e].status = "FoUserToValidate"
                     /\ w.outcome \in {"FoValidated", "Cancelled"}
                  \/ /\ event[e].status = "FoValidated"
                     /\ w.outcome \in {"Done", "Cancelled"}
  BY <1>1, DecisionStart
<1>3. DecisionInv(rows, event, w) /\ w.at \in DecisionStage
  BY <1>2 DEF DecisionInv, DecisionStage
<1> QED BY <1>2, <1>3, DecisionOwnStep

LEMMA DecideV ==
  ASSUME VInv, IInv', NEW h \in Approver,
         \/ DecideEventOnly(h) \/ RejectAmendment(h) \/ ResetCurrent(h)
         \/ ApproveAmendment(h) \/ ApproveCancellation(h)
  PROVE  VInv' /\ Kinds(rows, event, rows', event')
<1> DEFINE w == work[h]
           d == event[w.event]
<1>1. /\ h \in Handler /\ UNCHANGED <<rows, event>> /\ w.at \in DecisionStage
  BY ApproverAssumption DEF DecideEventOnly, RejectAmendment, ResetCurrent, ApproveAmendment,
     ApproveCancellation, Decides, DecisionStage
<1>2. /\ IInv /\ Unique(rows) /\ DecisionInv(rows, event, w)
      /\ d.trade \in Trade /\ d.to \in Version /\ d.type \in EventType
      /\ d.type = "AMEND" => NextTo(rows, d.trade, d.to) /\ Waits(rows, d.trade, d.to)
  BY <1>1, DecisionKnows
<1>3. NoUpdate.on = {} /\ NoUpdate.off = {} /\ NoUpdate.updated = {}
  BY NoUpdateType
<1>4. CASE DecideEventOnly(h)
  <2>1. PICK new : /\ SetWork(h, new) /\ new.at = "decided" /\ new.event = w.event
                   /\ new.outcome = w.outcome /\ new.dropped = {} /\ new.update = NoUpdate
    BY <1>1, <1>2, <1>4, DecideEventOnlyStep
  <2>2. w.outcome = "FoValidated" \/ (w.outcome = "Cancelled" /\ d.type = "CANCEL")
    BY <1>4 DEF DecideEventOnly
  <2>3. ~Removes(event, new) /\ ~Activates(event, new)
    BY <2>1, <2>2 DEF Removes, Activates
  <2>4. DecisionInv(rows, event, new) /\ new.at \in DecisionStage
    BY <1>2, <1>3, <2>1, <2>3 DEF DecisionInv, DecisionStage
  <2> QED BY <1>1, <2>1, <2>4, DecisionOwnStep
<1>5. CASE RejectAmendment(h)
  <2>1. PICK new : /\ SetWork(h, new) /\ new.at = "reset" /\ new.event = w.event
                   /\ new.outcome = w.outcome /\ new.dropped = Deletable(d.trade, d.to)
    BY <1>1, <1>2, <1>5, RejectAmendmentStep
  <2>2. w.outcome = "Cancelled" /\ d.type = "AMEND"
    BY <1>5 DEF RejectAmendment
  <2>3. Removes(event, new) /\ ~Activates(event, new)
    BY <2>1, <2>2 DEF Removes, Activates
  <2>4. Deletable(d.trade, d.to) = {d.to}
    BY <1>2, <2>2, WaitsMeans DEF Deletable
  <2>5. DecisionInv(rows, event, new) /\ new.at \in DecisionStage
    BY <1>2, <2>1, <2>3, <2>4 DEF DecisionInv, DecisionStage
  <2> QED BY <1>1, <2>1, <2>5, DecisionOwnStep
<1>6. CASE ResetCurrent(h)
  <2>1. PICK new : /\ SetWork(h, new) /\ new.at = "decided" /\ new.event = w.event
                   /\ new.outcome = w.outcome /\ new.dropped = w.dropped
                   /\ new.update.on = {} /\ new.update.off = {}
                   /\ new.update.updated \subseteq CurrentVersions(rows, d.trade)
    BY <1>1, <1>2, <1>6, ResetCurrentStep
  <2>2. w.at = "reset"
    BY <1>6 DEF ResetCurrent
  <2>3. Removes(event, w) /\ w.dropped = {d.to}
    BY <1>2, <2>2 DEF DecisionInv
  <2>4. Removes(event, new) /\ ~Activates(event, new)
    BY <2>1, <2>3 DEF Removes, Activates
  <2>5. \A v \in new.update.updated : Settled(rows, d.trade, v)
    BY <2>1, CurrentSettled
  <2>6. DecisionInv(rows, event, new) /\ new.at \in DecisionStage
    BY <1>2, <2>1, <2>3, <2>4, <2>5 DEF DecisionInv, DecisionStage
  <2> QED BY <1>1, <2>1, <2>6, DecisionOwnStep
<1>7. CASE ApproveAmendment(h)
  <2>1. PICK new : /\ SetWork(h, new) /\ new.at = "decided" /\ new.event = w.event
                   /\ new.outcome = w.outcome /\ new.dropped = {}
                   /\ new.update = ActivateAmended(d.trade, d.to)
    BY <1>1, <1>2, <1>7, ApproveAmendmentStep
  <2>2. w.outcome = "Done" /\ d.type = "AMEND"
    BY <1>7 DEF ApproveAmendment
  <2>3. Activates(event, new) /\ ~Removes(event, new)
    BY <2>1, <2>2 DEF Removes, Activates
  <2> DEFINE found == {v \in Version : Exists(rows, d.trade, v)}
  <2>4. /\ new.update.updated = found
        /\ new.update.on = {v \in found : v = d.to /\ ~rows[d.trade][v].current}
        /\ new.update.off = {v \in found : v # d.to /\ rows[d.trade][v].current}
    <3> HIDE DEF d
    <3> QED BY <1>2, <2>1, ActivateAmendedType
  <2>5. Exists(rows, d.trade, d.to) /\ ~rows[d.trade][d.to].current
    BY <1>2, <2>2, WaitsMeans
  <2>6. \A v \in Version : rows[d.trade][v].current => Exists(rows, d.trade, v)
    BY <1>2, ExistsIsRow DEF IInv, TypeOK
  <2>7. new.update.on = {d.to} /\ new.update.on \subseteq found
    BY <1>2, <2>4, <2>5
  <2>8. new.update.off = CurrentVersions(rows, d.trade) /\ new.update.off \subseteq found
    BY <2>4, <2>5, <2>6 DEF CurrentVersions
  <2>9. DecisionInv(rows, event, new) /\ new.at \in DecisionStage
    BY <1>2, <2>1, <2>3, <2>4, <2>7, <2>8 DEF DecisionInv, DecisionStage
  <2> QED BY <1>1, <2>1, <2>9, DecisionOwnStep
<1>8. CASE ApproveCancellation(h)
  <2>1. PICK new : /\ SetWork(h, new) /\ new.at = "decided" /\ new.event = w.event
                   /\ new.outcome = w.outcome /\ new.dropped = {}
                   /\ new.update.on = {} /\ new.update.off = {}
                   /\ new.update.updated \subseteq CurrentVersions(rows, d.trade)
    BY <1>1, <1>2, <1>8, ApproveCancellationStep
  <2>2. d.type # "AMEND"
    BY <1>8 DEF ApproveCancellation
  <2>3. ~Activates(event, new) /\ ~Removes(event, new)
    BY <2>1, <2>2 DEF Removes, Activates
  <2>4. \A v \in new.update.updated : Settled(rows, d.trade, v)
    BY <2>1, CurrentSettled
  <2>5. DecisionInv(rows, event, new) /\ new.at \in DecisionStage
    BY <1>2, <2>1, <2>3, <2>4 DEF DecisionInv, DecisionStage
  <2> QED BY <1>1, <2>1, <2>5, DecisionOwnStep
<1> QED BY <1>4, <1>5, <1>6, <1>7, <1>8

(* The flush of an approved amendment puts its version in force.           *)
LEMMA ApplyActivates ==
  ASSUME NEW tb \in TradeTable, NEW t \in Trade, NEW to \in Version, NEW u \in Update,
         Unique(tb), NextTo(tb, t, to), CanApply(tb, t, u),
         u.on = {to}, u.off = CurrentVersions(tb, t), u.on \cup u.off \subseteq u.updated
  PROVE  Activated(tb, Apply(tb, t, u), t, to) /\ Apply(tb, t, u) \in TradeTable
<1> DEFINE new == Apply(tb, t, u)
<1>1. \A x \in Trade, v \in Version :
        new[x][v] = IF x = t /\ v \in u.updated THEN Written(tb[t][v], v, u) ELSE tb[x][v]
  BY DEF Apply, TradeTable
<1>2. new \in TradeTable
  BY ApplyType
<1>3. \A x \in Trade \ {t} : new[x] = tb[x]
  BY DEF Apply, TradeTable
<1> HIDE DEF new
<1>4. u.status \in WorkflowStatus /\ "None" \notin WorkflowStatus
  BY DEF Update, WorkflowStatus
<1>5. to \notin CurrentVersions(tb, t)
  <2>1. PICK c \in CurrentVersions(tb, t) : to = c + 1
    BY DEF NextTo
  <2>2. c \in Nat /\ CurrentVersions(tb, t) = {c}
    BY <2>1, SettledMeans
  <2> QED BY <2>1, <2>2
<1>6. ASSUME NEW v \in Version
      PROVE  (new[t][v].current <=> v = to) /\ (Exists(new, t, v) <=> Exists(tb, t, v))
  <2>1. CASE v \in u.updated
    <3>1. Exists(tb, t, v)
      BY <2>1 DEF CanApply
    <3>2. new[t][v] = Written(tb[t][v], v, u)
      BY <1>1, <2>1
    <3>3. /\ Written(tb[t][v], v, u).current = ((tb[t][v].current \/ v \in u.on) /\ v \notin u.off)
          /\ Written(tb[t][v], v, u).status
               = IF v \in u.restatus THEN u.status ELSE tb[t][v].status
      BY DEF Written
    <3>4. tb[t][v].current <=> v \in u.off
      BY DEF CurrentVersions
    <3>5. new[t][v].current <=> v = to
      BY <1>5, <3>2, <3>3, <3>4
    <3>6. new[t][v].status # "None"
      BY <1>4, <3>1, <3>2, <3>3 DEF Exists
    <3> QED BY <3>1, <3>5, <3>6 DEF Exists
  <2>2. CASE v \notin u.updated
    <3>1. new[t][v] = tb[t][v]
      BY <1>1, <2>2
    <3>2. v # to /\ ~tb[t][v].current
      BY <2>2 DEF CurrentVersions
    <3> QED BY <3>1, <3>2 DEF Exists
  <2> QED BY <2>1, <2>2
<1> QED BY <1>2, <1>3, <1>6 DEF Activated, new

(* What the commit of a decision does to the two tables.                   *)
LEMMA DecisionCommits ==
  ASSUME VInv, NEW h \in Handler, DecisionCommit(h),
         CanApply(rows, event[work[h].event].trade, work[h].update)
  PROVE  \E base \in TradeTable :
           Decided(rows, event, base, event', work[h].event) /\ Keeps(base, rows')
<1> DEFINE w == work[h]
           d == event[w.event]
           old == DeleteVersions(rows, d.trade, w.dropped)
<1>1. w.at = "decided"
  BY DEF DecisionCommit
<1>2. /\ TableInv(rows, event) /\ Unique(rows) /\ Filled(rows) /\ rows \in TradeTable
      /\ event \in EventTable /\ w.event \in Event /\ d \in EventRow /\ d.trade \in Trade
      /\ d.to \in Version /\ w \in DecisionWork /\ DecisionInv(rows, event, w)
      /\ d.type = "AMEND" => NextTo(rows, d.trade, d.to) /\ Waits(rows, d.trade, d.to)
  BY <1>1, DecisionKnows DEF DecisionStage, TableInv, IInv, TypeOK
<1>3. rows' = Apply(old, d.trade, w.update) /\ SetEventStatus(w.event, w.outcome)
  BY DEF DecisionCommit
<1>4. w.update \in Update /\ w.dropped = IF Removes(event, w) THEN {d.to} ELSE {}
  BY <1>1, <1>2 DEF DecisionWork, DecisionInv
<1>5. /\ w.outcome \in {"FoValidated", "Cancelled", "Done"}
      /\ event' = [event EXCEPT ![w.event].status = w.outcome]
      /\ \/ d.status = "FoUserToValidate" /\ w.outcome \in {"FoValidated", "Cancelled"}
         \/ d.status = "FoValidated" /\ w.outcome \in {"Done", "Cancelled"}
  BY <1>2, <1>3 DEF DecisionInv, SetEventStatus
<1>6. ~Removes(event, w) => old = rows
  BY <1>2, <1>4 DEF DeleteVersions, TradeTable
<1>7. CASE Activates(event, w)
  <2>1. d.type = "AMEND" /\ w.outcome = "Done" /\ ~Removes(event, w)
    BY <1>7 DEF Activates, Removes
  <2>2. /\ w.update.on = {d.to} /\ w.update.off = CurrentVersions(rows, d.trade)
        /\ w.update.on \cup w.update.off \subseteq w.update.updated
    BY <1>1, <1>2, <1>7 DEF DecisionInv
  <2>3. rows' = Apply(rows, d.trade, w.update)
    BY <1>3, <1>6, <2>1
  <2> HIDE DEF w, d
  <2>4. CanApply(rows, d.trade, w.update)
    BY DEF w, d
  <2>5. Activated(rows, rows', d.trade, d.to) /\ rows' \in TradeTable
    BY <1>2, <1>4, <2>1, <2>2, <2>3, <2>4, ApplyActivates
  <2>6. Decided(rows, event, rows', event', w.event)
    BY <1>2, <1>5, <2>1, <2>5 DEF Decided, d
  <2> QED BY <2>5, <2>6, KeepsRefl DEF w
<1>8. CASE Removes(event, w)
  <2>1. d.type = "AMEND" /\ w.outcome = "Cancelled" /\ ~Activates(event, w)
    BY <1>8 DEF Activates, Removes
  <2>2. w.update.on = {} /\ w.update.off = {} /\ \A v \in w.update.updated : Settled(rows, d.trade, v)
    BY <1>1, <1>2, <2>1 DEF DecisionInv
  <2>3. old = DeleteVersions(rows, d.trade, {d.to})
    BY <1>4, <1>8
  <2> HIDE DEF old
  <2>4. Decided(rows, event, old, event', w.event)
    BY <1>2, <1>5, <2>1, <2>3 DEF Decided
  <2> HIDE DEF w
  <2>5. /\ old \in TradeTable
        /\ CurrentVersions(old, d.trade) = CurrentVersions(rows, d.trade) \ {d.to}
    <3> HIDE DEF d
    <3> QED BY <1>2, <2>3, DeletedNotCurrent
  <2>6. d.to \notin CurrentVersions(rows, d.trade)
    BY <1>2, <2>1, WaitsMeans DEF CurrentVersions
  <2>7. CurrentVersions(old, d.trade) = CurrentVersions(rows, d.trade)
    BY <2>5, <2>6
  <2>8. \A v \in w.update.updated : Settled(old, d.trade, v)
    BY <2>2, <2>7 DEF Settled
  <2>9. Filled(old)
    <3>1. TableInv(old, event')
      BY <1>2, <2>4, DecidedTable DEF w
    <3> QED BY <3>1 DEF TableInv
  <2>10. Keeps(old, rows')
    <3> HIDE DEF d
    <3> QED BY <1>2, <1>3, <1>4, <2>2, <2>5, <2>8, <2>9, ApplyKeeps
  <2> QED BY <2>4, <2>5, <2>10 DEF w
<1>9. CASE ~Activates(event, w) /\ ~Removes(event, w)
  <2>1. w.update.on = {} /\ w.update.off = {} /\ \A v \in w.update.updated : Settled(rows, d.trade, v)
    BY <1>1, <1>2, <1>9 DEF DecisionInv
  <2>2. d.type # "AMEND" \/ w.outcome = "FoValidated"
    BY <1>5, <1>9 DEF Activates, Removes
  <2>3. Decided(rows, event, rows, event', w.event)
    BY <1>2, <1>5, <2>2 DEF Decided
  <2>4. rows' = Apply(rows, d.trade, w.update)
    BY <1>3, <1>6, <1>9
  <2> HIDE DEF w, d
  <2>5. Keeps(rows, rows')
    BY <1>2, <1>4, <2>1, <2>4, ApplyKeeps
  <2> QED BY <1>2, <2>3, <2>5 DEF w
<1> QED BY <1>7, <1>8, <1>9

LEMMA DecisionCommitV ==
  ASSUME VInv, IInv', OneDecision, NEW h \in Approver, DecisionCommit(h)
  PROVE  VInv' /\ Kinds(rows, event, rows', event')
<1> DEFINE w == work[h]
           d == event[w.event]
<1>1. h \in Handler /\ w.at = "decided"
  BY ApproverAssumption DEF DecisionCommit
<1>2. PICK new : SetWork(h, new) /\ new.at \in {"idle", "maybeFo"}
  <2>1. Idle.at = "idle" /\ Call("maybeFo", d.trade).at = "maybeFo"
    BY DEF Idle, Call
  <2>2. SetWork(h, Idle) \/ SetWork(h, Call("maybeFo", d.trade))
    BY DEF DecisionCommit
  <2> QED BY <2>1, <2>2
<1>3. new.at \notin {"update"} \cup ProposalStage \cup DecisionStage
  BY <1>2 DEF ProposalStage, DecisionStage
<1>4. CASE ~CanApply(rows, d.trade, w.update)
  <2>1. UNCHANGED <<rows, event>>
    BY <1>4 DEF DecisionCommit
  <2> QED BY <1>1, <1>2, <1>3, <2>1, PlainStep
<1>5. CASE CanApply(rows, d.trade, w.update)
  <2>1. PICK base \in TradeTable : /\ Decided(rows, event, base, event', w.event)
                                   /\ Keeps(base, rows')
    BY <1>1, <1>5, DecisionCommits
  <2>2. /\ TableInv(rows, event) /\ rows \in TradeTable /\ event \in EventTable
        /\ w.event \in Event /\ w.at \in DecisionStage
    BY <1>1, DecisionKnows DEF DecisionStage, IInv, TypeOK
  <2>3. ASSUME NEW g \in Handler \ {h}
        PROVE  WorkInv(rows', event', work[g])
    <3>1. work[g] \in AnyWork /\ WorkInv(rows, event, work[g])
      BY WorkTyped DEF VInv
    <3>2. work[g].at \in DecisionStage => event[work[g].event].trade # d.trade
      <4> SUFFICES ASSUME work[g].at \in DecisionStage, event[work[g].event].trade = d.trade
                   PROVE  FALSE
        OBVIOUS
      <4>1. g \in Approver /\ work[g].event \in Event
        BY DecisionKnows
      <4>2. Deciding(g, work[g].event) /\ Deciding(h, w.event)
        BY <2>2 DEF Deciding, DecisionStage
      <4> QED BY <2>2, <4>1, <4>2 DEF OneDecision
    <3> HIDE DEF w
    <3>3. WorkInv(base, event', work[g])
      BY <2>1, <2>2, <3>1, <3>2, DecidedWork
    <3> QED BY <2>1, <3>1, <3>3, KeepsWork
  <2>4. TableInv(rows', event')
    <3> HIDE DEF w
    <3>1. TableInv(base, event')
      BY <2>1, <2>2, DecidedTable
    <3> QED BY <2>1, <3>1, KeepsTable
  <2>5. VInv'
    BY <1>1, <1>2, <1>3, <2>3, <2>4, PlainWork, Frame
  <2> QED BY <2>1, <2>2, <2>5 DEF Kinds
<1> QED BY <1>4, <1>5

LEMMA EventV ==
  ASSUME VInv, IInv', OneDecision, EventNext
  PROVE  VInv' /\ Kinds(rows, event, rows', event')
<1>1. ASSUME NEW h \in Handler, NEW t \in Trade, NEW type \in EventType,
             CreateEventRequest(h, t, type)
      PROVE  VInv' /\ Kinds(rows, event, rows', event')
  BY <1>1, StartProposalV DEF CreateEventRequest
<1>2. ASSUME NEW h \in Handler, CheckPending(h)
      PROVE  VInv' /\ Kinds(rows, event, rows', event')
  BY <1>2, CheckPendingV
<1> QED BY <1>1, <1>2, DecisionStartV, DecideV, DecisionCommitV DEF EventNext

-----------------------------------------------------------------------------
LEMMA BookedV ==
  ASSUME VInv, IInv', NEW h \in Handler, NEW w, SetWork(h, w), event' = event,
         w.at \notin {"update"} \cup ProposalStage \cup DecisionStage,
         NEW T \in SUBSET Trade, Booked(rows, rows', T)
  PROVE  VInv' /\ Kinds(rows, event, rows', event')
<1>1. TableInv(rows, event) /\ \A g \in Handler : WorkInv(rows, event, work[g]) /\ work[g] \in AnyWork
  BY WorkTyped DEF VInv
<1>2. TableInv(rows', event') /\ \A g \in Handler : WorkInv(rows', event', work[g])
  BY <1>1, BookedTable, BookedWork
<1>3. VInv'
  BY <1>2, PlainWork, Frame
<1> QED BY <1>3 DEF Kinds

LEMMA WorkflowV ==
  ASSUME VInv, IInv', NoRefresh, WorkflowNext
  PROVE  VInv' /\ Kinds(rows, event, rows', event')
<1> SUFFICES ASSUME NEW h \in Handler,
                    \/ \E t \in Trade : CreateTrade(h, t) \/ OperatorApprove(h, t) \/ SeedCheck(h, t)
                    \/ Truncate(h) \/ SeedRequest(h) \/ Reseed(h) \/ SeedList(h) \/ Failure(h)
             PROVE  VInv' /\ Kinds(rows, event, rows', event')
  BY DEF WorkflowNext
<1>a. \A w : w.at \in {"idle", "maybeFo", "select", "reseed", "seedChecks"} =>
        w.at \notin {"update"} \cup ProposalStage \cup DecisionStage
  BY DEF ProposalStage, DecisionStage
<1>b. Idle.at = "idle" /\ \A t : Call("maybeFo", t).at = "maybeFo"
  BY DEF Idle, Call
<1>c. IInv /\ rows \in TradeTable
  BY DEF VInv, IInv, TypeOK
<1>1. ASSUME NEW t \in Trade, CreateTrade(h, t)
      PROVE  VInv' /\ Kinds(rows, event, rows', event')
  <2>1. /\ rows[t] = Absent /\ rows' = [rows EXCEPT ![t] = FirstVersion("Initial")]
        /\ SetWork(h, Call("maybeFo", t)) /\ event' = event
    BY <1>1 DEF CreateTrade
  <2>2. "Initial" \in WorkflowStatus
    BY DEF WorkflowStatus
  <2>3. Booked(rows, rows', {t})
    BY <1>c, <2>1, <2>2 DEF Booked, TradeTable
  <2>4. Call("maybeFo", t).at \notin {"update"} \cup ProposalStage \cup DecisionStage
    BY <1>a, <1>b
  <2>5. {t} \in SUBSET Trade
    OBVIOUS
  <2> QED BY <2>1, <2>3, <2>4, <2>5, BookedV
<1>2. ASSUME NEW t \in Trade, OperatorApprove(h, t)
      PROVE  VInv' /\ Kinds(rows, event, rows', event')
  <2>1. PICK w : SetWork(h, w) /\ w.at = "select"
    BY <1>2, <1>c, OperatorApproveStep
  <2>2. UNCHANGED <<rows, event>>
    BY <1>2 DEF OperatorApprove
  <2> QED BY <1>a, <2>1, <2>2, PlainStep
<1>3. ASSUME NEW t \in Trade, SeedCheck(h, t)
      PROVE  VInv' /\ Kinds(rows, event, rows', event')
  BY <1>3, CheckReadV DEF SeedCheck
<1>4. CASE Truncate(h)
  BY <1>4 DEF Truncate, NoRefresh
<1>5. CASE SeedRequest(h)
  <2>1. SetWork(h, [at |-> "reseed"]) /\ UNCHANGED <<rows, event>>
    BY <1>5 DEF SeedRequest
  <2>2. [at |-> "reseed"].at = "reseed"
    OBVIOUS
  <2> QED BY <1>a, <2>1, <2>2, PlainStep
<1>6. CASE Reseed(h)
  <2>1. PICK demo \in SUBSET Trade, s \in [Trade -> SeedStatus] :
          rows' = [t \in Trade |-> IF t \in demo /\ rows[t] = Absent
                                   THEN FirstVersion(s[t]) ELSE rows[t]]
    BY <1>6 DEF Reseed
  <2>2. SetWork(h, [at |-> "seedChecks"]) /\ event' = event
    BY <1>6 DEF Reseed
  <2>3. \A t \in Trade : s[t] \in WorkflowStatus
    BY DEF SeedStatus, WorkflowStatus
  <2>4. \E T \in SUBSET Trade : Booked(rows, rows', T)
    <3> DEFINE T == {t \in demo : rows[t] = Absent}
    <3>1. Booked(rows, rows', T)
      BY <2>1, <2>3 DEF Booked
    <3>2. T \in SUBSET Trade
      OBVIOUS
    <3> HIDE DEF T
    <3> QED BY <3>1, <3>2
  <2>5. [at |-> "seedChecks"].at = "seedChecks"
    OBVIOUS
  <2> QED BY <1>a, <2>2, <2>4, <2>5, BookedV
<1>7. CASE SeedList(h)
  BY <1>7, <1>a, <1>b, PlainStep DEF SeedList
<1>8. CASE Failure(h)
  BY <1>8, <1>a, <1>b, PlainStep DEF Failure
<1> QED BY <1>1, <1>2, <1>3, <1>4, <1>5, <1>6, <1>7, <1>8

-----------------------------------------------------------------------------
LEMMA InitV == Init => VInv
<1> SUFFICES ASSUME Init PROVE VInv
  OBVIOUS
<1> DEFINE none == [t \in Trade |-> Absent]
<1>1. IInv
  BY InitIInv
<1>2. \A e \in Event : event[e].status = "None"
  BY DEF Init, NoEvent
<1>3. \A e \in Event : \A t, v : ~Amends(event, e, t, v) /\ event[e] \notin EventRow
  BY <1>2 DEF Amends, InFlightStatus, EventRow, EventStatus
<1>4. \A t \in Trade, v \in Version : ~none[t][v].current /\ ~Exists(none, t, v)
  BY DEF Absent, NoRow, Exists
<1>5. \A t \in Trade : CurrentVersions(none, t) = {}
  BY <1>4 DEF CurrentVersions
<1> HIDE DEF none
<1>6. TableInv(none, event)
  BY <1>3, <1>4, <1>5 DEF TableInv, Unique, Filled, Beyond, Ready, Single, Known, Settled
<1>7. \E T \in SUBSET Trade : Booked(none, rows, T)
  <2> DEFINE T == {t \in Trade : rows[t] # Absent}
  <2>1. \A t \in T : \E s \in WorkflowStatus : rows[t] = FirstVersion(s)
    BY DEF Init, SeedStatus, WorkflowStatus
  <2>2. \A t \in Trade : none[t] = Absent
    BY DEF none
  <2>3. Booked(none, rows, T)
    BY <2>1, <2>2 DEF Booked
  <2>4. T \in SUBSET Trade
    OBVIOUS
  <2> HIDE DEF T
  <2> QED BY <2>3, <2>4
<1>8. TableInv(rows, event)
  BY <1>6, <1>7, BookedTable
<1>9. \A h \in Handler : work[h].at = "idle"
  BY DEF Init, Idle
<1>10. \A h \in Handler : /\ WorkInv(rows, event, work[h])
                          /\ \A t, v : ~Reserves(work[h], t, v)
                          /\ work[h].at \notin DecisionStage
  <2> TAKE h \in Handler
  <2>1. work[h].at \notin {"update"} \cup ProposalStage \cup DecisionStage
    BY <1>9 DEF ProposalStage, DecisionStage
  <2> QED BY <2>1, PlainWork
<1>11. Apart /\ ByApprovers
  BY <1>10 DEF Apart, ByApprovers
<1> QED BY <1>1, <1>8, <1>10, <1>11 DEF VInv

LEMMA NextV ==
  ASSUME VInv, OneDecision, NoRefresh, [Next]_vars
  PROVE  VInv' /\ Kinds(rows, event, rows', event')
<1>1. IInv'
  BY NextIInv DEF VInv
<1>2. CASE UNCHANGED vars
  <2>1. UNCHANGED <<rows, event, work>>
    BY <1>2 DEF vars
  <2>2. /\ TableInv(rows', event') /\ \A h \in Handler : WorkInv(rows', event', work'[h])
        /\ Apart' /\ ByApprovers'
    BY <2>1 DEF VInv, Apart, ByApprovers
  <2> QED BY <1>1, <2>1, <2>2, Unchanging DEF VInv
<1> QED BY <1>1, <1>2, RuleV, ProposalV, AgentV, EventV, WorkflowV DEF Next

-----------------------------------------------------------------------------
(* The inductive invariant of a workflow whose decisions do not overlap on *)
(* a trade: the next version, and only it, is prepared by at most one      *)
(* undecided amendment, and what every open request is about to write fits *)
(* the version in force.                                                   *)
THEOREM DecisionInvariance ==
  ASSUME NoRefresh
  PROVE  Spec /\ []OneDecision => []VInv
<1>1. VInv /\ OneDecision /\ [Next]_vars => VInv'
  BY NextV
<1> QED BY InitV, <1>1, PTL DEF Spec

(* A trade never has two versions in force.  (activate_version and every   *)
(* other commit, whatever was committed since their reads)                 *)
THEOREM OneInForce ==
  ASSUME NoRefresh
  PROVE  Spec /\ []OneDecision => []OneCurrent
<1>1. VInv => OneCurrent
  BY DEF VInv, TableInv, Unique, OneCurrent, CurrentVersions
<1> QED BY <1>1, DecisionInvariance, PTL

(* A row that exists is settled or follows a settled one, so its trade has *)
(* a version in force: a booked trade never gets lost.  (activate_version, *)
(* the delete of a rejected amendment)                                     *)
THEOREM NoTradeLost ==
  ASSUME NoRefresh
  PROVE  Spec /\ []OneDecision => []NeverLost
<1>1. VInv => NeverLost
  <2> SUFFICES ASSUME VInv, NEW t \in Trade, rows[t] # Absent
               PROVE  HasCurrent(rows, t)
    BY DEF NeverLost
  <2>1. rows \in TradeTable
    BY DEF VInv, IInv, TypeOK
  <2>2. PICK v \in Version : Exists(rows, t, v)
    <3>1. \E v \in Version : rows[t][v] # NoRow
      BY <2>1 DEF Absent, TradeTable
    <3> QED BY <2>1, <3>1, ExistsIsRow
  <2>3. Settled(rows, t, v) \/ NextTo(rows, t, v)
    BY <2>2 DEF VInv, TableInv, Beyond
  <2> QED BY <2>3 DEF Settled, NextTo, HasCurrent
<1> QED BY <1>1, DecisionInvariance, PTL

(* The version of an undecided amendment is there, as it was inserted, and *)
(* directly follows the one in force.  (create_trade_event, the proposal   *)
(* tools, activate_version)                                                *)
THEOREM AmendmentsStayReady ==
  ASSUME NoRefresh
  PROVE  Spec /\ []OneDecision => []AmendmentReady
<1>1. VInv => AmendmentReady
  <2> SUFFICES ASSUME VInv, NEW e \in Event, InFlight(e), event[e].type = "AMEND"
               PROVE  LET t == event[e].trade IN
                      /\ HasCurrent(rows, t) /\ event[e].to = Current(rows, t) + 1
                      /\ PendingVersion(t, event[e].to)
    BY DEF AmendmentReady
  <2> DEFINE t == event[e].trade
  <2>1. event[e] \in EventRow
    <3>1. event[e] \in EventRow \cup {NoEvent}
      BY DEF VInv, IInv, TypeOK, EventTable
    <3> QED BY <3>1 DEF InFlight, InFlightStatus, NoEvent
  <2>2. t \in Trade /\ event[e].to \in Version
    BY <2>1 DEF EventRow
  <2>3. Amends(event, e, t, event[e].to)
    BY DEF Amends, InFlight
  <2>4. NextTo(rows, t, event[e].to) /\ Waits(rows, t, event[e].to) /\ Unique(rows)
    BY <2>2, <2>3 DEF VInv, TableInv, Ready
  <2>5. PICK c \in CurrentVersions(rows, t) : event[e].to = c + 1
    BY <2>4 DEF NextTo
  <2>6. HasCurrent(rows, t) /\ Current(rows, t) = c
    BY <2>2, <2>4, SettledMeans
  <2> QED BY <2>4, <2>5, <2>6 DEF Waits, PendingVersion, Exists
<1> QED BY <1>1, DecisionInvariance, PTL

(* The versions of a trade have no gaps.  (create_next_version, the delete *)
(* of a rejected amendment)                                                *)
THEOREM HistoriesComplete ==
  ASSUME NoRefresh
  PROVE  Spec /\ []OneDecision => []HistoryComplete
<1>1. VInv => HistoryComplete
  <2> SUFFICES ASSUME VInv, NEW t \in Trade, NEW v \in Version, NEW w \in Version,
                      v < w, Exists(rows, t, w)
               PROVE  Exists(rows, t, v)
    BY DEF HistoryComplete
  <2>1. Settled(rows, t, w) \/ NextTo(rows, t, w)
    BY DEF VInv, TableInv, Beyond
  <2>2. PICK c \in CurrentVersions(rows, t) : w <= c \/ w = c + 1
    BY <2>1 DEF Settled, NextTo
  <2>3. c \in Nat /\ v \in Nat /\ w \in Nat
    BY VersionIsNat DEF CurrentVersions
  <2>4. v <= c
    BY <2>2, <2>3
  <2>5. Settled(rows, t, v)
    BY <2>4 DEF Settled
  <2> QED BY <2>5 DEF VInv, TableInv, Filled
<1> QED BY <1>1, DecisionInvariance, PTL

-----------------------------------------------------------------------------
(* The workflow implements TradeVersioning, step by step.                  *)
InForceOf(tb) == [t \in Trade |-> IF HasCurrent(tb, t) THEN Current(tb, t) ELSE 0]

LEMMA InForceIs ==
  ASSUME NEW tb, Unique(tb), NEW t \in Trade, NEW c \in CurrentVersions(tb, t)
  PROVE  InForceOf(tb)[t] = c /\ c # 0
<1>1. HasCurrent(tb, t) /\ Current(tb, t) = c /\ c \in Version
  BY SettledMeans
<1> QED BY <1>1 DEF InForceOf, Version

(* As long as the same versions of a trade are in force the mapping stays. *)
LEMMA InForceSame ==
  ASSUME NEW tb, NEW new, Unique(tb), Unique(new), NEW t \in Trade,
         CurrentVersions(new, t) = CurrentVersions(tb, t)
  PROVE  InForceOf(new)[t] = InForceOf(tb)[t]
<1>1. CASE \E c : c \in CurrentVersions(tb, t)
  BY <1>1, InForceIs
<1>2. CASE ~\E c : c \in CurrentVersions(tb, t)
  BY <1>2 DEF InForceOf, HasCurrent
<1> QED BY <1>1, <1>2

LEMMA InForceStays ==
  ASSUME NEW tb, NEW new, Unique(tb), Unique(new),
         \A t \in Trade : CurrentVersions(new, t) = CurrentVersions(tb, t)
  PROVE  InForceOf(new) = InForceOf(tb)
<1>1. \A t \in Trade : InForceOf(new)[t] = InForceOf(tb)[t]
  BY InForceSame
<1> QED BY <1>1 DEF InForceOf

(* The rows an undecided event has, in the terms of the promise.           *)
LEMMA ProposalIs ==
  ASSUME TypeOK, NEW e \in Event
  PROVE  /\ event[e].status = "None" <=> event[e] \notin EventRow
         /\ event[e] \notin EventRow => Proposal[e] = [stage |-> "None"]
         /\ event[e] \in EventRow =>
              Proposal[e] = [stage |-> event[e].status, trade |-> event[e].trade,
                             type |-> event[e].type,
                             to |-> IF event[e].type = "AMEND" THEN event[e].to ELSE 0]
<1>1. event[e] \in EventRow \cup {NoEvent}
  BY DEF TypeOK, EventTable
<1>2. event[e].status = "None" <=> event[e] \notin EventRow
  BY <1>1 DEF NoEvent, EventRow, EventStatus
<1> QED BY <1>2 DEF Proposal

(* A decision changes the stage of its proposal, and nothing else.         *)
LEMMA DecisionMaps ==
  ASSUME TypeOK, NEW e \in Event, event[e] \in EventRow,
         NEW s \in {"FoValidated", "Cancelled", "Done"},
         event' = [event EXCEPT ![e].status = s]
  PROVE  Proposal' = [Proposal EXCEPT ![e].stage = s]
<1>1. /\ event'[e] \in EventRow /\ event'[e].status = s
      /\ event'[e].trade = event[e].trade /\ event'[e].type = event[e].type
      /\ event'[e].to = event[e].to
      /\ \A f \in Event \ {e} : event'[f] = event[f]
  <2>1. event \in EventTable
    BY DEF TypeOK
  <2> QED BY <2>1, DecidedEvents
<1>2. s # "None" /\ event[e].status # "None"
  BY ProposalIs
<1>3. Proposal'[e] = [Proposal[e] EXCEPT !.stage = s]
  BY <1>1, <1>2 DEF Proposal
<1>4. \A f \in Event \ {e} : Proposal'[f] = Proposal[f]
  BY <1>1 DEF Proposal
<1>5. /\ Proposal = [f \in Event |-> Proposal[f]]
      /\ Proposal' = [f \in Event |-> Proposal'[f]]
  BY DEF Proposal
<1> QED BY <1>3, <1>4, <1>5

LEMMA InitVersioning == Init => Versioning!Init
<1> SUFFICES ASSUME Init PROVE Versioning!Init
  OBVIOUS
<1>1. Unique(rows)
  BY InitV DEF VInv, TableInv
<1>2. ASSUME NEW t \in Trade
      PROVE  InForceOf(rows)[t] \in {0, 1}
  <2>1. CASE rows[t] = Absent
    <3>1. CurrentVersions(rows, t) = {}
      BY <2>1 DEF CurrentVersions, Absent, NoRow
    <3> QED BY <3>1 DEF InForceOf, HasCurrent
  <2>2. CASE rows[t] # Absent
    <3>1. PICK s \in SeedStatus : rows[t] = FirstVersion(s)
      BY <2>2 DEF Init
    <3>2. 1 \in CurrentVersions(rows, t)
      BY <3>1, BoundsAssumption DEF FirstVersion, Version, CurrentVersions
    <3> QED BY <1>1, <3>2, InForceIs
  <2> QED BY <2>1, <2>2
<1>3. InForce \in [Trade -> {0, 1}]
  BY <1>2 DEF InForce, InForceOf
<1>4. Proposal = [e \in Event |-> [stage |-> "None"]]
  BY DEF Init, Proposal, NoEvent
<1> QED BY <1>3, <1>4 DEF Versioning!Init, Versioning!None

(* A proposal is made against the version in force, when no other          *)
(* amendment of the trade is undecided.                                    *)
LEMMA ProposeVersioning ==
  ASSUME VInv, VInv', NEW e \in Event, NEW base \in TradeTable,
         Proposed(rows, event, base, event', e), Keeps(base, rows')
  PROVE  Versioning!Next
<1> DEFINE r == event'[e]
<1> TypeOK
  BY DEF VInv, IInv
<1>a. /\ Unique(rows) /\ Unique(rows')
      /\ rows \in TradeTable /\ event \in EventTable
      /\ InForce = InForceOf(rows) /\ InForce' = InForceOf(rows')
  BY DEF VInv, IInv, TypeOK, TableInv, InForce, InForceOf
<1>1. /\ event[e].status = "None" /\ r \in EventRow /\ r.status = "FoUserToValidate"
      /\ event' = [event EXCEPT ![e] = r] /\ HasCurrent(rows, r.trade)
  BY DEF Proposed
<1>2. r.trade \in Trade /\ r.to \in Version /\ r.type \in {"AMEND", "CANCEL"}
  BY <1>1 DEF EventRow, EventType
<1>3. \A f \in Event \ {e} : event'[f] = event[f]
  BY <1>1, <1>a DEF EventTable
<1>4. r.type = "AMEND" => /\ NextTo(rows, r.trade, r.to) /\ ~Exists(rows, r.trade, r.to)
                          /\ base = InsertVersion(rows, r.trade, r.to)
  BY DEF Proposed
<1>5. r.type # "AMEND" => base = rows
  BY DEF Proposed
<1> HIDE DEF r
<1>6. PICK c \in CurrentVersions(rows, r.trade) : TRUE
  BY <1>1 DEF HasCurrent
<1>7. InForce[r.trade] = c /\ c # 0 /\ (r.type = "AMEND" => r.to = c + 1)
  BY <1>2, <1>4, <1>6, <1>a, InForceIs, SettledMeans
<1>8. InForce' = InForce
  <2>1. \A t \in Trade : CurrentVersions(base, t) = CurrentVersions(rows, t)
    <3>1. CASE r.type = "AMEND"
      <4>1. /\ ~rows[r.trade][r.to].current /\ ~base[r.trade][r.to].current
            /\ \A t \in Trade, v \in Version :
                 t # r.trade \/ v # r.to => base[t][v] = rows[t][v]
        BY <1>2, <1>4, <1>a, <3>1, InsertVersionType, ExistsIsRow
      <4>2. \A t \in Trade, v \in Version : base[t][v].current <=> rows[t][v].current
        BY <4>1
      <4> QED BY <4>2 DEF CurrentVersions
    <3> QED BY <1>5, <3>1
  <2>2. \A t \in Trade : CurrentVersions(rows', t) = CurrentVersions(rows, t)
    BY <2>1, KeepsCurrent
  <2> QED BY <1>a, <2>2, InForceStays
<1>9. ASSUME r.type = "AMEND", NEW f \in Event, Proposal[f].stage \in Versioning!Undecided,
             Proposal[f].trade = r.trade, Proposal[f].type = "AMEND"
      PROVE  FALSE
  <2>1. event[f] \in EventRow /\ event[f].to \in Version
    <3>1. event[f] \notin EventRow => Proposal[f] = [stage |-> "None"]
      BY TypeOK, ProposalIs
    <3>2. event[f] \in EventRow
      BY <1>9, <3>1 DEF Versioning!Undecided
    <3> QED BY <3>2 DEF EventRow
  <2>2. Proposal[f] = [stage |-> event[f].status, trade |-> event[f].trade,
                       type |-> event[f].type,
                       to |-> IF event[f].type = "AMEND" THEN event[f].to ELSE 0]
    BY <1>a, <2>1, ProposalIs
  <2>3. Amends(event, f, r.trade, event[f].to)
    BY <1>9, <2>2 DEF Amends, InFlightStatus, Versioning!Undecided
  <2>4. NextTo(rows, r.trade, event[f].to) /\ Waits(rows, r.trade, event[f].to)
    BY <1>2, <2>1, <2>3 DEF VInv, TableInv, Ready
  <2>5. event[f].to = c + 1 /\ Exists(rows, r.trade, event[f].to)
    BY <1>2, <1>6, <1>a, <2>4, SettledMeans, WaitsMeans
  <2> QED BY <1>4, <1>7, <1>9, <2>5
<1>10. Proposal' = [Proposal EXCEPT ![e] =
          [stage |-> "FoUserToValidate", trade |-> r.trade, type |-> r.type,
           to |-> IF r.type = "AMEND" THEN InForce[r.trade] + 1 ELSE 0]]
  <2>1. Proposal'[e] = [stage |-> "FoUserToValidate", trade |-> r.trade, type |-> r.type,
                        to |-> IF r.type = "AMEND" THEN r.to ELSE 0]
    BY <1>1 DEF Proposal, r
  <2>2. \A f \in Event \ {e} : Proposal'[f] = Proposal[f]
    BY <1>3 DEF Proposal
  <2>3. /\ Proposal = [f \in Event |-> Proposal[f]]
        /\ Proposal' = [f \in Event |-> Proposal'[f]]
    BY DEF Proposal
  <2> QED BY <1>7, <2>1, <2>2, <2>3
<1>11. Proposal[e] = [stage |-> "None"]
  BY <1>1 DEF Proposal
<1>12. Versioning!Propose(e, r.trade, r.type)
  BY <1>7, <1>8, <1>9, <1>10, <1>11 DEF Versioning!Propose, Versioning!None
<1> QED BY <1>2, <1>12 DEF Versioning!Next

LEMMA DecideVersioning ==
  ASSUME VInv, VInv', NEW e \in Event, NEW base \in TradeTable,
         Decided(rows, event, base, event', e), Keeps(base, rows')
  PROVE  Versioning!Next
<1> DEFINE r == event[e]
<1> TypeOK
  BY DEF VInv, IInv
<1>a. /\ Unique(rows) /\ Unique(rows')
      /\ rows \in TradeTable
      /\ InForce = InForceOf(rows) /\ InForce' = InForceOf(rows')
  BY DEF VInv, IInv, TypeOK, TableInv, InForce, InForceOf
<1>1. PICK s \in {"FoValidated", "Cancelled", "Done"} :
        /\ event' = [event EXCEPT ![e].status = s]
        /\ \/ r.status = "FoUserToValidate" /\ s \in {"FoValidated", "Cancelled"}
           \/ r.status = "FoValidated" /\ s \in {"Done", "Cancelled"}
        /\ \/ r.type # "AMEND" /\ base = rows
           \/ r.type = "AMEND" /\ s = "FoValidated" /\ base = rows
           \/ r.type = "AMEND" /\ s = "Cancelled" /\ base = DeleteVersions(rows, r.trade, {r.to})
           \/ r.type = "AMEND" /\ s = "Done" /\ Activated(rows, base, r.trade, r.to)
  BY DEF Decided
<1>2. r \in EventRow /\ r.trade \in Trade /\ r.to \in Version
  BY DEF Decided, EventRow
<1>3. Proposal[e] = [stage |-> r.status, trade |-> r.trade, type |-> r.type,
                     to |-> IF r.type = "AMEND" THEN r.to ELSE 0]
  BY <1>2, <1>a, ProposalIs
<1>4. Proposal' = [Proposal EXCEPT ![e].stage = s]
  BY <1>1, <1>2, <1>a, DecisionMaps
<1>5. r.type = "AMEND" => /\ NextTo(rows, r.trade, r.to) /\ Waits(rows, r.trade, r.to)
  <2>1. r.type = "AMEND" => Amends(event, e, r.trade, r.to)
    BY <1>1 DEF Amends, InFlightStatus
  <2> QED BY <1>2, <2>1 DEF VInv, TableInv, Ready
<1> HIDE DEF r
<1>6. CASE r.type # "AMEND" \/ s # "Done"
  <2>1. \A t \in Trade : CurrentVersions(base, t) = CurrentVersions(rows, t)
    <3>1. CASE r.type = "AMEND" /\ s = "Cancelled"
      <4>1. base = DeleteVersions(rows, r.trade, {r.to})
        BY <1>1, <3>1
      <4>2. \A x \in Trade, v \in Version :
              base[x][v] = IF x = r.trade /\ v = r.to THEN NoRow ELSE rows[x][v]
        BY <1>2, <1>a, <4>1 DEF DeleteVersions, TradeTable
      <4>3. ~rows[r.trade][r.to].current
        BY <1>2, <1>5, <1>a, <3>1, WaitsMeans
      <4>4. \A x \in Trade, v \in Version : base[x][v].current <=> rows[x][v].current
        BY <4>2, <4>3 DEF NoRow
      <4> QED BY <4>4 DEF CurrentVersions
    <3> QED BY <1>1, <1>6, <3>1
  <2>2. \A t \in Trade : CurrentVersions(rows', t) = CurrentVersions(rows, t)
    BY <2>1, KeepsCurrent
  <2>3. InForce' = InForce
    BY <1>a, <2>2, InForceStays
  <2>4. Proposal[e].stage = r.status /\ Proposal[e].type = r.type
    BY <1>3
  <2>5. CASE s = "FoValidated"
    <3>1. Versioning!FoApprove(e)
      BY <1>1, <1>4, <2>3, <2>4, <2>5 DEF Versioning!FoApprove
    <3> QED BY <3>1 DEF Versioning!Next
  <2>6. CASE s = "Cancelled"
    <3>1. Versioning!Reject(e)
      BY <1>1, <1>4, <2>3, <2>4, <2>6 DEF Versioning!Reject, Versioning!Undecided
    <3> QED BY <3>1 DEF Versioning!Next
  <2>7. CASE s = "Done"
    <3>1. Versioning!BoApprove(e)
      BY <1>1, <1>4, <1>6, <2>3, <2>4, <2>7 DEF Versioning!BoApprove
    <3> QED BY <3>1 DEF Versioning!Next
  <2> QED BY <2>5, <2>6, <2>7
<1>7. CASE r.type = "AMEND" /\ s = "Done"
  <2>1. Activated(rows, base, r.trade, r.to)
    BY <1>1, <1>7
  <2>2. /\ CurrentVersions(base, r.trade) = {r.to}
        /\ \A x \in Trade \ {r.trade} : CurrentVersions(base, x) = CurrentVersions(rows, x)
    BY <1>2, <2>1, ActivatedMeans
  <2>3. /\ CurrentVersions(rows', r.trade) = {r.to}
        /\ \A x \in Trade \ {r.trade} : CurrentVersions(rows', x) = CurrentVersions(rows, x)
    BY <1>2, <2>2, KeepsCurrent
  <2>4. PICK c \in CurrentVersions(rows, r.trade) : r.to = c + 1
    BY <1>5, <1>7 DEF NextTo
  <2>5. InForce[r.trade] = c /\ InForce'[r.trade] = r.to
    BY <1>2, <1>a, <2>3, <2>4, InForceIs
  <2>6. \A x \in Trade \ {r.trade} : InForce'[x] = InForce[x]
    BY <1>a, <2>3, InForceSame
  <2>7. InForce' = [InForce EXCEPT ![r.trade] = r.to]
    BY <1>2, <2>5, <2>6 DEF InForce
  <2>8. r.status = "FoValidated"
    BY <1>1, <1>7
  <2>9. Versioning!BoApprove(e)
    BY <1>3, <1>4, <1>7, <2>4, <2>5, <2>7, <2>8 DEF Versioning!BoApprove
  <2> QED BY <2>9 DEF Versioning!Next
<1> QED BY <1>6, <1>7

LEMMA StepVersioning ==
  ASSUME VInv, VInv', Kinds(rows, event, rows', event')
  PROVE  [Versioning!Next]_<<InForce, Proposal>>
<1>a. /\ Unique(rows) /\ Unique(rows')
      /\ InForce = InForceOf(rows) /\ InForce' = InForceOf(rows')
  BY DEF VInv, TableInv, InForce, InForceOf
<1>b. event' = event => Proposal' = Proposal
  BY DEF Proposal
<1>1. CASE event' = event /\ Keeps(rows, rows')
  BY <1>1, <1>a, <1>b, KeepsCurrent, InForceStays
<1>2. ASSUME event' = event, NEW T \in SUBSET Trade, Booked(rows, rows', T)
      PROVE  [Versioning!Next]_<<InForce, Proposal>>
  <2>1. \A t \in Trade :
          IF t \in T THEN ~HasCurrent(rows, t) /\ CurrentVersions(rows', t) = {1}
                     ELSE CurrentVersions(rows', t) = CurrentVersions(rows, t)
    BY <1>2, BookedMeans
  <2>2. ASSUME NEW t \in T
        PROVE  InForce[t] = 0 /\ InForce'[t] = 1
    <3>1. InForceOf(rows)[t] = 0
      BY <2>1 DEF InForceOf
    <3>2. 1 \in CurrentVersions(rows', t) /\ t \in Trade
      BY <2>1
    <3> QED BY <1>a, <3>1, <3>2, InForceIs
  <2>3. \A t \in Trade \ T : InForce'[t] = InForce[t]
    BY <1>a, <2>1, InForceSame
  <2>4. InForce' = [t \in Trade |-> IF t \in T THEN 1 ELSE InForce[t]]
    BY <2>2, <2>3 DEF InForce
  <2>5. CASE T = {}
    <3>1. InForce' = InForce
      BY <2>4, <2>5 DEF InForce
    <3> QED BY <1>2, <1>b, <3>1
  <2>6. CASE T # {}
    <3>1. Versioning!Book(T)
      BY <1>2, <1>b, <2>2, <2>4, <2>6 DEF Versioning!Book
    <3> QED BY <3>1 DEF Versioning!Next
  <2> QED BY <2>5, <2>6
<1>3. ASSUME NEW e \in Event, NEW base \in TradeTable,
             Proposed(rows, event, base, event', e), Keeps(base, rows')
      PROVE  Versioning!Next
  BY <1>3, ProposeVersioning
<1>4. ASSUME NEW e \in Event, NEW base \in TradeTable,
             Decided(rows, event, base, event', e), Keeps(base, rows')
      PROVE  Versioning!Next
  BY <1>4, DecideVersioning
<1> QED BY <1>1, <1>2, <1>3, <1>4 DEF Kinds

(* While the decisions on one trade's events do not overlap, which version *)
(* of a trade is in force follows the approvals of TradeVersioning: in     *)
(* order, by one, and only through a proposal that FO and then BO          *)
(* approved, whatever else was committed between the reads and the commit. *)
THEOREM WorkflowImplementsVersioning ==
  ASSUME NoRefresh
  PROVE  Spec /\ []OneDecision => VersionsFollowApprovals
<1>1. VInv /\ OneDecision /\ [Next]_vars => [Versioning!Next]_<<InForce, Proposal>>
  BY NextV, StepVersioning
<1> QED BY DecisionInvariance, InitVersioning, <1>1, PTL
    DEF Spec, VersionsFollowApprovals, Versioning!Spec

-----------------------------------------------------------------------------
(* What follows from the promise follows for the workflow.                 *)
Promised == INSTANCE TradeVersioning_proofs WITH inForce <- InForce, proposal <- Proposal

LEMMA SamePromise == Versioning!Spec => Promised!Spec
<1>1. Versioning!None = Promised!None /\ Versioning!Undecided = Promised!Undecided
  BY DEF Versioning!None, Promised!None, Versioning!Undecided, Promised!Undecided
<1>2. Versioning!Init => Promised!Init
  BY <1>1 DEF Versioning!Init, Promised!Init
<1>3. ASSUME NEW T \in SUBSET Trade, Versioning!Book(T)
      PROVE  Promised!Book(T)
  BY <1>3 DEF Versioning!Book, Promised!Book
<1>4. ASSUME NEW e \in Event, NEW t \in Trade, NEW type \in {"AMEND", "CANCEL"},
             Versioning!Propose(e, t, type)
      PROVE  Promised!Propose(e, t, type)
  BY <1>1, <1>4 DEF Versioning!Propose, Promised!Propose
<1>5. ASSUME NEW e \in Event,
             Versioning!FoApprove(e) \/ Versioning!Reject(e) \/ Versioning!BoApprove(e)
      PROVE  Promised!FoApprove(e) \/ Promised!Reject(e) \/ Promised!BoApprove(e)
  BY <1>1, <1>5 DEF Versioning!FoApprove, Promised!FoApprove, Versioning!Reject,
     Promised!Reject, Versioning!BoApprove, Promised!BoApprove
<1>6. [Versioning!Next]_<<InForce, Proposal>> => [Promised!Next]_<<InForce, Proposal>>
  BY <1>3, <1>4, <1>5 DEF Versioning!Next, Promised!Next
<1> QED BY <1>2, <1>6, PTL DEF Versioning!Spec, Promised!Spec

(* Then the version in force of a trade never goes back and skips none.    *)
(* (bo_approve)                                                            *)
THEOREM InForceGoesUpByOne ==
  ASSUME NoRefresh
  PROVE  Spec /\ []OneDecision => Promised!UpByOne
BY WorkflowImplementsVersioning, SamePromise, Promised!VersionsGoUpByOne, PTL
DEF VersionsFollowApprovals

(* Then an event that is Done or Cancelled never changes again.            *)
(* (fo_approve, bo_approve)                                                *)
THEOREM EventsDecidedOnce ==
  ASSUME NoRefresh
  PROVE  Spec /\ []OneDecision => Promised!DecidedForGood
BY WorkflowImplementsVersioning, SamePromise, Promised!DecisionsAreFinal, PTL
DEF VersionsFollowApprovals

-----------------------------------------------------------------------------
(* With one handler at a time that takes decisions, whatever the others    *)
(* do, decisions do not overlap.                                           *)
THEOREM OneApproverDecidesAlone ==
  ASSUME \A g, h \in Approver : g = h
  PROVE  Spec => []OneDecision
<1>1. OneDecision
  BY DEF OneDecision
<1> QED BY <1>1, PTL
=============================================================================
