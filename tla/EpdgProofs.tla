------------------------------ MODULE EpdgProofs ------------------------------
(***************************************************************************)
(* Proofs about the ePDG under every controller that keeps to sessions     *)
(* (EpdgDriver), for any number of workers, IKE_SAs, queries and lines and *)
(* any length of the queues:                                               *)
(*                                                                         *)
(*   TypeCorrect     DriverSpec => []DriverTypeOK                          *)
(*   NoLateQuery     DriverSpec => []NoQueryAfterFin                       *)
(*   Refinement      DriverSpec => ImplementsPeer                          *)
(*                                                                         *)
(* The inductive invariant Inv says of every query line that is still on   *)
(* its way that the session it belongs to is open when it is read.         *)
(***************************************************************************)
EXTENDS EpdgDriver, EpdgLemmas

-----------------------------------------------------------------------------
(* The inductive invariant *)

Open == inst.initiated /\ ~inst.finished

NoFin(a, b) == \A k \in a..b : toEpdg[k].kind # "fin"

(* The session is open once the first n lines on the way are read. *)
OpenAfter(n) ==
    \/ Open /\ NoFin(1, n)
    \/ \E j \in 1..n : toEpdg[j].kind = "init" /\ NoFin(j, n)

Inv ==
    /\ DriverTypeOK
    /\ LineInWork
    /\ NoQueryAfterFin
    /\ \A n \in 1..Len(toEpdg) : toEpdg[n].kind = "query" => OpenAfter(n)
    /\ session => OpenAfter(Len(toEpdg))

-----------------------------------------------------------------------------
(* The lines on their way *)

(* The first line is read: a session that is open after n lines is open    *)
(* after the n - 1 that are left.                                          *)
LEMMA ReadShifts ==
    ASSUME toEpdg \in Seq(Line), toEpdg # << >>, toEpdg' = Tail(toEpdg),
           toEpdg[1].kind = "init" => Open',
           toEpdg[1].kind \notin {"init", "fin"} => (Open => Open'),
           NEW n \in 1..Len(toEpdg), OpenAfter(n)
    PROVE  OpenAfter(n - 1)'
<1>1. /\ Len(toEpdg) \in Nat \ {0} /\ Len(toEpdg') = Len(toEpdg) - 1
      /\ \A k \in 1..Len(toEpdg) - 1 : toEpdg'[k] = toEpdg[k + 1]
  BY Shifted
<1>2. n - 1 \in 0..Len(toEpdg) - 1
  BY <1>1
<1>3. ASSUME NEW j \in 1..n - 1, NoFin(j + 1, n)
      PROVE  NoFin(j, n - 1)'
  BY <1>1, <1>2, <1>3 DEF NoFin
<1>4. ASSUME NoFin(1, n)
      PROVE  NoFin(1, n - 1)'
  BY <1>1, <1>2, <1>4 DEF NoFin
<1>5. CASE Open /\ NoFin(1, n)
  <2>1. toEpdg[1].kind # "fin"
    BY <1>1, <1>5 DEF NoFin
  <2> QED
    BY <1>4, <1>5, <2>1 DEF OpenAfter
<1>6. CASE \E j \in 1..n : toEpdg[j].kind = "init" /\ NoFin(j, n)
  <2>1. PICK j \in 1..n : toEpdg[j].kind = "init" /\ NoFin(j, n)
    BY <1>6
  <2>2. CASE j = 1
    BY <2>1, <2>2, <1>4 DEF OpenAfter
  <2>3. CASE j # 1
    <3>1. j - 1 \in 1..n - 1 /\ (j - 1) + 1 = j
      BY <2>3, <1>2
    <3>2. NoFin(j - 1, n - 1)'
      BY <3>1, <2>1, <1>3
    <3>3. toEpdg'[j - 1].kind = "init"
      BY <3>1, <2>1, <1>1, <1>2
    <3> QED
      BY <3>1, <3>2, <3>3 DEF OpenAfter
  <2> QED
    BY <2>2, <2>3
<1> QED
  BY <1>5, <1>6 DEF OpenAfter

(* The invariant's part on the lines survives the reading of one. *)
LEMMA ReadKeepsSessions ==
    ASSUME Inv, toEpdg # << >>, toEpdg' = Tail(toEpdg), session' = session,
           toEpdg[1].kind = "init" => Open',
           toEpdg[1].kind \notin {"init", "fin"} => (Open => Open')
    PROVE  /\ \A n \in 1..Len(toEpdg') : toEpdg'[n].kind = "query" => OpenAfter(n)'
           /\ (session => OpenAfter(Len(toEpdg)))'
           /\ toEpdg' \in Seq(Line) /\ Len(toEpdg') <= Buffer
<1>1. toEpdg \in Seq(Line) /\ Len(toEpdg) <= Buffer
  BY DEF Inv, DriverTypeOK, TypeOK, ChannelTypeOK
<1>2. /\ Len(toEpdg) \in Nat \ {0} /\ Len(toEpdg') = Len(toEpdg) - 1
      /\ \A k \in 1..Len(toEpdg) - 1 : toEpdg'[k] = toEpdg[k + 1]
      /\ toEpdg' \in Seq(Line)
  BY <1>1, Shifted
<1>3. ASSUME NEW n \in 1..Len(toEpdg'), toEpdg'[n].kind = "query"
      PROVE  OpenAfter(n)'
  <2>1. PICK m \in 1..Len(toEpdg) : m = n + 1
    BY <1>2
  <2>2. toEpdg[m].kind = "query" /\ m - 1 = n
    BY <1>2, <1>3, <2>1
  <2>3. OpenAfter(m)
    BY <2>2 DEF Inv
  <2>4. OpenAfter(m - 1)'
    BY <1>1, <2>3, ReadShifts
  <2> QED
    BY <2>2, <2>4
<1>4. (session => OpenAfter(Len(toEpdg)))'
  <2>0. Len(toEpdg) \in 1..Len(toEpdg)
    BY <1>2
  <2>1. PICK n \in 1..Len(toEpdg) : n = Len(toEpdg)
    BY <2>0
  <2>2. ASSUME session
        PROVE  OpenAfter(n - 1)'
    <3>1. OpenAfter(n)
      BY <2>1, <2>2 DEF Inv
    <3> QED
      BY <1>1, <3>1, ReadShifts
  <2>3. n - 1 = Len(toEpdg')
    BY <1>2, <2>1
  <2> QED
    BY <2>2, <2>3
<1>5. Buffer \in Nat
  BY ChannelAssumption
<1> QED
  BY <1>1, <1>2, <1>3, <1>4, <1>5

(* Nothing but the instance changes, by a worker or the sender. *)
LEMMA TouchKeepsInv ==
    ASSUME Inv, toEpdg' = toEpdg, ChannelTypeOK', UNCHANGED <<lpc, driver>>, RestOK',
           Bounded(inst)', inst'.initiated = inst.initiated, inst'.finished = inst.finished,
           inst'.sa = Closed <=> inst.sa = Closed, inst'.query \in {inst.query, NoQuery}
    PROVE  Inv'
<1>1. DriverTypeOK'
  BY TypeParts DEF Inv, DriverTypeOK, TypeOK, Bounded, RestOK, ManagerOK, WorkersOK, NetworkOK,
                   driver
<1>2. Open' = Open
  BY DEF Open
<1>3. \A n : OpenAfter(n)' <=> OpenAfter(n)
  BY <1>2 DEF OpenAfter, NoFin
<1>4. LineInWork' /\ NoQueryAfterFin'
  BY DEF Inv, LineInWork, NoQueryAfterFin
<1> QED
  BY <1>1, <1>3, <1>4 DEF Inv, driver

(* A line of the controller is appended. *)
LEMMA SendKeepsLines ==
    ASSUME Inv, NEW l \in Line, SendLine(l)
    PROVE  /\ TypeOK' /\ lines' \in Nat /\ LineInWork' /\ NoQueryAfterFin'
           /\ Len(toEpdg') = Len(toEpdg) + 1 /\ Len(toEpdg) \in Nat
           /\ toEpdg'[Len(toEpdg) + 1] = l
           /\ \A n \in 0..Len(toEpdg) : OpenAfter(n)' <=> OpenAfter(n)
           /\ \A n \in 1..Len(toEpdg) : toEpdg'[n] = toEpdg[n]
           /\ l.kind # "fin" /\ OpenAfter(Len(toEpdg)) => OpenAfter(Len(toEpdg))'
<1>1. toEpdg \in Seq(Line) /\ Len(toEpdg) \in Nat /\ Len(toEpdg) <= Buffer
  BY DEF Inv, DriverTypeOK, TypeOK, ChannelTypeOK
<1>2. /\ toEpdg' = Append(toEpdg, l) /\ Len(toEpdg) < Buffer
      /\ UNCHANGED <<fromEpdg, inst, lpc, manager, worker, network, crashed>>
      /\ lines' = lines + 1
  BY DEF SendLine, WriteToEpdg
<1>3. /\ toEpdg' \in Seq(Line)
      /\ Len(toEpdg') = Len(toEpdg) + 1
      /\ \A n \in 1..Len(toEpdg) : toEpdg'[n] = toEpdg[n]
      /\ toEpdg'[Len(toEpdg) + 1] = l
  BY <1>1, <1>2, Appended
<1>4. TypeOK' /\ lines' \in Nat
  <2>1. Len(toEpdg') <= Buffer
    BY <1>1, <1>2, <1>3, ChannelAssumption
  <2>2. ChannelTypeOK'
    BY <1>2, <1>3, <2>1 DEF Inv, DriverTypeOK, TypeOK, ChannelTypeOK
  <2> QED
    BY <1>2, <2>2 DEF Inv, DriverTypeOK, TypeOK, manager, network
<1>5. LineInWork' /\ NoQueryAfterFin'
  <2>1. toEpdg # << >> => toEpdg' # << >> /\ toEpdg'[1] = toEpdg[1]
    BY <1>1, <1>3
  <2> QED
    BY <1>2, <2>1 DEF Inv, LineInWork, NoQueryAfterFin
<1>6. Open' = Open
  BY <1>2 DEF Open
<1>7. ASSUME NEW n \in 0..Len(toEpdg)
      PROVE  OpenAfter(n)' <=> OpenAfter(n)
  <2>1. \A k \in 1..n : k \in 1..Len(toEpdg) /\ toEpdg'[k] = toEpdg[k]
    BY <1>1, <1>3
  <2>2. \A j \in 1..n : NoFin(j, n)' <=> NoFin(j, n)
    BY <2>1 DEF NoFin
  <2>3. NoFin(1, n)' <=> NoFin(1, n)
    BY <2>1 DEF NoFin
  <2> QED
    BY <1>6, <2>1, <2>2, <2>3 DEF OpenAfter
<1>8. ASSUME l.kind # "fin", OpenAfter(Len(toEpdg))
      PROVE  OpenAfter(Len(toEpdg))'
  <2>0. PICK n \in Nat : n = Len(toEpdg) /\ n + 1 = Len(toEpdg')
    BY <1>1, <1>3
  <2>1. \A j \in 1..n + 1 : NoFin(j, n) => NoFin(j, n + 1)'
    BY <2>0, <1>3, <1>8 DEF NoFin
  <2>2. NoFin(1, n) => NoFin(1, n + 1)'
    BY <2>1
  <2>3. \A j \in 1..n : j \in 1..n + 1 /\ toEpdg'[j] = toEpdg[j]
    BY <2>0, <1>3
  <2>4. \/ Open /\ NoFin(1, n)
        \/ \E j \in 1..n : toEpdg[j].kind = "init" /\ NoFin(j, n)
    BY <1>8, <2>0 DEF OpenAfter
  <2>5. \/ Open' /\ NoFin(1, n + 1)'
        \/ \E j \in 1..n + 1 : toEpdg'[j].kind = "init" /\ NoFin(j, n + 1)'
    BY <1>6, <2>1, <2>2, <2>3, <2>4
  <2>6. OpenAfter(n + 1)'
    BY <2>5 DEF OpenAfter
  <2> QED
    BY <2>0, <2>6
<1> QED
  BY <1>1, <1>3, <1>4, <1>5, <1>7, <1>8

(* A line is only sent as its session allows, and the session is open      *)
(* after an init.                                                          *)
LEMMA SendKeepsInv ==
    ASSUME Inv, NEW l \in Line, SendLine(l), queries' \in 0..MaxQueries, session' \in BOOLEAN,
           l.kind = "query" => session,
           \/ l.kind # "fin" /\ session' = session
           \/ l.kind = "init" /\ session' = TRUE
           \/ l.kind = "fin" /\ session' = FALSE
    PROVE  Inv'
<1>1. /\ TypeOK' /\ lines' \in Nat /\ LineInWork' /\ NoQueryAfterFin'
      /\ Len(toEpdg') = Len(toEpdg) + 1 /\ Len(toEpdg) \in Nat
      /\ toEpdg'[Len(toEpdg) + 1] = l
      /\ \A n \in 0..Len(toEpdg) : OpenAfter(n)' <=> OpenAfter(n)
      /\ \A n \in 1..Len(toEpdg) : toEpdg'[n] = toEpdg[n]
      /\ l.kind # "fin" /\ OpenAfter(Len(toEpdg)) => OpenAfter(Len(toEpdg))'
  BY SendKeepsLines
<1>2. session /\ l.kind # "fin" => OpenAfter(Len(toEpdg))'
  BY <1>1 DEF Inv
<1>3. l.kind = "init" => OpenAfter(Len(toEpdg))'
  <2>1. PICK n \in Nat : n = Len(toEpdg')
    BY <1>1
  <2>2. n \in 1..n /\ toEpdg'[n] = l
    BY <1>1, <2>1
  <2>3. ASSUME l.kind = "init"
        PROVE  OpenAfter(n)'
    <3>1. NoFin(n, n)'
      BY <2>2, <2>3 DEF NoFin
    <3> QED
      BY <2>2, <2>3, <3>1 DEF OpenAfter
  <2> QED
    BY <2>1, <2>3
<1>4. ASSUME NEW n \in 1..Len(toEpdg'), toEpdg'[n].kind = "query"
      PROVE  OpenAfter(n)'
  <2>1. CASE n \in 1..Len(toEpdg)
    <3>1. toEpdg[n].kind = "query" /\ n \in 0..Len(toEpdg)
      BY <1>1, <1>4, <2>1
    <3>2. OpenAfter(n)
      BY <2>1, <3>1 DEF Inv
    <3> QED
      BY <1>1, <3>1, <3>2
  <2>2. CASE n = Len(toEpdg')
    <3>1. l.kind = "query"
      BY <1>1, <1>4, <2>2
    <3>2. OpenAfter(Len(toEpdg))'
      BY <1>2, <3>1
    <3> QED
      BY <2>2, <3>2
  <2> QED
    BY <1>1, <1>4, <2>1, <2>2
<1>5. (session => OpenAfter(Len(toEpdg)))'
  BY <1>2, <1>3
<1> QED
  BY <1>1, <1>4, <1>5 DEF Inv, DriverTypeOK

-----------------------------------------------------------------------------
(* The invariant *)

(* The inductive invariant holds when the ePDG starts. *)
LEMMA InitInv == DriverInit => Inv
<1> SUFFICES ASSUME DriverInit PROVE Inv
  OBVIOUS
<1>1. TypeOK /\ LineInWork /\ NoQueryAfterFin /\ toEpdg = << >>
  BY InitTypes DEF DriverInit, Init
<1>2. DriverTypeOK
  <2>1. 0 \in Nat /\ 0 \in 0..MaxQueries
    BY ChannelAssumption
  <2>2. session \in BOOLEAN /\ lines = 0 /\ queries = 0
    BY DEF DriverInit
  <2> QED
    BY <1>1, <2>1, <2>2 DEF DriverTypeOK
<1> QED
  BY <1>1, <1>2 DEF Inv, DriverInit

(* A step of the controller, the listener, the sender, a worker or the UE  *)
(* keeps the invariant.                                                    *)
LEMMA NextInv == Inv /\ [DriverNext]_<<vars, driver>> => Inv'
<1> SUFFICES ASSUME Inv, [DriverNext]_<<vars, driver>> PROVE Inv'
  OBVIOUS
<1>1. /\ TypeOK /\ ChannelTypeOK /\ Bounded(inst) /\ RestOK
      /\ toEpdg \in Seq(Line) /\ Len(toEpdg) <= Buffer /\ Len(toEpdg) \in Nat
      /\ fromEpdg \in Seq(Out) /\ Len(fromEpdg) <= Buffer
      /\ session \in BOOLEAN /\ lines \in Nat /\ queries \in 0..MaxQueries
  BY TypeParts DEF Inv, DriverTypeOK, ChannelTypeOK
<1>2. CASE UNCHANGED <<vars, driver>>
  <2>1. /\ UNCHANGED <<channel, inst, lpc, driver>>
        /\ UNCHANGED <<manager, worker, network, crashed>>
    BY <1>2 DEF vars
  <2>2. RestOK'
    BY <1>1, <2>1, RestUnchanged
  <2>3. ChannelTypeOK' /\ toEpdg' = toEpdg /\ Bounded(inst)'
    BY <1>1, <2>1 DEF ChannelTypeOK, channel, Bounded
  <2> QED
    BY <2>1, <2>2, <2>3, TouchKeepsInv
<1>3. CASE \E t \in Workers : Work(t) /\ UNCHANGED driver
  <2>1. PICK t \in Workers : Work(t) /\ UNCHANGED driver
    BY <1>3
  <2>2. Touches(inst, inst', 2) /\ UNCHANGED <<channel, lpc>> /\ RestOK'
    BY <1>1, <2>1, WorkTouches, WorkTypes DEF Inv, RestOK, WorkersOK
  <2>3. ChannelTypeOK' /\ toEpdg' = toEpdg
    BY <1>1, <2>2 DEF ChannelTypeOK, channel
  <2> QED
    BY <2>1, <2>2, <2>3, TouchKeepsInv DEF Touches, Bounded
<1>4. CASE \E t \in Workers, s \in SA : Receive(t, s) /\ UNCHANGED driver
  <2>1. PICK t \in Workers, s \in SA : Receive(t, s) /\ UNCHANGED driver
    BY <1>4
  <2>2. Touches(inst, inst', 0) /\ UNCHANGED <<channel, lpc>> /\ RestOK'
    BY <1>1, <2>1, ReceiveTypes
  <2>3. ChannelTypeOK' /\ toEpdg' = toEpdg
    BY <1>1, <2>2 DEF ChannelTypeOK, channel
  <2> QED
    BY <2>1, <2>2, <2>3, TouchKeepsInv DEF Touches, Bounded
<1>5. CASE UE /\ UNCHANGED driver
  <2>1. RestOK' /\ UNCHANGED <<channel, inst, lpc>>
    BY <1>1, <1>5, UETypes DEF UE, Exchanges
  <2>2. ChannelTypeOK' /\ toEpdg' = toEpdg /\ Bounded(inst)'
    BY <1>1, <2>1 DEF ChannelTypeOK, channel, Bounded
  <2> QED
    BY <1>5, <2>1, <2>2, TouchKeepsInv
<1>6. CASE Sender /\ UNCHANGED driver
  BY <1>1, <1>6, SenderTypes, TouchKeepsInv
<1>7. ASSUME Listener, UNCHANGED driver
      PROVE  Inv'
  <2>1. toEpdg # << >> /\ toEpdg[1] = Head(toEpdg)
    <3>1. toEpdg # << >>
      BY <1>7 DEF Inv, LineInWork, Listener, Hello, SetQuery, ResetUnbind, ResetRest, FinMark,
                  FinClear, FinUnbind
    <3> QED
      BY <1>1, <3>1, Shifted
  <2>2. toEpdg[1].kind = "query" => ~inst.finished
    <3>1. 1 \in 1..Len(toEpdg)
      BY <1>1, <2>1
    <3>2. toEpdg[1].kind = "query" => OpenAfter(1)
      BY <3>1 DEF Inv
    <3> QED
      BY <3>2 DEF OpenAfter, Open
  <2>3. TypeOK' /\ LineInWork' /\ NoQueryAfterFin'
    BY <1>1, <1>7, <2>1, <2>2, ListenerSteps DEF Inv
  <2>4. /\ UNCHANGED <<session, lines, queries>> /\ DriverTypeOK'
    BY <1>1, <1>7, <2>3 DEF driver, DriverTypeOK
  <2>5. ASSUME toEpdg' = toEpdg, Open' = Open \/ toEpdg[1].kind = "fin"
        PROVE  Inv'
    <3>1. Len(toEpdg) # 0
      BY <1>1, <2>1
    <3>2. \A n \in 1..Len(toEpdg) : OpenAfter(n) => OpenAfter(n)'
      <4>1. ASSUME NEW n \in 1..Len(toEpdg), Open, NoFin(1, n) PROVE Open' /\ NoFin(1, n)'
        <5>1. toEpdg[1].kind # "fin"
          BY <1>1, <4>1 DEF NoFin
        <5> QED
          BY <2>5, <4>1, <5>1 DEF NoFin
      <4>2. ASSUME NEW n, NEW j, NoFin(j, n) PROVE NoFin(j, n)'
        BY <2>5, <4>2 DEF NoFin
      <4> QED
        BY <4>1, <4>2, <2>5 DEF OpenAfter
    <3>3. \A n \in 1..Len(toEpdg') : toEpdg'[n].kind = "query" => OpenAfter(n)'
      BY <2>5, <3>2 DEF Inv
    <3>4. PICK n \in Nat : n = Len(toEpdg)
      BY <1>1
    <3>5. n \in 1..Len(toEpdg)
      BY <3>1, <3>4
    <3>6. session => OpenAfter(n)'
      BY <3>2, <3>4, <3>5 DEF Inv
    <3>7. (session => OpenAfter(Len(toEpdg)))'
      BY <3>4, <3>6, <2>4, <2>5
    <3> QED
      BY <2>3, <2>4, <3>3, <3>7 DEF Inv
  <2>6. ASSUME toEpdg' = Tail(toEpdg), toEpdg[1].kind = "init" => Open',
               toEpdg[1].kind \notin {"init", "fin"} => (Open => Open')
        PROVE  Inv'
    <3>1. /\ \A n \in 1..Len(toEpdg') : toEpdg'[n].kind = "query" => OpenAfter(n)'
          /\ (session => OpenAfter(Len(toEpdg)))'
      BY <2>1, <2>4, <2>6, ReadKeepsSessions
    <3> QED
      BY <2>3, <2>4, <3>1 DEF Inv
  <2>7. \/ /\ toEpdg' = Tail(toEpdg)
           /\ toEpdg[1].kind = "init" => Open'
           /\ toEpdg[1].kind \notin {"init", "fin"} => (Open => Open')
        \/ toEpdg' = toEpdg /\ (Open' = Open \/ toEpdg[1].kind = "fin")
    BY <1>1, <1>7, <2>1, <2>2, ListenerSteps DEF Inv, Open, channel
  <2> QED
    BY <2>5, <2>6, <2>7
<1>8. CASE SendHello
  <2>1. SendLine(Control("Hello")) /\ UNCHANGED <<session, queries>>
    BY <1>8 DEF SendHello
  <2>2. Control("Hello").kind = "Hello" /\ Control("Hello") \in Line
    BY ControlLines DEF Control
  <2> QED
    BY <2>1, <2>2, <1>1, SendKeepsInv
<1>9. CASE SendInit
  <2>1. SendLine(Control("init")) /\ session' = TRUE /\ UNCHANGED queries
    BY <1>9 DEF SendInit
  <2>2. Control("init").kind = "init" /\ Control("init") \in Line
    BY ControlLines DEF Control
  <2> QED
    BY <2>1, <2>2, <1>1, SendKeepsInv
<1>10. CASE SendFin
  <2>1. SendLine(Control("fin")) /\ session' = FALSE /\ UNCHANGED queries
    BY <1>10 DEF SendFin
  <2>2. Control("fin").kind = "fin" /\ Control("fin") \in Line
    BY ControlLines DEF Control
  <2> QED
    BY <2>1, <2>2, <1>1, SendKeepsInv
<1>11. CASE SendQuery
  <2>1. /\ session /\ session' = session /\ queries' \in 0..MaxQueries
        /\ queries + 1 \in 1..MaxQueries
    BY <1>1, <1>11, ChannelAssumption DEF SendQuery
  <2>2. PICK a \in Asked :
          SendLine([kind |-> "query",
                    query |-> [id |-> queries + 1, name |-> a.name, kind |-> a.kind]])
    BY <1>11 DEF SendQuery
  <2>3. a.name \in Responses /\ a.kind \in Kinds
    BY <2>2, DriverAssumption
  <2> DEFINE q == [id |-> queries + 1, name |-> a.name, kind |-> a.kind]
             l == [kind |-> "query", query |-> q]
  <2>4. q \in Query
    BY <2>1, <2>3 DEF Query
  <2>5. SendLine(l)
    BY <2>2
  <2> HIDE DEF q
  <2>6. l \in Line /\ l.kind = "query"
    BY <2>4 DEF Line
  <2> HIDE DEF l
  <2> QED
    BY <1>1, <2>1, <2>5, <2>6, SendKeepsInv
<1>12. CASE ReadLine
  <2>1. /\ fromEpdg # << >> /\ fromEpdg' = Tail(fromEpdg) /\ UNCHANGED driver
        /\ UNCHANGED <<toEpdg, inst, lpc, manager, worker, network, crashed>>
    BY <1>12 DEF ReadLine
  <2>2. fromEpdg' \in Seq(Out) /\ Len(fromEpdg') = Len(fromEpdg) - 1 /\ Len(fromEpdg) \in Nat
    BY <1>1, <2>1, Shifted
  <2>3. Len(fromEpdg') <= Buffer
    BY <1>1, <2>2, ChannelAssumption
  <2>4. ChannelTypeOK' /\ RestOK' /\ Bounded(inst)'
    BY <1>1, <2>1, <2>2, <2>3, RestUnchanged DEF ChannelTypeOK, Bounded
  <2> QED
    BY <2>1, <2>4, TouchKeepsInv
<1> QED
  BY <1>2, <1>3, <1>4, <1>5, <1>6, <1>7, <1>8, <1>9, <1>10, <1>11, <1>12 DEF DriverNext, EpdgNext

(* Every step of DriverSpec keeps the invariant. *)
THEOREM Invariance == DriverSpec => []Inv
<1> QED
  BY InitInv, NextInv, PTL DEF DriverSpec

(* Type correctness of the ePDG under any controller that keeps to         *)
(* sessions: in particular neither the send queue nor the connection ever  *)
(* holds more than its bound.                                              *)
THEOREM TypeCorrect == DriverSpec => []DriverTypeOK
<1>1. Inv => DriverTypeOK
  BY DEF Inv
<1> QED
  BY <1>1, Invariance, PTL

(* From fin to the next init no query is left for a worker to take. *)
THEOREM NoLateQuery == DriverSpec => []NoQueryAfterFin
<1>1. Inv => NoQueryAfterFin
  BY DEF Inv
<1> QED
  BY <1>1, Invariance, PTL

-----------------------------------------------------------------------------
(* Refinement *)

(* The ePDG starts as the abstract peer does. *)
LEMMA InitRefines == DriverInit => Peer!Init
<1> SUFFICES ASSUME DriverInit PROVE Peer!Init
  OBVIOUS
<1>1. inst.sa = Unbound /\ inst.sendq = << >>
  BY DEF DriverInit, Init, InitInstance
<1>2. ~(inst.sa = Closed)
  BY <1>1, ChannelAssumption
<1> QED
  BY <1>1, <1>2 DEF DriverInit, Init, Peer!Init

(* What a worker does to the instance is a report made, or nothing. *)
LEMMA TouchRefines ==
    ASSUME Bounded(inst), Touches(inst, inst', 2), UNCHANGED channel
    PROVE  Peer!Make \/ UNCHANGED Peer!peer
<1>1. /\ inst.sendq \in Seq(Report) /\ inst'.sendq \in Seq(Report)
      /\ Len(inst.sendq) \in Nat /\ Len(inst'.sendq) \in Nat
      /\ Len(inst'.sendq) <= MaxQueueLen
  BY QueueOf DEF Touches, Bounded
<1>2. UNCHANGED <<toEpdg, fromEpdg>> /\ ((inst'.sa = Closed) = (inst.sa = Closed))
  BY DEF channel, Touches
<1>3. CASE inst'.sendq = inst.sendq
  BY <1>2, <1>3 DEF Peer!peer
<1>4. CASE inst'.sendq # inst.sendq
  <2>1. inst.sa # Closed /\ Extends(inst.sendq, inst'.sendq, 2)
    BY <1>4 DEF Touches
  <2>2. Len(inst'.sendq) # Len(inst.sendq)
    BY <1>1, <1>4, <2>1 DEF Extends
  <2>3. Len(inst'.sendq) \in Len(inst.sendq) + 1 .. Len(inst.sendq) + 2
    BY <1>1, <2>1, <2>2 DEF Extends
  <2> QED
    BY <1>1, <1>2, <2>1, <2>3 DEF Peer!Make, Extends
<1> QED
  BY <1>3, <1>4

(* The controller's lines are written to the inbox. *)
LEMMA SendRefines ==
    ASSUME NEW l \in Line, SendLine(l)
    PROVE  Peer!Write
<1>1. toEpdg' = Append(toEpdg, l) /\ UNCHANGED <<fromEpdg, inst>>
  BY DEF SendLine, WriteToEpdg
<1> QED
  BY <1>1 DEF Peer!Write

(* Every step of the ePDG, its controller and the UE is one step of the    *)
(* control peer, or none.                                                  *)
LEMMA StepRefines ==
    Inv /\ Inv' /\ [DriverNext]_<<vars, driver>> => [Peer!Next]_Peer!peer
<1> SUFFICES ASSUME Inv, Inv', [DriverNext]_<<vars, driver>>
             PROVE  Peer!Next \/ UNCHANGED Peer!peer
  OBVIOUS
<1>1. /\ Bounded(inst) /\ RestOK /\ toEpdg \in Seq(Line) /\ Bounded(inst)'
      /\ queries \in 0..MaxQueries
  BY TypeParts DEF Inv, DriverTypeOK, ChannelTypeOK, TypeOK, Bounded
<1>2. CASE UNCHANGED <<vars, driver>>
  BY <1>2 DEF vars, channel, Peer!peer
<1>3. CASE \E t \in Workers : Work(t)
  <2>1. Touches(inst, inst', 2) /\ UNCHANGED channel
    BY <1>1, <1>3, WorkTouches DEF Inv, RestOK, WorkersOK
  <2> QED
    BY <1>1, <2>1, TouchRefines DEF Peer!Next
<1>4. CASE \E t \in Workers, s \in SA : Receive(t, s)
  <2>1. Touches(inst, inst', 0) /\ UNCHANGED channel
    BY <1>1, <1>4, ReceiveTypes
  <2>2. Touches(inst, inst', 2)
    BY <1>1, <2>1, TouchesLess
  <2> QED
    BY <1>1, <2>1, <2>2, TouchRefines DEF Peer!Next
<1>5. CASE UE
  BY <1>1, <1>5, UETypes DEF UE, Exchanges, channel, Peer!peer
<1>6. CASE Sender
  <2> DEFINE q == Tail(inst.sendq)
  <2>1. /\ inst.sendq # << >> /\ inst' = [inst EXCEPT !.sendq = q]
        /\ fromEpdg' = Append(fromEpdg, Head(inst.sendq)) /\ toEpdg' = toEpdg
    BY <1>6 DEF Sender, WriteFromEpdg
  <2>2. q \in Seq(Report)
    BY <1>1, <2>1, QueueOf, Shifted
  <2> HIDE DEF q
  <2>3. inst'.sendq = q /\ inst'.sa = inst.sa
    BY <1>1, <2>1, <2>2, QueueReplaced DEF Bounded
  <2>4. Peer!Emit
    BY <2>1, <2>3 DEF Peer!Emit, q
  <2> QED
    BY <2>4 DEF Peer!Next
<1>7. CASE Listener
  <2>1. toEpdg # << >> /\ toEpdg[1] = Head(toEpdg)
    <3>1. toEpdg # << >>
      BY <1>7 DEF Inv, LineInWork, Listener, Hello, SetQuery, ResetUnbind, ResetRest, FinMark,
                  FinClear, FinUnbind
    <3> QED
      BY <1>1, <3>1, Shifted
  <2>2. CASE Hello
    <3>1. Peer!Answer
      BY <2>1, <2>2 DEF Hello, WriteFromEpdg, KindOf, Peer!Answer, Peer!Consume
    <3> QED
      BY <3>1 DEF Peer!Next
  <2>3. CASE SetQuery
    <3>1. inst'.sendq = inst.sendq /\ inst'.sa = inst.sa
      BY <1>1, <2>3 DEF SetQuery, Bounded, Instance
    <3>2. Peer!Absorb
      BY <2>1, <2>3, <3>1 DEF SetQuery, KindOf, Peer!Absorb, Peer!Consume
    <3> QED
      BY <3>2 DEF Peer!Next
  <2>4. CASE ResetUnbind
    <3>1. inst'.sendq = inst.sendq /\ inst'.sa = Unbound
      BY <1>1, <2>4 DEF ResetUnbind, Bounded, Instance
    <3>2. (inst'.sa = Closed) = FALSE
      BY <3>1, ChannelAssumption
    <3>3. Peer!Reopen
      BY <2>1, <2>4, <3>1, <3>2 DEF ResetUnbind, channel, KindOf, Peer!Reopen
    <3> QED
      BY <3>3 DEF Peer!Next
  <2>5. CASE ResetRest
    <3>1. inst'.sendq = inst.sendq /\ inst'.sa = inst.sa
      BY <2>5 DEF ResetRest, InitInstance
    <3>2. KindOf(Head(toEpdg)) = "init"
      BY <2>1, <2>5 DEF ResetRest, Inv, LineInWork, KindOf
    <3>3. Peer!Answer
      BY <2>1, <2>5, <3>1, <3>2 DEF ResetRest, WriteFromEpdg, Peer!Answer, Peer!Consume
    <3> QED
      BY <3>3 DEF Peer!Next
  <2>6. CASE FinMark \/ FinClear
    <3>1. inst'.sendq = inst.sendq /\ inst'.sa = inst.sa /\ UNCHANGED channel
      BY <1>1, <2>6 DEF FinMark, FinClear, Bounded, Instance
    <3> QED
      BY <3>1 DEF channel, Peer!peer
  <2>7. CASE FinUnbind
    <3>1. inst'.sendq = inst.sendq /\ inst'.sa = Closed
      BY <1>1, <2>7 DEF FinUnbind, Bounded, Instance
    <3>2. KindOf(Head(toEpdg)) = "fin"
      BY <2>1, <2>7 DEF FinUnbind, Inv, LineInWork, KindOf
    <3>3. Peer!Close
      BY <2>1, <2>7, <3>1, <3>2 DEF FinUnbind, Peer!Close, Peer!Consume
    <3> QED
      BY <3>3 DEF Peer!Next
  <2> QED
    BY <1>7, <2>2, <2>3, <2>4, <2>5, <2>6, <2>7 DEF Listener
<1>8. CASE SendHello \/ SendInit \/ SendFin
  <2>1. \E k \in {"Hello", "init", "fin"} : SendLine(Control(k))
    BY <1>8 DEF SendHello, SendInit, SendFin
  <2> QED
    BY <2>1, ControlLines, SendRefines DEF Peer!Next
<1>9. CASE SendQuery
  <2>1. PICK a \in Asked :
          SendLine([kind |-> "query",
                    query |-> [id |-> queries + 1, name |-> a.name, kind |-> a.kind]])
    BY <1>9 DEF SendQuery
  <2>2. a.name \in Responses /\ a.kind \in Kinds /\ queries + 1 \in 1..MaxQueries
    BY <1>1, <1>9, <2>1, DriverAssumption, ChannelAssumption DEF SendQuery
  <2> DEFINE q == [id |-> queries + 1, name |-> a.name, kind |-> a.kind]
             l == [kind |-> "query", query |-> q]
  <2>3. q \in Query
    BY <2>2 DEF Query
  <2>4. SendLine(l)
    BY <2>1
  <2> HIDE DEF q
  <2>5. l \in Line
    BY <2>3 DEF Line
  <2> QED
    BY <2>4, <2>5, SendRefines DEF Peer!Next
<1>10. CASE ReadLine
  <2>1. Peer!Read
    BY <1>10 DEF ReadLine, Peer!Read
  <2> QED
    BY <2>1 DEF Peer!Next
<1> QED
  BY <1>2, <1>3, <1>4, <1>5, <1>6, <1>7, <1>8, <1>9, <1>10 DEF DriverNext, EpdgNext

(* The instrumented ePDG implements the control peer. *)
THEOREM Refinement == DriverSpec => ImplementsPeer
<1> QED
  BY Invariance, InitRefines, StepRefines, PTL DEF DriverSpec, ImplementsPeer, Peer!Spec
=============================================================================
