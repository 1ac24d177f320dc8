-------------------------- MODULE RunStream_proofs --------------------------
(***************************************************************************)
(* Proofs about the run hub, for any set of runs and viewers, any channel  *)
(* capacity and any number of events, with or without failing log writes.  *)
(***************************************************************************)
EXTENDS RunStream, SequenceTheorems, TLAPS

USE DEF Phases, ViewerStates

\* The elements of a sequence, one by one.
LEMMA SeqElements ==
  ASSUME NEW S, NEW s \in Seq(S)
  PROVE  Len(s) \in Nat /\ \A i \in 1..Len(s) : s[i] \in S
BY LenProperties

\* One lemma for the type invariant's step, one step per action of RunStream.
LEMMA TypeStep == TypeOK /\ [Next]_vars => TypeOK'
<1> SUFFICES ASSUME TypeOK, [Next]_vars PROVE TypeOK'
  OBVIOUS
<1> USE BufAssumption, MaxSeqAssumption DEF TypeOK
<1>1. ASSUME NEW r \in Runs, OpenLog(r) PROVE TypeOK'
  BY <1>1 DEF OpenLog, viewVars
<1>2. ASSUME NEW r \in Runs, Register(r) PROVE TypeOK'
  BY <1>2 DEF Register, viewVars
<1>3. ASSUME NEW r \in Runs, Emit(r) PROVE TypeOK'
  <2>1. seq[r] + 1 \in 1..MaxSeq
    BY <1>3 DEF Emit
  <2>2. log' \in [Runs -> Seq(1..MaxSeq)]
    BY <1>3, <2>1 DEF Emit
  <2>3. /\ queue' \in [Viewers -> Seq(1..MaxSeq)]
        /\ \A v \in Viewers : Len(queue'[v]) <= Buf
    <3>1. /\ DOMAIN queue' = Viewers
          /\ queue' = [v \in Viewers |-> queue'[v]]
      BY <1>3 DEF Emit
    <3>2. ASSUME NEW v \in Viewers
          PROVE  queue'[v] \in Seq(1..MaxSeq) /\ Len(queue'[v]) <= Buf
      <4>1. CASE Subscribed(v, r) /\ ~Full(v)
        <5>1. queue'[v] = Append(queue[v], seq[r] + 1)
          BY <1>3, <4>1 DEF Emit
        <5>2. Len(queue[v]) < Buf /\ queue[v] \in Seq(1..MaxSeq)
          BY <4>1 DEF Full
        <5> QED
          BY <2>1, <5>1, <5>2
      <4>2. CASE ~(Subscribed(v, r) /\ ~Full(v))
        BY <1>3, <4>2 DEF Emit
      <4> QED
        BY <4>1, <4>2
    <3> QED
      BY <3>1, <3>2
  <2>4. chan' \in [Viewers -> {"none", "open", "dropped", "closed"}]
    BY <1>3 DEF Emit, ChanAfterEmit
  <2> QED
    BY <1>3, <2>1, <2>2, <2>3, <2>4 DEF Emit, viewVars
<1>4. ASSUME NEW r \in Runs, Unlist(r) PROVE TypeOK'
  BY <1>4 DEF Unlist, viewVars
<1>5. ASSUME NEW r \in Runs, Close(r) PROVE TypeOK'
  BY <1>5 DEF Close, ChanAfterClose, viewVars
<1>6. ASSUME NEW v \in Viewers, NEW r \in Runs, Open(v, r) PROVE TypeOK'
  BY <1>6 DEF Open, runVars
<1>7. ASSUME NEW v \in Viewers, Lookup(v) PROVE TypeOK'
  <2>1. key[v] \in Runs /\ seq[key[v]] \in 0..MaxSeq /\ phase[key[v]] \in Phases
    OBVIOUS
  <2>2. /\ vpc' \in [Viewers -> ViewerStates]
        /\ from' \in [Viewers -> 0..MaxSeq]
        /\ found' \in [Viewers -> Phases]
    BY <1>7, <2>1 DEF Lookup
  <2> QED
    BY <1>7, <2>2 DEF Lookup, runVars
<1>8. ASSUME NEW v \in Viewers, Attach(v) PROVE TypeOK'
  BY <1>8 DEF Attach, runVars
<1>9. ASSUME NEW v \in Viewers, ReplayOne(v) PROVE TypeOK'
  <2> DEFINE e == log[key[v]][pos[v] + 1]
  <2>1. log[key[v]] \in Seq(1..MaxSeq) /\ pos[v] \in Nat /\ got[v] \in Seq(1..MaxSeq)
    OBVIOUS
  <2>2. pos[v] + 1 \in 1..Len(log[key[v]])
    BY <1>9, <2>1, SeqElements DEF ReplayOne, HasRecord
  <2>3. e \in 1..MaxSeq
    BY <2>1, <2>2, SeqElements
  <2> HIDE DEF e
  <2>4. Append(got[v], e) \in Seq(1..MaxSeq)
    BY <2>1, <2>3
  <2>5. got' = [got EXCEPT ![v] = Append(got[v], e)] /\ pos' = [pos EXCEPT ![v] = pos[v] + 1]
    BY <1>9 DEF ReplayOne, e
  <2>6. got' \in [Viewers -> Seq(1..MaxSeq)] /\ pos' \in [Viewers -> Nat]
    BY <2>1, <2>4, <2>5
  <2> QED
    BY <1>9, <2>6 DEF ReplayOne, runVars
<1>10. ASSUME NEW v \in Viewers, ReplayDone(v) PROVE TypeOK'
  BY <1>10 DEF ReplayDone, runVars
<1>11. ASSUME NEW v \in Viewers, Forward(v) PROVE TypeOK'
  <2>1. queue[v] \in Seq(1..MaxSeq) /\ queue[v] # <<>> /\ got[v] \in Seq(1..MaxSeq)
    BY <1>11 DEF Forward
  <2>2. /\ Head(queue[v]) \in 1..MaxSeq
        /\ Tail(queue[v]) \in Seq(1..MaxSeq)
        /\ Len(Tail(queue[v])) = Len(queue[v]) - 1
        /\ Len(queue[v]) \in Nat
    BY <2>1, HeadTailProperties, LenProperties
  <2>3. Append(got[v], Head(queue[v])) \in Seq(1..MaxSeq)
    BY <2>1, <2>2
  <2>4. /\ got' = [got EXCEPT ![v] = Append(got[v], Head(queue[v]))]
        /\ queue' = [queue EXCEPT ![v] = Tail(queue[v])]
    BY <1>11 DEF Forward
  <2>5. got' \in [Viewers -> Seq(1..MaxSeq)] /\ queue' \in [Viewers -> Seq(1..MaxSeq)]
    BY <2>2, <2>3, <2>4
  <2>6. \A w \in Viewers : Len(queue'[w]) <= Buf
    BY <2>2, <2>4
  <2> QED
    BY <1>11, <2>5, <2>6 DEF Forward, runVars
<1>12. ASSUME NEW v \in Viewers, TailEnd(v) PROVE TypeOK'
  BY <1>12 DEF TailEnd, runVars
<1>13. ASSUME NEW v \in Viewers, TailDropped(v) PROVE TypeOK'
  <2>1. <<>> \in Seq(1..MaxSeq) /\ Len(<<>>) <= Buf
    OBVIOUS
  <2>2. /\ queue' \in [Viewers -> Seq(1..MaxSeq)]
        /\ \A w \in Viewers : Len(queue'[w]) <= Buf
    BY <1>13, <2>1 DEF TailDropped
  <2> QED
    BY <1>13, <2>2 DEF TailDropped, runVars
<1>14. ASSUME NEW v \in Viewers, Leave(v) PROVE TypeOK'
  BY <1>14 DEF Leave, runVars
<1>15. CASE Crash
  BY <1>15 DEF Crash
<1>16. CASE UNCHANGED vars
  BY <1>16 DEF vars
<1> QED
  BY <1>1, <1>2, <1>3, <1>4, <1>5, <1>6, <1>7, <1>8, <1>9, <1>10, <1>11,
     <1>12, <1>13, <1>14, <1>15, <1>16 DEF Next, RunStep, ViewStep

\* Every variable keeps its type, and no channel exceeds its capacity (emit).
THEOREM TypeCorrect == Spec => []TypeOK
<1>1. Init => TypeOK
  BY BufAssumption, MaxSeqAssumption DEF Init, TypeOK
<1> QED
  BY <1>1, TypeStep, PTL DEF Spec

-----------------------------------------------------------------------------
(* The inductive invariant.                                                *)

\* The file of a run holds events in increasing order, none beyond the last one
\* emitted, and nothing at all before the run is registered.
LogInv(r) ==
    /\ Increasing(log[r])
    /\ \A i \in 1..Len(log[r]) : log[r][i] <= seq[r]
    /\ phase[r] \in {"none", "opening"} => seq[r] = 0 /\ log[r] = <<>>

\* A viewer that is not attached has an empty channel nobody writes to.
ChanInv(v) ==
    /\ chan[v] = "open" => vpc[v] \in {"replay", "tail"}
    /\ vpc[v] \in {"replay", "tail"} => chan[v] # "none"
    /\ vpc[v] \in {"opened", "found", "file"} => chan[v] = "none" /\ queue[v] = <<>>
    /\ vpc[v] \in {"opened", "found"} => got[v] = <<>> /\ pos[v] = 0 /\ from[v] = 0

\* While it reads the file, what it was sent is the part of the file it has read.
ReplayInv(v) ==
    vpc[v] \in {"file", "replay"} =>
        /\ Len(got[v]) = pos[v]
        /\ pos[v] <= Len(log[key[v]])
        /\ \A i \in 1..pos[v] : got[v][i] = log[key[v]][i]
        /\ vpc[v] = "replay" /\ from[v] > 0 => \A i \in 1..pos[v] : got[v][i] <= from[v]

\* Its channel holds, in order, events emitted after it attached, and later than
\* everything it was sent.
QueueInv(v) ==
    /\ from[v] <= seq[key[v]]
    /\ vpc[v] \in {"replay", "tail"} =>
        /\ Increasing(queue[v])
        /\ \A i \in 1..Len(queue[v]) : from[v] < queue[v][i] /\ queue[v][i] <= seq[key[v]]
    /\ vpc[v] = "tail" /\ from[v] > 0 =>
        \A i \in 1..Len(got[v]) :
            /\ got[v][i] <= seq[key[v]]
            /\ \A j \in 1..Len(queue[v]) : got[v][i] < queue[v][j]

\* What holds of one viewer; the first conjunct is InOrderOnce, the second
\* NoStrandedViewer.
ViewInv(v) ==
    /\ from[v] > 0 => Increasing(got[v])
    /\ vpc[v] \in {"replay", "tail"} /\ phase[key[v]] = "closed"
          => chan[v] \in {"closed", "dropped"}
    /\ ChanInv(v)
    /\ ReplayInv(v)
    /\ QueueInv(v)

Inv ==
    /\ TypeOK
    /\ \A r \in Runs : LogInv(r)
    /\ \A v \in Viewers : ViewInv(v)

\* Appending a later event keeps a sequence of events increasing.
LEMMA AppendIncreasing ==
  ASSUME NEW s \in Seq(1..MaxSeq), NEW e \in 1..MaxSeq, Increasing(s),
         \A i \in 1..Len(s) : s[i] < e
  PROVE  Increasing(Append(s, e))
BY MaxSeqAssumption DEF Increasing

\* The elements of a sequence after an append (emit, replayFile, the forwarding loop).
LEMMA AppendElements ==
  ASSUME NEW S, NEW s \in Seq(S), NEW e \in S
  PROVE  /\ Len(s) \in Nat
         /\ Len(Append(s, e)) = Len(s) + 1
         /\ \A i \in 1..Len(s) : s[i] \in S /\ Append(s, e)[i] = s[i]
         /\ Append(s, e)[Len(s) + 1] = e
         /\ \A j \in 1..Len(Append(s, e)) :
               \/ j \in 1..Len(s) /\ Append(s, e)[j] = s[j]
               \/ Append(s, e)[j] = e
BY AppendProperties, LenProperties

\* Taking the head off an increasing sequence leaves later elements only.
LEMMA TailIncreasing ==
  ASSUME NEW s \in Seq(1..MaxSeq), s # <<>>, Increasing(s)
  PROVE  /\ Increasing(Tail(s))
         /\ Len(Tail(s)) = Len(s) - 1
         /\ \A j \in 1..Len(Tail(s)) : Tail(s)[j] = s[j + 1] /\ Head(s) < s[j + 1]
BY MaxSeqAssumption DEF Increasing

\* No run and no viewer: the invariant holds at first.
LEMMA InitInv == Init => Inv
<1> SUFFICES ASSUME Init PROVE Inv
  OBVIOUS
<1>1. TypeOK
  BY BufAssumption, MaxSeqAssumption DEF Init, TypeOK
<1>2. \A r \in Runs : LogInv(r)
  BY DEF Init, LogInv, Increasing
<1>3. \A v \in Viewers : ViewInv(v)
  BY DEF Init, ViewInv, ChanInv, ReplayInv, QueueInv, Increasing
<1> QED
  BY <1>1, <1>2, <1>3 DEF Inv

\* A step that changes neither the viewer nor its run keeps what holds of it.
LEMMA ViewFrame ==
  ASSUME NEW v \in Viewers, ViewInv(v), key[v] \in Runs,
         vpc'[v] = vpc[v], key'[v] = key[v], from'[v] = from[v], pos'[v] = pos[v],
         got'[v] = got[v], queue'[v] = queue[v], chan'[v] = chan[v],
         seq'[key[v]] = seq[key[v]], log'[key[v]] = log[key[v]],
         phase'[key[v]] = "closed" => phase[key[v]] = "closed"
  PROVE  ViewInv(v)'
BY DEF ViewInv, ChanInv, ReplayInv, QueueInv, Increasing

\* A step that leaves a run's seq, log and phase keeps what holds of its file.
LEMMA LogFrame ==
  ASSUME NEW r \in Runs, LogInv(r), seq'[r] = seq[r], log'[r] = log[r],
         phase'[r] \in {"none", "opening"} => phase[r] \in {"none", "opening"}
  PROVE  LogInv(r)'
BY DEF LogInv, Increasing

\* emit: the event goes to the file, to the open channels with room, and drops the
\* other subscribers.
LEMMA EmitInv == ASSUME Inv, NEW r \in Runs, Emit(r), TypeOK' PROVE Inv'
<1> USE MaxSeqAssumption
<1>0. seq[r] + 1 \in 1..MaxSeq /\ seq[r] \in Nat /\ TypeOK
  BY DEF Inv, Emit, TypeOK
<1>1. \A q \in Runs : LogInv(q)'
  <2> SUFFICES ASSUME NEW q \in Runs PROVE LogInv(q)'
    OBVIOUS
  <2>1. CASE q = r
    <3>1. log[r] \in Seq(1..MaxSeq) /\ LogInv(r) /\ phase[r] = "live" /\ phase' = phase
      BY DEF Inv, TypeOK, Emit, viewVars
    <3>5. seq'[r] = seq[r] + 1
      BY <1>0 DEF Emit, TypeOK
    <3>6. \A i \in 1..Len(log[r]) : log[r][i] \in Nat
      BY <3>1
    <3>2. \A i \in 1..Len(log[r]) : log[r][i] < seq[r] + 1
      BY <1>0, <3>1, <3>6 DEF LogInv
    <3>3. CASE log'[r] = log[r]
      BY <1>0, <2>1, <3>1, <3>2, <3>3, <3>5, <3>6 DEF LogInv, Increasing
    <3>4. CASE log'[r] = Append(log[r], seq[r] + 1)
      <4>1. Increasing(log'[r])
        BY <1>0, <3>1, <3>2, <3>4, AppendIncreasing DEF LogInv
      <4>2. \A j \in 1..Len(log'[r]) :
               \/ j \in 1..Len(log[r]) /\ log'[r][j] = log[r][j]
               \/ log'[r][j] = seq[r] + 1
        BY <1>0, <3>1, <3>4, AppendElements
      <4>3. \A j \in 1..Len(log'[r]) : log'[r][j] <= seq[r] + 1
        BY <1>0, <3>2, <3>6, <4>2
      <4>4. phase'[r] = "live"
        BY <3>1
      <4> QED
        BY <2>1, <3>5, <4>1, <4>3, <4>4 DEF LogInv
    <3> QED
      BY <1>0, <3>3, <3>4 DEF Emit, TypeOK
  <2>2. CASE q # r
    BY <1>0, <2>2, LogFrame DEF Inv, Emit, TypeOK, viewVars
  <2> QED
    BY <2>1, <2>2
<1>2. \A v \in Viewers : ViewInv(v)'
  <2> SUFFICES ASSUME NEW v \in Viewers PROVE ViewInv(v)'
    OBVIOUS
  <2> DEFINE k == key[v]
  <2>0. /\ ViewInv(v) /\ LogInv(k) /\ k \in Runs
        /\ log[k] \in Seq(1..MaxSeq) /\ queue[v] \in Seq(1..MaxSeq)
        /\ got[v] \in Seq(1..MaxSeq) /\ from[v] \in 0..MaxSeq /\ seq[k] \in 0..MaxSeq
        /\ chan[v] \in {"none", "open", "dropped", "closed"} /\ pos[v] \in Nat
    BY <1>0 DEF Inv, TypeOK
  <2>1. CASE k # r
    BY <1>0, <2>0, <2>1, ViewFrame DEF Emit, Subscribed, ChanAfterEmit, viewVars, TypeOK
  <2>2. CASE k = r
    <3> HIDE DEF k
    <3>0. /\ vpc' = vpc /\ key' = key /\ from' = from /\ pos' = pos /\ got' = got
          /\ phase' = phase /\ seq'[k] = seq[k] + 1 /\ phase[k] = "live"
      BY <1>0, <2>0, <2>2 DEF Emit, viewVars, TypeOK
    <3>1. \/ log'[k] = log[k]
          \/ log'[k] = Append(log[k], seq[k] + 1)
      BY <1>0, <2>0, <2>2 DEF Emit, TypeOK
    <3>2. /\ Len(log[k]) <= Len(log'[k])
          /\ \A i \in 1..Len(log[k]) : log'[k][i] = log[k][i]
      <4>1. seq[k] + 1 \in 1..MaxSeq /\ log[k] \in Seq(1..MaxSeq)
        BY <1>0, <2>0, <2>2
      <4>2. /\ Len(log[k]) \in Nat
            /\ Len(Append(log[k], seq[k] + 1)) = Len(log[k]) + 1
            /\ \A i \in 1..Len(log[k]) : Append(log[k], seq[k] + 1)[i] = log[k][i]
        BY <4>1, AppendElements
      <4> QED
        BY <3>1, <4>2
    <3>3. \/ queue'[v] = queue[v]
          \/ chan[v] = "open" /\ queue'[v] = Append(queue[v], seq[k] + 1)
      <4>1. queue'[v] = IF Subscribed(v, r) /\ ~Full(v)
                        THEN Append(queue[v], seq[r] + 1) ELSE queue[v]
        BY DEF Emit
      <4> QED
        BY <2>2, <4>1 DEF Subscribed
    <3>4. \/ chan'[v] = chan[v]
          \/ chan[v] = "open" /\ chan'[v] = "dropped"
      <4>1. chan'[v] = ChanAfterEmit(v, r)
        BY DEF Emit
      <4> QED
        BY <4>1 DEF Subscribed, ChanAfterEmit
    <3>8. /\ \A i \in 1..Len(queue[v]) : queue[v][i] \in Nat
          /\ \A i \in 1..Len(got[v]) : got[v][i] \in Nat
      <4>1. /\ \A i \in 1..Len(queue[v]) : queue[v][i] \in 1..MaxSeq
            /\ \A i \in 1..Len(got[v]) : got[v][i] \in 1..MaxSeq
        BY <2>0, SeqElements
      <4> QED
        BY <4>1
    <3>5. ChanInv(v)'
      BY <2>0, <3>0, <3>3, <3>4 DEF ViewInv, ChanInv
    <3>6. ReplayInv(v)'
      <4>1. Len(log'[k]) \in Nat /\ Len(log[k]) \in Nat /\ Len(got[v]) \in Nat
        BY <2>0, <3>1, <1>0, <2>2
      <4>2. ReplayInv(v) /\ key'[v] = k
        BY <2>0, <3>0 DEF ViewInv, k
      <4>3. /\ vpc'[v] = vpc[v] /\ from'[v] = from[v] /\ pos'[v] = pos[v] /\ got'[v] = got[v]
            /\ pos[v] \in Nat
        BY <2>0, <3>0
      <4>4. ASSUME vpc[v] \in {"file", "replay"} PROVE
              /\ Len(got[v]) = pos[v]
              /\ pos[v] <= Len(log[k])
              /\ \A i \in 1..pos[v] : got[v][i] = log[k][i]
              /\ vpc[v] = "replay" /\ from[v] > 0 => \A i \in 1..pos[v] : got[v][i] <= from[v]
        BY <4>2, <4>4 DEF ReplayInv, k
      <4>5. ASSUME vpc[v] \in {"file", "replay"} PROVE
              /\ pos[v] <= Len(log'[k])
              /\ \A i \in 1..pos[v] : got[v][i] = log'[k][i]
        BY <3>2, <4>1, <4>3, <4>4, <4>5
      <4> QED
        BY <4>2, <4>3, <4>4, <4>5 DEF ReplayInv
    <3>7. QueueInv(v)'
      <4>1. from[v] <= seq'[k] /\ from[v] < seq[k] + 1 /\ seq[k] + 1 \in 1..MaxSeq
        BY <1>0, <2>0, <2>2, <3>0 DEF ViewInv, QueueInv, k
      <4>2. CASE queue'[v] = queue[v]
        <5>1. QueueInv(v)
          BY <2>0 DEF ViewInv
        <5>2. /\ seq'[key'[v]] = seq[k] + 1 /\ seq[key[v]] = seq[k] /\ seq[k] \in Nat
              /\ from[v] \in Nat
              /\ vpc'[v] = vpc[v] /\ from'[v] = from[v] /\ got'[v] = got[v]
          BY <2>0, <3>0 DEF k
        <5>3. from'[v] <= seq'[key'[v]]
          BY <4>1, <5>2
        <5>4. vpc'[v] \in {"replay", "tail"} =>
                /\ Increasing(queue'[v])
                /\ \A i \in 1..Len(queue'[v]) :
                      from'[v] < queue'[v][i] /\ queue'[v][i] <= seq'[key'[v]]
          BY <3>8, <4>2, <5>1, <5>2 DEF QueueInv
        <5>5. vpc'[v] = "tail" /\ from'[v] > 0 =>
                \A i \in 1..Len(got'[v]) :
                    /\ got'[v][i] <= seq'[key'[v]]
                    /\ \A j \in 1..Len(queue'[v]) : got'[v][i] < queue'[v][j]
          BY <3>8, <4>2, <5>1, <5>2 DEF QueueInv
        <5> QED
          BY <5>3, <5>4, <5>5 DEF QueueInv
      <4>3. CASE chan[v] = "open" /\ queue'[v] = Append(queue[v], seq[k] + 1)
        <5>1. vpc[v] \in {"replay", "tail"} /\ Increasing(queue[v])
          BY <2>0, <4>3 DEF ViewInv, ChanInv, QueueInv
        <5>2. \A i \in 1..Len(queue[v]) : queue[v][i] < seq[k] + 1 /\ from[v] < queue[v][i]
          BY <2>0, <3>8, <5>1 DEF ViewInv, QueueInv, k
        <5>3. Increasing(queue'[v])
          BY <2>0, <4>1, <4>3, <5>1, <5>2, AppendIncreasing
        <5>6. \A j \in 1..Len(queue'[v]) :
                 \/ j \in 1..Len(queue[v]) /\ queue'[v][j] = queue[v][j]
                 \/ queue'[v][j] = seq[k] + 1
          BY <2>0, <4>1, <4>3, AppendElements
        <5>4. \A i \in 1..Len(queue'[v]) :
                 from[v] < queue'[v][i] /\ queue'[v][i] <= seq[k] + 1
          BY <3>8, <4>1, <5>2, <5>6
        <5>5. ASSUME vpc[v] = "tail", from[v] > 0
              PROVE  \A i \in 1..Len(got[v]) :
                       /\ got[v][i] <= seq[k] + 1
                       /\ \A j \in 1..Len(queue'[v]) : got[v][i] < queue'[v][j]
          <6>1. \A i \in 1..Len(got[v]) :
                   /\ got[v][i] <= seq[k]
                   /\ \A j \in 1..Len(queue[v]) : got[v][i] < queue[v][j]
            BY <2>0, <5>5 DEF ViewInv, QueueInv, k
          <6>2. \A i \in 1..Len(got[v]) : got[v][i] < seq[k] + 1
            BY <2>0, <3>8, <6>1
          <6>3. ASSUME NEW i \in 1..Len(got[v]), NEW j \in 1..Len(queue'[v])
                PROVE  got[v][i] < queue'[v][j]
            BY <5>6, <6>1, <6>2
          <6>4. ASSUME NEW i \in 1..Len(got[v])
                PROVE  got[v][i] <= seq[k] + 1
            BY <4>1, <3>8, <6>2
          <6> QED
            BY <6>3, <6>4
        <5> QED
          BY <3>0, <4>1, <5>3, <5>4, <5>5 DEF QueueInv, k
      <4> QED
        BY <3>3, <4>2, <4>3
    <3> QED
      BY <2>0, <3>0, <3>4, <3>5, <3>6, <3>7 DEF ViewInv, k
  <2> QED
    BY <2>1, <2>2
<1> QED
  BY <1>1, <1>2 DEF Inv

\* The actions of a run's goroutine other than emit only move its phase, and close
\* the channels of its subscribers.
LEMMA RunInv ==
  ASSUME Inv, NEW r \in Runs, TypeOK',
         OpenLog(r) \/ Register(r) \/ Unlist(r) \/ Close(r)
  PROVE  Inv'
<1>0. TypeOK /\ LogInv(r)
  BY DEF Inv
<1>1. seq' = seq /\ queue' = queue /\ UNCHANGED viewVars
  BY DEF OpenLog, Register, Unlist, Close
<1>2. log' = log
  BY <1>0 DEF OpenLog, Register, Unlist, Close, LogInv, TypeOK
<1>3. \A q \in Runs : LogInv(q)'
  <2> SUFFICES ASSUME NEW q \in Runs PROVE LogInv(q)'
    OBVIOUS
  <2>1. phase'[q] \in {"none", "opening"} => phase[q] \in {"none", "opening"}
    BY <1>0 DEF OpenLog, Register, Unlist, Close, TypeOK
  <2> QED
    BY <1>1, <1>2, <2>1, LogFrame DEF Inv
<1>4. \A v \in Viewers : ViewInv(v)'
  <2> SUFFICES ASSUME NEW v \in Viewers PROVE ViewInv(v)'
    OBVIOUS
  <2>0. ViewInv(v) /\ key[v] \in Runs
    BY DEF Inv, TypeOK
  <2>1. CASE OpenLog(r) \/ Register(r) \/ Unlist(r)
    <3>1. chan' = chan /\ (phase'[key[v]] = "closed" => phase[key[v]] = "closed")
      <4>1. \E p \in {"opening", "live", "unlisted"} : phase' = [phase EXCEPT ![r] = p]
        BY <2>1 DEF OpenLog, Register, Unlist
      <4>2. phase \in [Runs -> Phases]
        BY <1>0 DEF TypeOK
      <4>3. chan' = chan
        BY <2>1 DEF OpenLog, Register, Unlist, viewVars
      <4> QED
        BY <2>0, <4>1, <4>2, <4>3
    <3> QED
      BY <1>1, <1>2, <2>0, <3>1, ViewFrame DEF viewVars
  <2>2. CASE Close(r)
    <3>1. /\ chan'[v] = IF Subscribed(v, r) THEN "closed" ELSE chan[v]
          /\ phase'[key[v]] = IF key[v] = r THEN "closed" ELSE phase[key[v]]
      BY <1>0, <2>0, <2>2 DEF Close, ChanAfterClose, TypeOK
    <3>2. ChanInv(v) /\ ReplayInv(v) /\ QueueInv(v)
      BY <2>0 DEF ViewInv
    <3>3. ChanInv(v)'
      BY <1>1, <3>1, <3>2 DEF ChanInv, viewVars, Subscribed
    <3>4. ReplayInv(v)' /\ QueueInv(v)'
      BY <1>1, <1>2, <3>2 DEF ReplayInv, QueueInv, viewVars, Increasing
    <3>5. vpc'[v] \in {"replay", "tail"} /\ phase'[key'[v]] = "closed"
             => chan'[v] \in {"closed", "dropped"}
      <4>1. CASE key[v] = r
        <5>1. ASSUME vpc[v] \in {"replay", "tail"}, chan[v] # "open"
              PROVE  chan[v] \in {"closed", "dropped"}
          BY <1>0, <5>1, <3>2, <2>0 DEF TypeOK, ViewInv, ChanInv
        <5> QED
          BY <1>1, <3>1, <4>1, <5>1 DEF Subscribed, viewVars
      <4>2. CASE key[v] # r
        BY <1>1, <2>0, <3>1, <4>2 DEF ViewInv, Subscribed, viewVars
      <4> QED
        BY <4>1, <4>2
    <3> QED
      BY <1>1, <2>0, <3>3, <3>4, <3>5 DEF ViewInv, viewVars
  <2> QED
    BY <2>1, <2>2
<1> QED
  BY <1>3, <1>4 DEF Inv

\* A step of one viewer leaves the runs and the other viewers alone.
LEMMA ViewerInv ==
  ASSUME Inv, NEW v \in Viewers, TypeOK', UNCHANGED runVars, ViewInv(v)',
         \A w \in Viewers \ {v} :
            /\ vpc'[w] = vpc[w] /\ key'[w] = key[w] /\ from'[w] = from[w]
            /\ pos'[w] = pos[w] /\ got'[w] = got[w] /\ queue'[w] = queue[w]
            /\ chan'[w] = chan[w]
  PROVE  Inv'
<1>1. \A r \in Runs : LogInv(r)'
  BY LogFrame DEF Inv, runVars
<1>2. ASSUME NEW w \in Viewers PROVE ViewInv(w)'
  <2>1. CASE w = v
    BY <2>1
  <2>2. CASE w # v
    <3>1. ViewInv(w) /\ key[w] \in Runs
      BY DEF Inv, TypeOK
    <3> QED
      BY <2>2, <3>1, ViewFrame DEF runVars
  <2> QED
    BY <2>1, <2>2
<1> QED
  BY <1>1, <1>2 DEF Inv

\* A viewer opens the stream of a run: it starts over.
LEMMA OpenInv ==
  ASSUME Inv, NEW v \in Viewers, NEW r \in Runs, Open(v, r), TypeOK' PROVE Inv'
<1>0. TypeOK
  BY DEF Inv
<1>1. /\ vpc'[v] = "opened" /\ from'[v] = 0 /\ pos'[v] = 0 /\ got'[v] = <<>>
      /\ queue'[v] = <<>> /\ chan'[v] = "none" /\ key'[v] = r /\ seq'[r] \in Nat
  BY <1>0 DEF Open, TypeOK, runVars
<1>2. ViewInv(v)'
  BY <1>1 DEF ViewInv, ChanInv, ReplayInv, QueueInv
<1>3. UNCHANGED runVars
  BY DEF Open
<1> QED
  BY <1>0, <1>2, <1>3, ViewerInv DEF Open, TypeOK

\* Subscribe's look at the registry.
LEMMA LookupInv ==
  ASSUME Inv, NEW v \in Viewers, Lookup(v), TypeOK' PROVE Inv'
<1>0. TypeOK /\ ViewInv(v) /\ UNCHANGED runVars
  BY DEF Inv, Lookup
<1> DEFINE k == key[v]
<1>1. /\ k \in Runs /\ seq[k] \in Nat /\ Len(log[k]) \in Nat
      /\ vpc[v] = "opened" /\ got[v] = <<>> /\ pos[v] = 0 /\ from[v] = 0
      /\ chan[v] = "none" /\ queue[v] = <<>>
  BY <1>0, LenProperties DEF Lookup, ViewInv, ChanInv, TypeOK
<1>2. /\ vpc'[v] \in {"found", "file"}
      /\ from'[v] <= seq[k] /\ (vpc'[v] = "found" => from'[v] = 0)
      /\ key'[v] = k /\ pos'[v] = 0 /\ got'[v] = <<>> /\ queue'[v] = <<>>
      /\ chan'[v] = "none"
  BY <1>0, <1>1 DEF Lookup, TypeOK
<1>3. ViewInv(v)'
  BY <1>0, <1>1, <1>2 DEF ViewInv, ChanInv, ReplayInv, QueueInv, Increasing, runVars
<1>4. ASSUME NEW w \in Viewers \ {v}
      PROVE  /\ vpc'[w] = vpc[w] /\ key'[w] = key[w] /\ from'[w] = from[w]
             /\ pos'[w] = pos[w] /\ got'[w] = got[w] /\ queue'[w] = queue[w]
             /\ chan'[w] = chan[w]
  BY <1>0 DEF Lookup, TypeOK
<1> QED
  BY <1>0, <1>3, <1>4, ViewerInv

\* Subscribe takes its snapshot of seq and joins the subscribers.
LEMMA AttachInv ==
  ASSUME Inv, NEW v \in Viewers, Attach(v), TypeOK' PROVE Inv'
<1>0. TypeOK /\ ViewInv(v) /\ UNCHANGED runVars
  BY DEF Inv, Attach
<1> DEFINE k == key[v]
<1>1. /\ k \in Runs /\ seq[k] \in Nat /\ Len(log[k]) \in Nat
      /\ vpc[v] = "found" /\ got[v] = <<>> /\ pos[v] = 0
      /\ chan[v] = "none" /\ queue[v] = <<>>
  BY <1>0, LenProperties DEF Attach, ViewInv, ChanInv, TypeOK
<1>2. /\ \/ vpc'[v] = "file" /\ chan'[v] = "none"
         \/ vpc'[v] = "replay" /\ chan'[v] = "open" /\ phase[k] # "closed"
      /\ from'[v] = seq[k] /\ key'[v] = k /\ pos'[v] = 0 /\ got'[v] = <<>>
      /\ queue'[v] = <<>>
  BY <1>0, <1>1 DEF Attach, StillOpen, TypeOK
<1>3. ViewInv(v)'
  BY <1>0, <1>1, <1>2 DEF ViewInv, ChanInv, ReplayInv, QueueInv, Increasing, runVars
<1>4. ASSUME NEW w \in Viewers \ {v}
      PROVE  /\ vpc'[w] = vpc[w] /\ from'[w] = from[w] /\ chan'[w] = chan[w]
             /\ key' = key /\ pos' = pos /\ got' = got /\ queue' = queue
  BY <1>0 DEF Attach, TypeOK
<1> QED
  BY <1>0, <1>3, <1>4, ViewerInv

\* replayFile sends one record, which is within the viewer's limit.
LEMMA ReplayOneInv ==
  ASSUME Inv, NEW v \in Viewers, ReplayOne(v), TypeOK' PROVE Inv'
<1> USE MaxSeqAssumption
<1> DEFINE k == key[v]
           e == log[k][pos[v] + 1]
<1>0. TypeOK /\ ViewInv(v) /\ UNCHANGED runVars /\ k \in Runs /\ LogInv(k)
  BY DEF Inv, ReplayOne, TypeOK
<1>1. /\ got[v] \in Seq(1..MaxSeq) /\ log[k] \in Seq(1..MaxSeq)
      /\ Len(log[k]) \in Nat /\ pos[v] \in Nat /\ from[v] \in Nat
      /\ pos[v] < Len(log[k])
  BY <1>0, LenProperties DEF ReplayOne, HasRecord, TypeOK
<1>2. e \in 1..MaxSeq
  <2>1. pos[v] + 1 \in 1..Len(log[k])
    BY <1>1
  <2> QED
    BY <1>1, <2>1, SeqElements
<1>3. /\ vpc[v] \in {"file", "replay"}
      /\ Len(got[v]) = pos[v]
      /\ \A i \in 1..pos[v] : got[v][i] = log[k][i]
      /\ vpc[v] = "replay" /\ from[v] > 0 => \A i \in 1..pos[v] : got[v][i] <= from[v]
      /\ ChanInv(v) /\ QueueInv(v)
  BY <1>0 DEF ReplayOne, ViewInv, ReplayInv
<1>4. /\ pos'[v] = pos[v] + 1 /\ got'[v] = Append(got[v], e)
      /\ vpc'[v] = vpc[v] /\ key'[v] = k /\ from'[v] = from[v] /\ queue'[v] = queue[v]
      /\ chan'[v] = chan[v]
  BY <1>0, <1>1 DEF ReplayOne, TypeOK
<1>5. /\ Len(got'[v]) = pos[v] + 1
      /\ \A i \in 1..pos[v] : got'[v][i] = got[v][i]
      /\ got'[v][pos[v] + 1] = e
  BY <1>1, <1>2, <1>3, <1>4, AppendElements
<1>13. pos[v] \in Nat => \A i \in 1..(pos[v] + 1) : i = pos[v] + 1 \/ i \in 1..pos[v]
  OBVIOUS
<1>12. ASSUME NEW i \in 1..(pos[v] + 1) PROVE got'[v][i] = log[k][i]
  <2>1. CASE i = pos[v] + 1
    BY <1>5, <2>1
  <2>2. CASE i \in 1..pos[v]
    BY <1>3, <1>5, <2>2
  <2> QED
    BY <1>1, <1>13, <2>1, <2>2
<1>6. from[v] > 0 => Increasing(got'[v])
  <2>1. Increasing(log[k])
    BY <1>0 DEF LogInv
  <2>2. \A i \in 1..(pos[v] + 1) : got'[v][i] = log[k][i]
    BY <1>12
  <2>3. \A i \in 1..(pos[v] + 1) : i \in 1..Len(log[k])
    BY <1>1
  <2> HIDE DEF k, e
  <2> QED
    BY <1>5, <2>1, <2>2, <2>3 DEF Increasing
<1>7. ReplayInv(v)'
  <2>1. vpc[v] = "replay" /\ from[v] > 0 => e <= from[v]
    BY <1>1 DEF ReplayOne, HasRecord, UpTo
  <2>2. /\ Len(got'[v]) = pos'[v]
        /\ pos'[v] <= Len(log'[key'[v]])
        /\ \A i \in 1..pos'[v] : got'[v][i] = log'[key'[v]][i]
    <3>1. log'[key'[v]] = log[k]
      BY <1>0, <1>4 DEF runVars
    <3>2. pos'[v] = pos[v] + 1 /\ Len(got'[v]) = pos[v] + 1 /\ pos[v] + 1 <= Len(log[k])
      BY <1>1, <1>4, <1>5
    <3>3. \A i \in 1..(pos[v] + 1) : got'[v][i] = log[k][i]
      BY <1>12
    <3> HIDE DEF k, e
    <3> QED
      BY <3>1, <3>2, <3>3
  <2>3. vpc'[v] = "replay" /\ from'[v] > 0 => \A i \in 1..pos'[v] : got'[v][i] <= from'[v]
    <3> SUFFICES ASSUME vpc[v] = "replay", from[v] > 0, NEW i \in 1..(pos[v] + 1)
                 PROVE  got'[v][i] <= from[v]
      BY <1>4
    <3>1. CASE i = pos[v] + 1
      BY <1>5, <2>1, <3>1
    <3>2. CASE i \in 1..pos[v]
      BY <1>3, <1>5, <3>2
    <3> QED
      BY <1>1, <1>13, <3>1, <3>2
  <2> QED
    BY <2>2, <2>3 DEF ReplayInv
<1>8. ChanInv(v)'
  BY <1>3, <1>4 DEF ChanInv
<1>9. QueueInv(v)'
  BY <1>0, <1>3, <1>4 DEF QueueInv, runVars
<1>10. ViewInv(v)'
  BY <1>0, <1>4, <1>6, <1>7, <1>8, <1>9 DEF ViewInv, runVars
<1> QED
  BY <1>0, <1>10, ViewerInv DEF ReplayOne, TypeOK

\* replayFile returns: everything sent so far is older than what the channel holds.
LEMMA ReplayDoneInv ==
  ASSUME Inv, NEW v \in Viewers, ReplayDone(v), TypeOK' PROVE Inv'
<1> DEFINE k == key[v]
<1>0. /\ TypeOK /\ ViewInv(v) /\ UNCHANGED runVars /\ k \in Runs
      /\ got[v] \in Seq(1..MaxSeq) /\ queue[v] \in Seq(1..MaxSeq)
      /\ from[v] \in Nat /\ seq[k] \in Nat
  BY MaxSeqAssumption DEF Inv, ReplayDone, TypeOK
<1>1. /\ got'[v] = got[v] /\ queue'[v] = queue[v] /\ from'[v] = from[v] /\ key'[v] = k
      /\ vpc'[v] = IF vpc[v] = "file" THEN "ended" ELSE "tail"
      /\ chan'[v] = IF vpc[v] = "file" THEN "closed" ELSE chan[v]
      /\ vpc[v] \in {"file", "replay"}
  BY <1>0 DEF ReplayDone, TypeOK
<1>2. QueueInv(v)'
  <2>1. QueueInv(v)
    BY <1>0 DEF ViewInv
  <2>2. ASSUME vpc'[v] = "tail", from[v] > 0, NEW i \in 1..Len(got[v])
        PROVE  /\ got[v][i] <= from[v]
               /\ from[v] <= seq[k]
               /\ \A j \in 1..Len(queue[v]) : from[v] < queue[v][j]
    BY <1>0, <1>1, <2>1, <2>2 DEF ViewInv, ReplayInv, QueueInv
  <2>3. /\ \A i \in 1..Len(got[v]) : got[v][i] \in Nat
        /\ \A j \in 1..Len(queue[v]) : queue[v][j] \in Nat
    BY <1>0, LenProperties, MaxSeqAssumption
  <2>4. vpc'[v] = "tail" /\ from[v] > 0 =>
          \A i \in 1..Len(got[v]) :
              /\ got[v][i] <= seq[k]
              /\ \A j \in 1..Len(queue[v]) : got[v][i] < queue[v][j]
    BY <1>0, <2>2, <2>3
  <2> QED
    BY <1>0, <1>1, <2>1, <2>4 DEF QueueInv, runVars
<1>3. ViewInv(v)'
  BY <1>0, <1>1, <1>2 DEF ViewInv, ChanInv, ReplayInv, runVars
<1> QED
  BY <1>0, <1>3, ViewerInv DEF ReplayDone, TypeOK

\* The head of the channel is later than everything sent and older than the rest.
LEMMA ForwardInv ==
  ASSUME Inv, NEW v \in Viewers, Forward(v), TypeOK' PROVE Inv'
<1> USE MaxSeqAssumption
<1> DEFINE k == key[v]
           m == Head(queue[v])
<1>0. /\ TypeOK /\ ViewInv(v) /\ UNCHANGED runVars /\ k \in Runs
      /\ got[v] \in Seq(1..MaxSeq) /\ queue[v] \in Seq(1..MaxSeq) /\ queue[v] # <<>>
      /\ from[v] \in Nat /\ seq[k] \in Nat /\ vpc[v] = "tail"
  <2>1. /\ TypeOK /\ ViewInv(v) /\ UNCHANGED runVars /\ queue[v] # <<>> /\ vpc[v] = "tail"
    BY DEF Inv, Forward
  <2>2. /\ k \in Runs /\ got[v] \in Seq(1..MaxSeq) /\ queue[v] \in Seq(1..MaxSeq)
        /\ from[v] \in 0..MaxSeq
    BY <2>1 DEF TypeOK
  <2>3. seq[k] \in 0..MaxSeq
    BY <2>1, <2>2 DEF TypeOK
  <2> QED
    BY <2>1, <2>2, <2>3
<1>1. /\ got'[v] = Append(got[v], m) /\ queue'[v] = Tail(queue[v])
      /\ from'[v] = from[v] /\ key'[v] = k /\ vpc'[v] = vpc[v] /\ chan'[v] = chan[v]
  BY <1>0 DEF Forward, TypeOK
<1>2. m \in 1..MaxSeq /\ 1 \in 1..Len(queue[v]) /\ m = queue[v][1]
  BY <1>0, HeadTailProperties, LenProperties
<1>3. /\ Increasing(queue[v]) /\ from[v] <= seq[k]
      /\ \A i \in 1..Len(queue[v]) : from[v] < queue[v][i] /\ queue[v][i] <= seq[k]
      /\ from[v] > 0 =>
           /\ Increasing(got[v])
           /\ \A i \in 1..Len(got[v]) :
                /\ got[v][i] <= seq[k]
                /\ \A j \in 1..Len(queue[v]) : got[v][i] < queue[v][j]
  BY <1>0 DEF ViewInv, QueueInv
<1>4. /\ Increasing(Tail(queue[v]))
      /\ Len(Tail(queue[v])) = Len(queue[v]) - 1
      /\ \A j \in 1..Len(Tail(queue[v])) :
           /\ j + 1 \in 1..Len(queue[v])
           /\ Tail(queue[v])[j] = queue[v][j + 1]
           /\ m < queue[v][j + 1]
  BY <1>0, <1>3, TailIncreasing, LenProperties
<1>5. \A i \in 1..Len(got'[v]) :
         \/ i \in 1..Len(got[v]) /\ got'[v][i] = got[v][i]
         \/ got'[v][i] = m
  BY <1>0, <1>1, <1>2, AppendElements
<1>6. from[v] > 0 => Increasing(got'[v])
  BY <1>0, <1>1, <1>2, <1>3, AppendIncreasing
<1>7. ASSUME from[v] > 0, NEW i \in 1..Len(got'[v])
      PROVE  /\ got'[v][i] <= seq[k]
             /\ \A j \in 1..Len(queue'[v]) : got'[v][i] < queue'[v][j]
  <2> HIDE DEF k, m
  <2>1. CASE i \in 1..Len(got[v]) /\ got'[v][i] = got[v][i]
    BY <1>1, <1>3, <1>4, <1>7, <2>1
  <2>2. CASE got'[v][i] = m
    BY <1>1, <1>2, <1>3, <1>4, <2>2
  <2> QED
    BY <1>5, <2>1, <2>2
<1>8. QueueInv(v)'
  <2>1. from'[v] <= seq'[key'[v]] /\ Increasing(queue'[v])
    BY <1>0, <1>1, <1>3, <1>4 DEF runVars
  <2>2. \A j \in 1..Len(queue'[v]) : from[v] < queue'[v][j] /\ queue'[v][j] <= seq[k]
    BY <1>1, <1>3, <1>4
  <2> QED
    BY <1>0, <1>1, <1>7, <2>1, <2>2 DEF QueueInv, runVars
<1>9. ViewInv(v)'
  BY <1>0, <1>1, <1>6, <1>8 DEF ViewInv, ChanInv, ReplayInv, runVars
<1> QED
  BY <1>0, <1>9, ViewerInv DEF Forward, TypeOK

\* The viewer stops watching: what it was sent stays.
LEMMA StopInv ==
  ASSUME Inv, NEW v \in Viewers, TypeOK',
         TailEnd(v) \/ TailDropped(v) \/ Leave(v)
  PROVE  Inv'
<1>0. TypeOK /\ ViewInv(v) /\ UNCHANGED runVars
  BY DEF Inv, TailEnd, TailDropped, Leave
<1>1. /\ vpc'[v] \in {"idle", "ended"} /\ got' = got /\ from' = from /\ key' = key
      /\ chan'[v] # "open" /\ pos' = pos
  BY <1>0 DEF TailEnd, AtEof, TailDropped, Leave, TypeOK
<1>2. ChanInv(v)' /\ ReplayInv(v)'
  BY <1>1 DEF ChanInv, ReplayInv
<1>3. QueueInv(v)'
  <2>1. from[v] <= seq[key[v]] /\ seq' = seq
    BY <1>0 DEF ViewInv, QueueInv, runVars
  <2> QED
    BY <1>1, <2>1 DEF QueueInv
<1>4. from[v] > 0 => Increasing(got[v])
  BY <1>0 DEF ViewInv
<1>5. ViewInv(v)'
  BY <1>1, <1>2, <1>3, <1>4 DEF ViewInv
<1>6. ASSUME NEW w \in Viewers \ {v}
      PROVE  /\ vpc'[w] = vpc[w] /\ queue'[w] = queue[w] /\ chan'[w] = chan[w]
             /\ key' = key /\ from' = from /\ pos' = pos /\ got' = got
  <2>1. CASE TailEnd(v)
    BY <1>0, <2>1 DEF TailEnd, TypeOK
  <2>2. CASE TailDropped(v)
    BY <1>0, <2>2 DEF TailDropped, TypeOK
  <2>3. CASE Leave(v)
    BY <1>0, <2>3 DEF Leave, TypeOK
  <2> QED
    BY <2>1, <2>2, <2>3
<1> QED
  BY <1>0, <1>5, <1>6, ViewerInv

\* The process dies: no viewer is left.
LEMMA CrashInv == ASSUME Inv, Crash, TypeOK' PROVE Inv'
<1>0. TypeOK
  BY DEF Inv
<1>1. ASSUME NEW r \in Runs PROVE LogInv(r)'
  <2>1. phase'[r] \in {"none", "opening"} => phase[r] \in {"none", "opening"}
    BY <1>0 DEF Crash, TypeOK
  <2> QED
    BY <2>1, LogFrame DEF Crash, Inv
<1>2. ASSUME NEW v \in Viewers PROVE ViewInv(v)'
  <2>1. /\ vpc'[v] = "idle" /\ chan'[v] = "none" /\ got' = got /\ from' = from
        /\ key' = key /\ seq' = seq
    BY DEF Crash
  <2>2. ViewInv(v)
    BY DEF Inv
  <2> QED
    BY <2>1, <2>2 DEF ViewInv, ChanInv, ReplayInv, QueueInv
<1> QED
  BY <1>1, <1>2 DEF Inv

\* Every step of the specification keeps the invariant.
LEMMA StepInv == Inv /\ [Next]_vars => Inv'
<1> SUFFICES ASSUME Inv, [Next]_vars PROVE Inv'
  OBVIOUS
<1>0. TypeOK'
  BY TypeStep DEF Inv
<1>1. CASE Next
  <2>1. ASSUME NEW r \in Runs, RunStep(r) PROVE Inv'
    BY <1>0, <2>1, EmitInv, RunInv DEF RunStep
  <2>2. ASSUME NEW v \in Viewers, ViewStep(v) PROVE Inv'
    BY <1>0, <2>2, LookupInv, AttachInv, ReplayOneInv, ReplayDoneInv, ForwardInv, StopInv
       DEF ViewStep
  <2>3. ASSUME NEW v \in Viewers, Leave(v) PROVE Inv'
    BY <1>0, <2>3, StopInv
  <2>4. ASSUME NEW v \in Viewers, NEW r \in Runs, Open(v, r) PROVE Inv'
    BY <1>0, <2>4, OpenInv
  <2>5. CASE Crash
    BY <1>0, <2>5, CrashInv
  <2> QED
    BY <1>1, <2>1, <2>2, <2>3, <2>4, <2>5 DEF Next
<1>2. CASE UNCHANGED vars
  <2>1. ASSUME NEW r \in Runs PROVE LogInv(r)'
    BY <1>2, LogFrame DEF Inv, vars
  <2>2. ASSUME NEW v \in Viewers PROVE ViewInv(v)'
    <3>1. ViewInv(v) /\ key[v] \in Runs
      BY DEF Inv, TypeOK
    <3> QED
      BY <1>2, <3>1, ViewFrame DEF vars
  <2> QED
    BY <1>0, <2>1, <2>2 DEF Inv
<1> QED
  BY <1>1, <1>2

\* A viewer that attached after the first event is sent every event at most once
\* and in order (Subscribe's snapshot of seq under r.mu, replayFile's limit).
THEOREM InOrder == Spec => []InOrderOnce
<1>1. Inv => InOrderOnce
  BY DEF Inv, ViewInv, InOrderOnce
<1> QED
  BY <1>1, InitInv, StepInv, PTL DEF Spec

\* A closed run leaves no viewer behind (Subscribe's second look at the status).
THEOREM NobodyStranded == Spec => []NoStrandedViewer
<1>1. Inv => NoStrandedViewer
  BY DEF Inv, ViewInv, NoStrandedViewer
<1> QED
  BY <1>1, InitInv, StepInv, PTL DEF Spec

-----------------------------------------------------------------------------
(* Nothing is left out: the holes a viewer may see and what a stream that  *)
(* ends cleanly has sent.                                                  *)

SentBefore(v, n, e) == \E m \in 1..n : got[v][m] = e
WasSent(v, e) == SentBefore(v, Len(got[v]), e)
OnFile(v, e) == \E i \in 1..Len(log[key[v]]) : log[key[v]][i] = e
IsOwed(v, e) == OnFile(v, e) \/ e \in (from[v] + 1)..seq[key[v]]

\* A file that lacks no record holds event i in place i.
FileFull(r) == Len(log[r]) <= seq[r] /\ (Len(log[r]) = seq[r] => \A i \in 1..Len(log[r]) : log[r][i] = i)

\* No hole in what a viewer was sent.
Whole(v) == from[v] > 0 \/ Len(log[key[v]]) = seq[key[v]]
GapInv(v) ==
    vpc[v] \in {"file", "replay", "tail", "ended"} =>
        /\ \A n \in 1..Len(got[v]) : got[v][n] <= seq[key[v]]
        /\ Whole(v) => \A n \in 1..Len(got[v]) : \A e \in 1..MaxSeq :
                          IsOwed(v, e) /\ e < got[v][n] => SentBefore(v, n, e)

\* An event emitted since the viewer attached that is no longer in its channel, or no more awaited.
Caught(v, e) == IF queue[v] = <<>> THEN chan[v] # "dropped" ELSE e < queue[v][1]

\* The channel is a run of events without a hole, up to the last one unless it was dropped; what
\* came before it was sent, and so was what the file had when the viewer attached.
ChainInv(v) ==
    vpc[v] \in {"replay", "tail"} =>
        /\ \A i \in 1..Len(queue[v]) : queue[v][i] = queue[v][1] + i - 1
        /\ queue[v] # <<>> /\ chan[v] # "dropped" => queue[v][Len(queue[v])] = seq[key[v]]
        /\ \A e \in (from[v] + 1)..seq[key[v]] : Caught(v, e) => vpc[v] = "tail" /\ WasSent(v, e)
        /\ vpc[v] = "tail" => \A e \in 1..from[v] : OnFile(v, e) => WasSent(v, e)
        /\ chan[v] = "closed" => phase[key[v]] = "closed"

\* Who reads the file only does so of a run that emits no more, or that was not registered yet.
Over == {"unlisted", "closed", "lost"}
FileInv(v) ==
    /\ vpc[v] = "opened" => phase[key[v]] # "none"
    /\ vpc[v] = "file" => \/ found[v] = "opening" /\ from[v] = 0
                          \/ from[v] = seq[key[v]] /\ phase[key[v]] \in Over

\* A stream that has ended cleanly has sent what it owes.
EndInv(v) ==
    vpc[v] = "ended" /\ chan[v] = "closed" /\ found[v] # "opening" =>
        phase[key[v]] \in Over /\ \A e \in 1..MaxSeq : IsOwed(v, e) => WasSent(v, e)

HoleInv(v) == GapInv(v) /\ ChainInv(v) /\ FileInv(v) /\ EndInv(v)
NoHoles == (\A r \in Runs : FileFull(r)) /\ \A v \in Viewers : HoleInv(v)

\* A step that changes neither the viewer nor what its run has emitted keeps its holes filled.
LEMMA HoleFrame ==
  ASSUME NEW v \in Viewers, HoleInv(v), key'[v] = key[v],
         vpc'[v] = vpc[v], found'[v] = found[v], from'[v] = from[v], got'[v] = got[v],
         queue'[v] = queue[v], chan'[v] = chan[v],
         seq'[key[v]] = seq[key[v]], log'[key[v]] = log[key[v]],
         phase[key[v]] # "none" => phase'[key[v]] # "none",
         phase[key[v]] \in Over => phase'[key[v]] \in Over,
         phase[key[v]] = "closed" => phase'[key[v]] = "closed"
  PROVE  HoleInv(v)'
<1>1. GapInv(v)'
  BY DEF HoleInv, GapInv, Whole, IsOwed, OnFile, SentBefore
<1>a. \A d : /\ Caught(v, d)' <=> Caught(v, d)
             /\ WasSent(v, d)' <=> WasSent(v, d)
             /\ OnFile(v, d)' <=> OnFile(v, d)
  BY DEF Caught, WasSent, SentBefore, OnFile
<1>2. ChainInv(v)'
  BY <1>a DEF HoleInv, ChainInv
<1>3. FileInv(v)'
  BY DEF HoleInv, FileInv
<1>4. EndInv(v)'
  BY DEF HoleInv, EndInv, IsOwed, OnFile, WasSent, SentBefore
<1> QED
  BY <1>1, <1>2, <1>3, <1>4 DEF HoleInv

\* A viewer that starts over, or has gone, is owed nothing yet.
LEMMA HoleIdle ==
  ASSUME NEW v \in Viewers, vpc'[v] \in {"idle", "opened", "found"},
         vpc'[v] = "opened" => phase'[key'[v]] # "none"
  PROVE  HoleInv(v)'
BY DEF HoleInv, GapInv, ChainInv, FileInv, EndInv

\* The file of a run after an append.
LEMMA FileStep ==
  ASSUME TypeOK, NEW r \in Runs, LogInv(r), FileFull(r), NEW e \in 1..MaxSeq, e = seq[r] + 1,
         seq'[r] = e, log'[r] = log[r] \/ log'[r] = Append(log[r], e)
  PROVE  /\ FileFull(r)'
         /\ Len(log'[r]) = seq'[r] => Len(log[r]) = seq[r]
         /\ \A i \in 1..Len(log'[r]) : (i \in 1..Len(log[r]) /\ log'[r][i] = log[r][i]) \/ log'[r][i] = e
         /\ \A i \in 1..Len(log[r]) : i \in 1..Len(log'[r]) /\ log'[r][i] = log[r][i]
<1>1. log[r] \in Seq(1..MaxSeq) /\ seq[r] \in Nat /\ Len(log[r]) \in Nat /\ Len(log[r]) <= seq[r]
  BY MaxSeqAssumption DEF TypeOK, FileFull
<1>2. CASE log'[r] = log[r]
  BY <1>1, <1>2 DEF FileFull
<1>3. CASE log'[r] = Append(log[r], e)
  <2>1. /\ Len(log'[r]) = Len(log[r]) + 1
        /\ \A i \in 1..Len(log[r]) : log'[r][i] = log[r][i]
        /\ log'[r][Len(log[r]) + 1] = e
        /\ \A j \in 1..Len(log'[r]) : (j \in 1..Len(log[r]) /\ log'[r][j] = log[r][j]) \/ log'[r][j] = e
    BY <1>1, <1>3, AppendElements
  <2>2. Len(log'[r]) = seq'[r] => Len(log[r]) = seq[r]
    BY <1>1, <2>1
  <2>3. Len(log'[r]) <= seq'[r]
    BY <1>1, <2>1
  <2>4. ASSUME Len(log'[r]) = seq'[r], NEW i \in 1..Len(log'[r]) PROVE log'[r][i] = i
    <3>1. Len(log[r]) = seq[r] /\ \A j \in 1..Len(log[r]) : log[r][j] = j
      BY <2>2, <2>4 DEF FileFull
    <3>2. i \in 1..Len(log[r]) \/ i = Len(log[r]) + 1
      BY <1>1, <2>1
    <3> QED
      BY <1>1, <2>1, <3>1, <3>2
  <2>5. FileFull(r)'
    BY <2>3, <2>4 DEF FileFull
  <2> QED
    BY <1>1, <2>1, <2>2, <2>5
<1> QED
  BY <1>2, <1>3

\* emit: the event joins every open channel behind the last one, or ends it.
LEMMA EmitHole ==
  ASSUME Inv, NoHoles, NEW r \in Runs, Emit(r)
  PROVE  NoHoles'
<1> USE MaxSeqAssumption, BufAssumption
<1> DEFINE e == seq[r] + 1
<1>0. /\ TypeOK /\ e \in 1..MaxSeq /\ seq[r] \in Nat /\ LogInv(r) /\ phase[r] = "live"
      /\ seq' = [seq EXCEPT ![r] = e] /\ UNCHANGED <<phase, viewVars>>
      /\ \A q \in Runs \ {r} : log'[q] = log[q]
      /\ log'[r] = log[r] \/ log'[r] = Append(log[r], e)
  BY DEF Inv, Emit, TypeOK
<1>1. /\ \A q \in Runs \ {r} : seq'[q] = seq[q]
      /\ seq'[r] = e
  BY <1>0 DEF TypeOK
<1>f. /\ FileFull(r)' /\ (Len(log'[r]) = seq'[r] => Len(log[r]) = seq[r])
      /\ \A i \in 1..Len(log'[r]) : (i \in 1..Len(log[r]) /\ log'[r][i] = log[r][i]) \/ log'[r][i] = e
      /\ \A i \in 1..Len(log[r]) : i \in 1..Len(log'[r]) /\ log'[r][i] = log[r][i]
  BY <1>0, <1>1, FileStep DEF NoHoles
<1>2. \A q \in Runs : FileFull(q)'
  <2> SUFFICES ASSUME NEW q \in Runs \ {r} PROVE FileFull(q)'
    BY <1>f
  <2> QED
    BY <1>0, <1>1 DEF NoHoles, FileFull
<1>3. ASSUME NEW v \in Viewers PROVE HoleInv(v)'
  <2> DEFINE k == key[v]
  <2>0. /\ HoleInv(v) /\ ViewInv(v) /\ k \in Runs
        /\ queue[v] \in Seq(1..MaxSeq) /\ got[v] \in Seq(1..MaxSeq) /\ from[v] \in 0..MaxSeq
        /\ chan[v] \in {"none", "open", "dropped", "closed"} /\ Len(queue[v]) <= Buf
    BY <1>0 DEF NoHoles, Inv, TypeOK
  <2>a. vpc' = vpc /\ key' = key /\ found' = found /\ from' = from /\ got' = got /\ phase' = phase
    BY <1>0 DEF viewVars
  <2>1. CASE k # r
    <3>1. queue'[v] = queue[v] /\ chan'[v] = chan[v]
      BY <2>1 DEF Emit, Subscribed, ChanAfterEmit
    <3> QED
      BY <1>0, <1>1, <2>0, <2>1, <2>a, <3>1, HoleFrame
  <2>2. CASE k = r
    <3>0. key[v] = r /\ key'[v] = r
      BY <2>2, <2>a
    <3>f. ASSUME NEW d, d # e, OnFile(v, d)' PROVE OnFile(v, d)
      <4>1. PICK i \in 1..Len(log'[r]) : log'[r][i] = d
        BY <3>0, <3>f DEF OnFile
      <4>2. i \in 1..Len(log[r]) /\ log[r][i] = d
        BY <1>f, <3>f, <4>1
      <4> QED
        BY <3>0, <4>2 DEF OnFile
    <3>1. GapInv(v)'
      <4> SUFFICES ASSUME vpc[v] \in {"file", "replay", "tail", "ended"} PROVE GapInv(v)'
        BY <2>a DEF GapInv
      <4>1. \A n \in 1..Len(got[v]) : got[v][n] \in Nat /\ got[v][n] <= seq[r]
        BY <2>0, <2>2 DEF HoleInv, GapInv
      <4>2. Whole(v)' => Whole(v)
        BY <1>f, <2>2, <2>a DEF Whole
      <4>3. ASSUME NEW d \in 1..MaxSeq, IsOwed(v, d)' PROVE IsOwed(v, d) \/ d = e
        <5>1. CASE OnFile(v, d)'
          BY <3>f, <5>1 DEF IsOwed
        <5>2. CASE d \in (from[v] + 1)..e
          BY <1>0, <2>0, <3>0, <5>2 DEF IsOwed
        <5> QED
          BY <1>1, <2>a, <3>0, <4>3, <5>1, <5>2 DEF IsOwed
      <4>4. ASSUME Whole(v)', NEW n \in 1..Len(got[v]), NEW d \in 1..MaxSeq, IsOwed(v, d)', d < got[v][n]
            PROVE  SentBefore(v, n, d)
        <5>1. d # e
          BY <1>0, <4>1, <4>4
        <5> QED
          BY <2>0, <4>2, <4>3, <4>4, <5>1 DEF HoleInv, GapInv
      <4> QED
        BY <1>0, <1>1, <2>2, <2>a, <4>1, <4>4 DEF GapInv, SentBefore
    <3>2. ChainInv(v)'
      <4> SUFFICES ASSUME vpc[v] \in {"replay", "tail"} PROVE ChainInv(v)'
        BY <2>a DEF ChainInv
      <4>0. /\ \A i \in 1..Len(queue[v]) : queue[v][i] = queue[v][1] + i - 1 /\ queue[v][i] \in Nat
            /\ queue[v] # <<>> /\ chan[v] # "dropped" => queue[v][Len(queue[v])] = seq[r]
            /\ \A d \in (from[v] + 1)..seq[r] : Caught(v, d) => vpc[v] = "tail" /\ WasSent(v, d)
            /\ vpc[v] = "tail" => \A d \in 1..from[v] : OnFile(v, d) => WasSent(v, d)
            /\ chan[v] \in {"open", "dropped"} /\ from[v] <= seq[r]
            /\ Len(queue[v]) \in Nat /\ (queue[v] # <<>> => Len(queue[v]) > 0)
            /\ \A i \in 1..Len(queue[v]) : queue[v][i] <= seq[r]
        <5>1. ChainInv(v) /\ ChanInv(v) /\ QueueInv(v)
          BY <2>0 DEF HoleInv, ViewInv
        <5>2. /\ \A i \in 1..Len(queue[v]) : queue[v][i] = queue[v][1] + i - 1 /\ queue[v][i] \in Nat
              /\ Len(queue[v]) \in Nat /\ (queue[v] # <<>> => Len(queue[v]) > 0)
          BY <2>0, <5>1 DEF ChainInv
        <5>3. /\ chan[v] \in {"open", "dropped"} /\ from[v] <= seq[r]
              /\ \A i \in 1..Len(queue[v]) : queue[v][i] <= seq[r]
          BY <1>0, <2>0, <3>0, <5>1 DEF ChainInv, ChanInv, QueueInv
        <5> QED
          BY <3>0, <5>1, <5>2, <5>3 DEF ChainInv
      <4>1. chan'[v] # "closed" /\ seq'[k] = e
        BY <1>1, <2>2, <4>0 DEF Emit, ChanAfterEmit
      <4>2. vpc[v] = "tail" => \A d \in 1..from[v] : OnFile(v, d)' => WasSent(v, d)
        <5>1. ASSUME NEW d \in 1..from[v], OnFile(v, d)' PROVE OnFile(v, d)
          BY <1>0, <2>0, <3>f, <4>0, <5>1
        <5> QED
          BY <4>0, <5>1
      <4>3. CASE chan[v] = "open" /\ ~Full(v)
        <5>1. queue'[v] = Append(queue[v], e) /\ chan'[v] = "open"
          BY <2>2, <4>3 DEF Emit, Subscribed, ChanAfterEmit
        <5>2. /\ Len(queue'[v]) = Len(queue[v]) + 1
              /\ \A i \in 1..Len(queue[v]) : queue'[v][i] = queue[v][i]
              /\ queue'[v][Len(queue[v]) + 1] = e
          BY <1>0, <2>0, <5>1, AppendElements
        <5>3. queue'[v] # <<>>
          BY <2>0, <4>0, <5>2
        <5>4. \A i \in 1..Len(queue'[v]) : queue'[v][i] = queue'[v][1] + i - 1
          <6>1. CASE queue[v] = <<>>
            BY <1>0, <5>2, <6>1
          <6>2. CASE queue[v] # <<>>
            <7>1. queue[v][Len(queue[v])] = seq[r] /\ Len(queue[v]) > 0
              BY <4>0, <4>3, <6>2
            <7> DEFINE first == queue[v][1]  n == Len(queue[v])
            <7>2. n \in Nat \ {0} /\ first \in Nat /\ \A i \in 1..n : queue[v][i] = first + i - 1
              BY <4>0, <7>1
            <7>3. first + n - 1 = seq[r]
              <8>1. n \in 1..n /\ queue[v][n] = seq[r]
                BY <7>1, <7>2
              <8> HIDE DEF first, n
              <8> QED
                BY <7>2, <8>1
            <7>4. queue'[v][1] = first
              BY <5>2, <7>2
            <7>5. \A i \in 1..n : queue'[v][i] = first + i - 1
              BY <5>2, <7>2
            <7>6. queue'[v][n + 1] = first + (n + 1) - 1 /\ Len(queue'[v]) = n + 1
              BY <5>2, <7>2, <7>3
            <7>7. ASSUME NEW i \in 1..Len(queue'[v]) PROVE queue'[v][i] = queue'[v][1] + i - 1
              <8> HIDE DEF first, n
              <8>1. i \in 1..n \/ i = n + 1
                BY <7>2, <7>6
              <8> QED
                BY <7>4, <7>5, <7>6, <8>1
            <7> QED
              BY <7>7
          <6> QED
            BY <6>1, <6>2
        <5>5. ASSUME NEW d \in (from[v] + 1)..e, Caught(v, d)' PROVE vpc[v] = "tail" /\ WasSent(v, d)
          <6>1. d < queue'[v][1]
            BY <5>3, <5>5 DEF Caught
          <6>2. CASE queue[v] = <<>>
            <7>1. queue'[v][1] = e
              BY <5>2, <6>2
            <7>2. d \in (from[v] + 1)..seq[r] /\ Caught(v, d)
              BY <1>0, <2>0, <4>3, <6>1, <6>2, <7>1 DEF Caught
            <7> QED
              BY <4>0, <7>2
          <6>3. CASE queue[v] # <<>>
            <7>1. queue'[v][1] = queue[v][1] /\ queue[v][1] <= seq[r] /\ queue[v][1] \in Nat
              BY <4>0, <5>2, <6>3
            <7>2. d \in (from[v] + 1)..seq[r] /\ Caught(v, d)
              BY <1>0, <2>0, <6>1, <6>3, <7>1 DEF Caught
            <7> QED
              BY <4>0, <7>2
          <6> QED
            BY <6>2, <6>3
        <5>6. queue'[v][Len(queue'[v])] = e
          BY <5>2
        <5>7. \A d \in (from[v] + 1)..e : Caught(v, d)' => vpc[v] = "tail" /\ WasSent(v, d)
          BY <5>5
        <5> QED
          BY <2>a, <4>1, <4>2, <5>4, <5>6, <5>7 DEF ChainInv, WasSent, SentBefore
      <4>4. CASE chan[v] = "dropped" \/ Full(v)
        <5>1. queue'[v] = queue[v] /\ chan'[v] = "dropped"
          BY <2>2, <4>0, <4>4 DEF Emit, Subscribed, ChanAfterEmit
        <5>2. Full(v) => queue[v] # <<>>
          BY DEF Full
        <5>3. ASSUME NEW d \in (from[v] + 1)..e, Caught(v, d)' PROVE vpc[v] = "tail" /\ WasSent(v, d)
          <6>1. queue[v] # <<>> /\ d < queue[v][1]
            BY <5>1, <5>3 DEF Caught
          <6>2. queue[v][1] <= seq[r] /\ queue[v][1] \in Nat
            BY <4>0, <6>1
          <6>3. d \in (from[v] + 1)..seq[r] /\ Caught(v, d)
            BY <1>0, <2>0, <6>1, <6>2 DEF Caught
          <6> QED
            BY <4>0, <6>3
        <5>4. \A d \in (from[v] + 1)..e : Caught(v, d)' => vpc[v] = "tail" /\ WasSent(v, d)
          BY <5>3
        <5> QED
          BY <2>a, <4>0, <4>1, <4>2, <5>1, <5>4 DEF ChainInv, WasSent, SentBefore
      <4> QED
        BY <4>0, <4>3, <4>4
    <3>3. FileInv(v)' /\ EndInv(v)'
      <4>1. phase[key[v]] = "live"
        BY <1>0, <3>0
      <4>2. vpc[v] # "opened" \/ phase'[key'[v]] # "none"
        BY <2>a, <4>1
      <4>3. FileInv(v)'
        BY <2>0, <2>a, <4>1 DEF HoleInv, FileInv, Over
      <4>4. chan'[v] = "closed" => chan[v] = "closed"
        BY <2>0 DEF Emit, ChanAfterEmit
      <4>5. EndInv(v)'
        BY <2>0, <2>a, <4>1, <4>4 DEF HoleInv, EndInv, Over
      <4> QED
        BY <4>3, <4>5
    <3> QED
      BY <3>1, <3>2, <3>3 DEF HoleInv
  <2> QED
    BY <2>1, <2>2
<1> QED
  BY <1>2, <1>3 DEF NoHoles

\* The steps of a run besides emit.
LEMMA RunHole ==
  ASSUME Inv, NoHoles, NEW r \in Runs, OpenLog(r) \/ Register(r) \/ Unlist(r) \/ Close(r)
  PROVE  NoHoles'
<1>0. TypeOK /\ LogInv(r)
  BY DEF Inv
<1>1. /\ seq' = seq /\ queue' = queue /\ vpc' = vpc /\ key' = key /\ found' = found
      /\ from' = from /\ got' = got
  BY DEF OpenLog, Register, Unlist, Close, viewVars
<1>2. log' = log
  BY <1>0 DEF OpenLog, Register, Unlist, Close, LogInv, TypeOK
<1>3. \A q \in Runs : /\ phase[q] # "none" => phase'[q] # "none"
                      /\ phase[q] \in Over => phase'[q] \in Over
                      /\ phase[q] = "closed" => phase'[q] = "closed"
  BY <1>0 DEF OpenLog, Register, Unlist, Close, Over, TypeOK
<1>4. \A q \in Runs : FileFull(q)'
  BY <1>1, <1>2 DEF NoHoles, FileFull
<1>5. ASSUME NEW v \in Viewers PROVE HoleInv(v)'
  <2>0. HoleInv(v) /\ ViewInv(v) /\ key[v] \in Runs
    BY DEF NoHoles, Inv, TypeOK
  <2>1. CASE chan'[v] = chan[v]
    BY <1>1, <1>2, <1>3, <2>0, <2>1, HoleFrame
  <2>2. CASE chan'[v] # chan[v]
    <3>1. /\ Close(r) /\ key[v] = r /\ chan[v] = "open" /\ chan'[v] = "closed"
          /\ phase'[r] = "closed" /\ vpc[v] \in {"replay", "tail"}
      BY <1>0, <2>0, <2>2 DEF OpenLog, Register, Unlist, Close, ChanAfterClose, Subscribed, TypeOK, ViewInv, ChanInv
    <3>2. GapInv(v)'
      BY <1>1, <1>2, <2>0 DEF HoleInv, GapInv, Whole, IsOwed, OnFile, SentBefore
    <3>3. \A d : /\ Caught(v, d)' <=> Caught(v, d)
                 /\ WasSent(v, d)' <=> WasSent(v, d)
                 /\ OnFile(v, d)' <=> OnFile(v, d)
      BY <1>1, <1>2, <3>1 DEF Caught, WasSent, SentBefore, OnFile
    <3>4. ChainInv(v)'
      BY <1>1, <2>0, <3>1, <3>3 DEF HoleInv, ChainInv
    <3>5. FileInv(v)' /\ EndInv(v)'
      BY <1>1, <3>1 DEF FileInv, EndInv
    <3> QED
      BY <3>2, <3>4, <3>5 DEF HoleInv
  <2> QED
    BY <2>1, <2>2
<1> QED
  BY <1>4, <1>5 DEF NoHoles

\* A step of one viewer leaves the runs and the other viewers alone.
LEMMA ViewerHole ==
  ASSUME Inv, NoHoles, NEW v \in Viewers, UNCHANGED runVars, HoleInv(v)',
         \A w \in Viewers \ {v} :
            /\ vpc'[w] = vpc[w] /\ key'[w] = key[w] /\ found'[w] = found[w] /\ from'[w] = from[w]
            /\ got'[w] = got[w] /\ queue'[w] = queue[w] /\ chan'[w] = chan[w]
  PROVE  NoHoles'
<1>1. \A q \in Runs : FileFull(q)'
  BY DEF NoHoles, FileFull, runVars
<1>2. ASSUME NEW w \in Viewers \ {v} PROVE HoleInv(w)'
  BY <1>2, HoleFrame DEF NoHoles, runVars
<1> QED
  BY <1>1, <1>2 DEF NoHoles

\* The steps of a viewer that begins, looks its run up, leaves or has lost the channel.
LEMMA OpenHole ==
  ASSUME Inv, NoHoles, NEW v \in Viewers, NEW r \in Runs, Open(v, r) PROVE NoHoles'
<1>0. TypeOK
  BY DEF Inv
<1>1. vpc'[v] = "opened" /\ key'[v] = r /\ phase' = phase /\ phase[r] # "none" /\ UNCHANGED runVars
  BY <1>0 DEF Open, TypeOK, runVars
<1>2. HoleInv(v)'
  BY <1>1, HoleIdle
<1> QED
  BY <1>0, <1>1, <1>2, ViewerHole DEF Open, TypeOK

LEMMA LeaveHole ==
  ASSUME Inv, NoHoles, NEW v \in Viewers, Leave(v) PROVE NoHoles'
<1>0. TypeOK
  BY DEF Inv
<1>1. vpc'[v] = "idle" /\ UNCHANGED runVars
  BY <1>0 DEF Leave, TypeOK
<1>2. HoleInv(v)'
  BY <1>1, HoleIdle
<1> QED
  BY <1>0, <1>1, <1>2, ViewerHole DEF Leave, TypeOK

LEMMA LookupHole ==
  ASSUME Inv, NoHoles, NEW v \in Viewers, Lookup(v) PROVE NoHoles'
<1> DEFINE k == key[v]
<1>0. /\ TypeOK /\ HoleInv(v) /\ ViewInv(v) /\ k \in Runs /\ LogInv(k) /\ phase[k] \in Phases
      /\ vpc[v] = "opened" /\ got[v] = <<>>
  BY DEF NoHoles, Inv, TypeOK, Lookup, ViewInv, ChanInv
<1>1. /\ UNCHANGED runVars /\ phase' = phase /\ seq' = seq /\ log' = log /\ key' = key /\ got' = got
      /\ found'[v] = phase[k] /\ phase[k] # "none"
  BY <1>0 DEF Lookup, runVars, HoleInv, FileInv, TypeOK
<1>2. CASE phase[k] = "live"
  <2>1. vpc'[v] = "found"
    BY <1>0, <1>2 DEF Lookup, TypeOK
  <2>2. HoleInv(v)'
    BY <2>1, HoleIdle
  <2> QED
    BY <1>0, <1>1, <2>2, ViewerHole DEF Lookup, TypeOK
<1>3. CASE phase[k] # "live"
  <2>1. vpc'[v] = "file" /\ from'[v] = seq[k]
    BY <1>0, <1>3 DEF Lookup, TypeOK
  <2>2. phase[k] = "opening" => seq[k] = 0
    BY <1>0 DEF LogInv
  <2>3. FileInv(v)'
    BY <1>0, <1>1, <1>3, <2>1, <2>2 DEF FileInv, Over, Phases
  <2>4. GapInv(v)' /\ ChainInv(v)' /\ EndInv(v)'
    BY <1>0, <1>1, <2>1 DEF GapInv, ChainInv, EndInv
  <2>5. HoleInv(v)'
    BY <2>3, <2>4 DEF HoleInv
  <2> QED
    BY <1>0, <1>1, <2>5, ViewerHole DEF Lookup, TypeOK
<1> QED
  BY <1>2, <1>3

LEMMA AttachHole ==
  ASSUME Inv, NoHoles, NEW v \in Viewers, Attach(v) PROVE NoHoles'
<1> DEFINE k == key[v]
<1>0. /\ TypeOK /\ HoleInv(v) /\ ViewInv(v) /\ k \in Runs /\ seq[k] \in Nat
      /\ vpc[v] = "found" /\ got[v] = <<>> /\ queue[v] = <<>>
  BY MaxSeqAssumption DEF NoHoles, Inv, TypeOK, Attach, ViewInv, ChanInv
<1>1. /\ UNCHANGED runVars /\ phase' = phase /\ seq' = seq /\ log' = log /\ key' = key /\ got' = got
      /\ queue' = queue /\ from'[v] = seq[k]
  BY <1>0 DEF Attach, runVars, TypeOK
<1>2. CASE StillOpen(v)
  <2>1. vpc'[v] = "replay" /\ chan'[v] = "open"
    BY <1>0, <1>2 DEF Attach, TypeOK
  <2>2. GapInv(v)' /\ FileInv(v)' /\ EndInv(v)'
    BY <1>0, <1>1, <2>1 DEF GapInv, FileInv, EndInv
  <2>3. ChainInv(v)'
    BY <1>0, <1>1, <2>1 DEF ChainInv
  <2>4. HoleInv(v)'
    BY <2>2, <2>3 DEF HoleInv
  <2> QED
    BY <1>0, <1>1, <2>4, ViewerHole DEF Attach, TypeOK
<1>3. CASE ~StillOpen(v)
  <2>1. vpc'[v] = "file" /\ phase[k] = "closed"
    BY <1>0, <1>3 DEF Attach, StillOpen, TypeOK
  <2>2. GapInv(v)' /\ ChainInv(v)' /\ EndInv(v)'
    BY <1>0, <1>1, <2>1 DEF GapInv, ChainInv, EndInv
  <2>3. FileInv(v)'
    BY <1>0, <1>1, <2>1 DEF FileInv, Over
  <2>4. HoleInv(v)'
    BY <2>2, <2>3 DEF HoleInv
  <2> QED
    BY <1>0, <1>1, <2>4, ViewerHole DEF Attach, TypeOK
<1> QED
  BY <1>2, <1>3

\* One record of the file is sent: what the file has before it was sent, and nothing else is owed
\* before it.
LEMMA ReplayHole ==
  ASSUME Inv, NoHoles, NEW v \in Viewers, ReplayOne(v) PROVE NoHoles'
<1> USE MaxSeqAssumption
<1> DEFINE k == key[v]
           p == pos[v]
           x == log[k][p + 1]
<1>0. /\ TypeOK /\ HoleInv(v) /\ ViewInv(v) /\ k \in Runs /\ LogInv(k) /\ FileFull(k)
      /\ log[k] \in Seq(1..MaxSeq) /\ got[v] \in Seq(1..MaxSeq) /\ p \in Nat
      /\ seq[k] \in Nat /\ from[v] \in Nat /\ vpc[v] \in {"file", "replay"} /\ HasRecord(v)
  BY DEF NoHoles, Inv, TypeOK, ReplayOne
<1>1. /\ UNCHANGED runVars /\ seq' = seq /\ log' = log /\ phase' = phase
      /\ vpc' = vpc /\ key' = key /\ found' = found /\ from' = from /\ queue' = queue /\ chan' = chan
      /\ got'[v] = Append(got[v], x)
  BY <1>0 DEF ReplayOne, runVars, TypeOK
<1>2. /\ Len(log[k]) \in Nat /\ p < Len(log[k]) /\ x \in 1..MaxSeq /\ p + 1 \in 1..Len(log[k])
      /\ \A i \in 1..Len(log[k]) : log[k][i] \in 1..MaxSeq
  <2>1. Len(log[k]) \in Nat /\ p < Len(log[k])
    BY <1>0 DEF HasRecord
  <2>2. \A i \in 1..Len(log[k]) : log[k][i] \in 1..MaxSeq
    BY <1>0, SeqElements
  <2>3. p + 1 \in 1..Len(log[k])
    BY <1>0, <2>1
  <2> QED
    BY <2>1, <2>2, <2>3
<1>3. Len(got[v]) = p /\ \A i \in 1..p : got[v][i] = log[k][i]
  BY <1>0 DEF ViewInv, ReplayInv
<1>4. /\ Len(got'[v]) = p + 1 /\ got'[v][p + 1] = x
      /\ \A i \in 1..p : got'[v][i] = log[k][i] /\ got'[v][i] = got[v][i]
  <2>1. got'[v] = Append(got[v], x) /\ got[v] \in Seq(1..MaxSeq) /\ x \in 1..MaxSeq
    BY <1>0, <1>1, <1>2
  <2> HIDE DEF x
  <2>2. /\ Len(got'[v]) = Len(got[v]) + 1 /\ got'[v][Len(got[v]) + 1] = x
        /\ \A i \in 1..Len(got[v]) : got'[v][i] = got[v][i]
    BY <2>1, AppendElements
  <2> QED
    BY <1>3, <2>2
<1>5. x <= seq[k] /\ \A i \in 1..Len(log[k]) : log[k][i] < x => i < p + 1
  <2>1. x <= seq[k]
    BY <1>0, <1>2 DEF LogInv
  <2>2. ASSUME NEW i \in 1..Len(log[k]), log[k][i] < x PROVE i < p + 1
    <3>1. CASE i = p + 1
      BY <1>2, <2>2, <3>1
    <3>2. CASE p + 1 < i
      <4>1. x < log[k][i]
        BY <1>0, <1>2, <3>2 DEF LogInv, Increasing
      <4> QED
        BY <1>2, <2>2, <4>1
    <3> QED
      BY <1>0, <1>2, <3>1, <3>2
  <2> QED
    BY <2>1, <2>2
<1>6. ASSUME Whole(v), NEW d \in 1..MaxSeq, IsOwed(v, d), d < x PROVE OnFile(v, d)
  <2>1. CASE from[v] = 0
    <3>1. d <= Len(log[k]) /\ \A i \in 1..Len(log[k]) : log[k][i] = i
      BY <1>0, <1>2, <1>5, <1>6, <2>1 DEF Whole, FileFull
    <3> QED
      BY <3>1 DEF OnFile
  <2>2. CASE from[v] > 0
    <3>1. vpc[v] = "replay" => x <= from[v]
      BY <1>0, <2>2 DEF HasRecord, UpTo
    <3>2. vpc[v] = "file" => from[v] = seq[k]
      BY <1>0, <2>2 DEF HoleInv, FileInv
    <3>3. d \notin (from[v] + 1)..seq[k]
      <4>1. d \in Nat /\ x \in Nat /\ d < x /\ from[v] \in Nat /\ seq[k] \in Nat
        BY <1>0, <1>2, <1>6
      <4> HIDE DEF k, p, x
      <4>2. CASE vpc[v] = "replay"
        BY <3>1, <4>1, <4>2
      <4>3. CASE vpc[v] = "file"
        BY <3>2, <4>1, <4>3
      <4> QED
        BY <1>0, <4>2, <4>3
    <3> QED
      BY <1>6, <3>3 DEF IsOwed
  <2> QED
    BY <1>0, <2>1, <2>2
<1>7. GapInv(v)'
  <2>0. /\ \A n \in 1..p : got[v][n] <= seq[k]
        /\ Whole(v) => \A n \in 1..p : \A d \in 1..MaxSeq :
                          IsOwed(v, d) /\ d < got[v][n] => SentBefore(v, n, d)
    BY <1>0, <1>3 DEF HoleInv, GapInv
  <2>1. ASSUME NEW n \in 1..(p + 1) PROVE got'[v][n] <= seq[k]
    <3>1. n \in 1..p \/ n = p + 1
      BY <1>0
    <3> QED
      BY <1>4, <1>5, <2>0, <3>1
  <2>2. ASSUME Whole(v), NEW n \in 1..(p + 1), NEW d \in 1..MaxSeq, IsOwed(v, d), d < got'[v][n]
        PROVE  \E m \in 1..n : got'[v][m] = d
    <3>1. CASE n \in 1..p
      <4>1. PICK m \in 1..n : got[v][m] = d
        BY <1>4, <2>0, <2>2, <3>1 DEF SentBefore
      <4>2. m \in 1..p
        BY <1>0, <3>1, <4>1
      <4> QED
        BY <1>4, <4>1, <4>2
    <3>2. CASE n = p + 1
      <4>1. d < x /\ OnFile(v, d)
        BY <1>4, <1>6, <2>2, <3>2
      <4>2. PICK i \in 1..Len(log[k]) : log[k][i] = d
        BY <4>1 DEF OnFile
      <4>3. i \in 1..p
        <5>1. i < p + 1 /\ i \in 1..Len(log[k]) /\ p \in Nat /\ Len(log[k]) \in Nat
          BY <1>0, <1>2, <1>5, <4>1, <4>2
        <5> HIDE DEF k, p, x
        <5> QED
          BY <5>1
      <4>4. got'[v][i] = d /\ i \in 1..n
        <5> HIDE DEF k, p, x
        <5> QED
          BY <1>0, <1>4, <3>2, <4>2, <4>3
      <4> QED
        BY <4>4
    <3> QED
      BY <1>0, <3>1, <3>2
  <2>3. (Whole(v)' <=> Whole(v)) /\ \A d : IsOwed(v, d)' <=> IsOwed(v, d)
    BY <1>1 DEF Whole, IsOwed, OnFile
  <2> QED
    BY <1>1, <1>4, <2>1, <2>2, <2>3 DEF GapInv, SentBefore
<1>8. ChainInv(v)'
  <2>1. \A d : Caught(v, d)' <=> Caught(v, d)
    BY <1>1 DEF Caught
  <2> QED
    BY <1>0, <1>1, <2>1 DEF HoleInv, ChainInv
<1>9. FileInv(v)' /\ EndInv(v)'
  BY <1>0, <1>1 DEF HoleInv, FileInv, EndInv
<1> QED
  BY <1>0, <1>1, <1>7, <1>8, <1>9, ViewerHole DEF HoleInv, ReplayOne, TypeOK

\* The file has been read as far as it goes: a stream of the file ends with all of it sent, and a
\* viewer that goes on to its channel has all there was when it attached.
LEMMA ReplayDoneHole ==
  ASSUME Inv, NoHoles, NEW v \in Viewers, ReplayDone(v) PROVE NoHoles'
<1> USE MaxSeqAssumption
<1> DEFINE k == key[v]
           p == pos[v]
<1>0. /\ TypeOK /\ HoleInv(v) /\ ViewInv(v) /\ k \in Runs /\ LogInv(k)
      /\ log[k] \in Seq(1..MaxSeq) /\ p \in Nat
      /\ seq[k] \in Nat /\ from[v] \in Nat /\ vpc[v] \in {"file", "replay"} /\ ~HasRecord(v)
  BY DEF NoHoles, Inv, TypeOK, ReplayDone
<1>1. /\ UNCHANGED runVars /\ seq' = seq /\ log' = log /\ phase' = phase
      /\ key' = key /\ found' = found /\ from' = from /\ queue' = queue /\ got' = got
  BY <1>0 DEF ReplayDone, runVars
<1>2. /\ Len(log[k]) \in Nat /\ p <= Len(log[k])
      /\ \A i \in 1..Len(log[k]) : log[k][i] \in 1..MaxSeq
      /\ Len(got[v]) = p /\ \A i \in 1..p : got[v][i] = log[k][i]
  BY <1>0, SeqElements DEF ViewInv, ReplayInv
<1>3. ASSUME NEW i \in 1..Len(log[k]), i <= p PROVE WasSent(v, log[k][i])
  <2>1. i \in 1..p
    BY <1>2, <1>3
  <2> QED
    BY <1>2, <2>1 DEF WasSent, SentBefore
<1>4. GapInv(v)'
  <2>1. vpc'[v] \in {"ended", "tail"}
    BY <1>0 DEF ReplayDone, TypeOK
  <2> QED
    BY <1>0, <1>1, <2>1 DEF HoleInv, GapInv, Whole, IsOwed, OnFile, SentBefore
<1>5. CASE vpc[v] = "file"
  <2>1. vpc'[v] = "ended" /\ chan'[v] = "closed"
    BY <1>0, <1>5 DEF ReplayDone, TypeOK
  <2>2. p = Len(log[k])
    BY <1>0, <1>2, <1>5 DEF HasRecord, UpTo
  <2>3. ASSUME found[v] # "opening"
        PROVE  phase[k] \in Over /\ \A d \in 1..MaxSeq : IsOwed(v, d) => WasSent(v, d)
    <3>1. from[v] = seq[k] /\ phase[k] \in Over
      BY <1>0, <1>5, <2>3 DEF HoleInv, FileInv
    <3>2. ASSUME NEW d \in 1..MaxSeq, IsOwed(v, d) PROVE WasSent(v, d)
      <4>1. d \notin (from[v] + 1)..seq[k]
        BY <1>0, <3>1
      <4>2. PICK i \in 1..Len(log[k]) : log[k][i] = d
        BY <3>2, <4>1 DEF IsOwed, OnFile
      <4> QED
        BY <1>2, <1>3, <2>2, <4>2
    <3> QED
      BY <3>1, <3>2
  <2>4. EndInv(v)'
    BY <1>1, <2>1, <2>3 DEF EndInv, IsOwed, OnFile, WasSent, SentBefore
  <2>5. ChainInv(v)' /\ FileInv(v)'
    BY <2>1 DEF ChainInv, FileInv
  <2> QED
    BY <1>0, <1>1, <1>4, <2>4, <2>5, ViewerHole DEF HoleInv, ReplayDone, TypeOK
<1>6. CASE vpc[v] = "replay"
  <2>1. vpc'[v] = "tail" /\ chan'[v] = chan[v]
    BY <1>0, <1>6 DEF ReplayDone, TypeOK
  <2>2. ASSUME NEW d \in 1..from[v], OnFile(v, d) PROVE WasSent(v, d)
    <3>1. PICK i \in 1..Len(log[k]) : log[k][i] = d
      BY <2>2 DEF OnFile
    <3>2. CASE i <= p
      BY <1>3, <3>1, <3>2
    <3>3. CASE i > p
      <4>0. p \in Nat /\ Len(log[k]) \in Nat /\ i \in 1..Len(log[k]) /\ i > p
        BY <1>0, <1>2, <3>3
      <4>1. p + 1 \in 1..Len(log[k]) /\ p < Len(log[k])
        <5> HIDE DEF k, p
        <5> QED
          BY <4>0
      <4>2. log[k][p + 1] > from[v]
        <5>1. UpTo(v) = from[v] /\ from[v] # 0
          BY <1>0, <1>6, <2>2 DEF UpTo
        <5>2. ~(log[k][p + 1] <= from[v])
          BY <1>0, <4>1, <5>1 DEF HasRecord
        <5>3. log[k][p + 1] \in Nat
          BY <1>2, <4>1
        <5> QED
          BY <1>0, <5>2, <5>3
      <4>3. log[k][p + 1] <= log[k][i]
        <5>1. CASE i = p + 1
          BY <1>2, <4>1, <5>1
        <5>2. CASE p + 1 < i
          BY <1>0, <1>2, <4>1, <5>2 DEF LogInv, Increasing
        <5> QED
          BY <1>0, <1>2, <3>3, <5>1, <5>2
      <4> QED
        BY <1>0, <1>2, <2>2, <3>1, <4>1, <4>2, <4>3
    <3> QED
      BY <1>0, <1>2, <3>2, <3>3
  <2>3. \A d : /\ Caught(v, d)' <=> Caught(v, d)
               /\ WasSent(v, d)' <=> WasSent(v, d)
               /\ OnFile(v, d)' <=> OnFile(v, d)
    BY <1>1, <2>1 DEF Caught, WasSent, SentBefore, OnFile
  <2>4. ChainInv(v)'
    BY <1>0, <1>1, <1>6, <2>1, <2>2, <2>3 DEF HoleInv, ChainInv
  <2>5. FileInv(v)' /\ EndInv(v)'
    BY <2>1 DEF FileInv, EndInv
  <2> QED
    BY <1>0, <1>1, <1>4, <2>4, <2>5, ViewerHole DEF HoleInv, ReplayDone, TypeOK
<1> QED
  BY <1>0, <1>5, <1>6

\* The first message of the channel is forwarded: all that is owed before it was sent.
LEMMA ForwardHole ==
  ASSUME Inv, NoHoles, NEW v \in Viewers, Forward(v) PROVE NoHoles'
<1> USE MaxSeqAssumption
<1> DEFINE k == key[v]
           q == queue[v]
           n == Len(got[v])
           x == queue[v][1]
<1>0. /\ TypeOK /\ HoleInv(v) /\ ViewInv(v) /\ k \in Runs
      /\ q \in Seq(1..MaxSeq) /\ q # <<>> /\ got[v] \in Seq(1..MaxSeq)
      /\ seq[k] \in Nat /\ from[v] \in Nat /\ vpc[v] = "tail"
      /\ chan[v] \in {"none", "open", "dropped", "closed"}
  BY DEF NoHoles, Inv, TypeOK, Forward
<1>1. /\ UNCHANGED runVars /\ seq' = seq /\ log' = log /\ phase' = phase /\ vpc' = vpc
      /\ key' = key /\ found' = found /\ from' = from /\ chan' = chan
      /\ got'[v] = Append(got[v], Head(q)) /\ queue'[v] = Tail(q)
  BY <1>0 DEF Forward, runVars, TypeOK
<1>2. /\ Len(q) \in Nat \ {0} /\ \A i \in 1..Len(q) : q[i] \in 1..MaxSeq /\ q[i] <= seq[k]
      /\ Head(q) = x /\ Len(Tail(q)) = Len(q) - 1
      /\ \A j \in 1..(Len(q) - 1) : Tail(q)[j] = q[j + 1]
  BY <1>0, SeqElements DEF ViewInv, QueueInv
<1>3. x \in 1..MaxSeq /\ x <= seq[k] /\ x > from[v]
  BY <1>0, <1>2 DEF ViewInv, QueueInv
<1>4. n \in Nat /\ Len(got'[v]) = n + 1 /\ got'[v][n + 1] = x /\ \A i \in 1..n : got'[v][i] = got[v][i]
  BY <1>0, <1>1, <1>2, <1>3, AppendElements
<1>5. /\ \A i \in 1..Len(q) : q[i] = x + i - 1
      /\ chan[v] # "dropped" => q[Len(q)] = seq[k]
      /\ \A d \in (from[v] + 1)..seq[k] : Caught(v, d) => WasSent(v, d)
      /\ \A d \in 1..from[v] : OnFile(v, d) => WasSent(v, d)
      /\ chan[v] = "closed" => phase[k] = "closed"
  BY <1>0 DEF HoleInv, ChainInv
<1>6. ASSUME NEW d, WasSent(v, d) PROVE WasSent(v, d)'
  <2>1. PICK m \in 1..n : got[v][m] = d
    BY <1>6 DEF WasSent, SentBefore
  <2>2. m \in 1..(n + 1) /\ got'[v][m] = d
    BY <1>4, <2>1
  <2> QED
    BY <1>4, <2>2 DEF WasSent, SentBefore
<1>7. ASSUME NEW d, d = x PROVE WasSent(v, d)'
  <2>1. n + 1 \in 1..(n + 1) /\ got'[v][n + 1] = d
    BY <1>4, <1>7
  <2>2. Len(got'[v]) = n + 1
    BY <1>4
  <2> HIDE DEF n, x
  <2> QED
    BY <2>1, <2>2 DEF WasSent, SentBefore
<1>8. ASSUME NEW d \in 1..MaxSeq, IsOwed(v, d), d < x PROVE WasSent(v, d)
  <2>1. CASE d \in 1..from[v]
    <3>1. OnFile(v, d)
      BY <1>0, <1>8, <2>1 DEF IsOwed
    <3> QED
      BY <1>5, <2>1, <3>1
  <2>2. CASE d > from[v]
    <3>1. d \in (from[v] + 1)..seq[k] /\ Caught(v, d)
      BY <1>0, <1>3, <1>8, <2>2 DEF Caught
    <3> QED
      BY <1>5, <3>1
  <2> QED
    BY <1>0, <2>1, <2>2
<1>9. GapInv(v)'
  <2>0. /\ \A i \in 1..n : got[v][i] <= seq[k]
        /\ Whole(v) => \A i \in 1..n : \A d \in 1..MaxSeq :
                          IsOwed(v, d) /\ d < got[v][i] => SentBefore(v, i, d)
    BY <1>0 DEF HoleInv, GapInv
  <2>1. ASSUME NEW i \in 1..(n + 1) PROVE got'[v][i] <= seq[k]
    <3>1. i \in 1..n \/ i = n + 1
      BY <1>4
    <3> QED
      BY <1>3, <1>4, <2>0, <3>1
  <2>2. ASSUME Whole(v), NEW i \in 1..(n + 1), NEW d \in 1..MaxSeq, IsOwed(v, d), d < got'[v][i]
        PROVE  \E m \in 1..i : got'[v][m] = d
    <3>1. CASE i \in 1..n
      <4>1. PICK m \in 1..i : got[v][m] = d
        BY <1>4, <2>0, <2>2, <3>1 DEF SentBefore
      <4>2. m \in 1..n
        BY <1>4, <3>1, <4>1
      <4> QED
        BY <1>4, <4>1, <4>2
    <3>2. CASE i = n + 1
      <4>1. WasSent(v, d)
        BY <1>4, <1>8, <2>2, <3>2
      <4>2. PICK m \in 1..n : got[v][m] = d
        BY <4>1 DEF WasSent, SentBefore
      <4> QED
        BY <1>4, <3>2, <4>2
    <3> QED
      BY <1>4, <3>1, <3>2
  <2>3. (Whole(v)' <=> Whole(v)) /\ \A d : IsOwed(v, d)' <=> IsOwed(v, d)
    BY <1>1 DEF Whole, IsOwed, OnFile
  <2> QED
    BY <1>1, <1>4, <2>1, <2>2, <2>3 DEF GapInv, SentBefore
<1>10. ChainInv(v)'
  <2>1. ASSUME NEW i \in 1..Len(Tail(q)) PROVE Tail(q)[i] = Tail(q)[1] + i - 1
    <3>1. i + 1 \in 1..Len(q) /\ 2 \in 1..Len(q) /\ i \in 1..(Len(q) - 1) /\ 1 \in 1..(Len(q) - 1)
      BY <1>2, <2>1
    <3>2. Tail(q)[i] = q[i + 1] /\ Tail(q)[1] = q[2]
      BY <1>2, <3>1
    <3>3. q[i + 1] = x + (i + 1) - 1 /\ q[2] = x + 2 - 1
      BY <1>5, <3>1
    <3> QED
      BY <1>3, <3>1, <3>2, <3>3
  <2>2. ASSUME Tail(q) # <<>> PROVE Len(q) > 1 /\ Tail(q)[Len(Tail(q))] = q[Len(q)] /\ Tail(q)[1] = x + 1
    <3>0. Len(q) \in Nat /\ Len(q) # 0 /\ Len(Tail(q)) = Len(q) - 1
      BY <1>2
    <3>1. Len(q) > 1
      <4>1. Tail(q) \in Seq(1..MaxSeq)
        BY <1>0, HeadTailProperties
      <4>2. Len(Tail(q)) # 0
        BY <2>2, <4>1, EmptySeq
      <4> HIDE DEF q
      <4> QED
        BY <3>0, <4>2
    <3>2. Len(q) - 1 \in 1..(Len(q) - 1) /\ 1 \in 1..(Len(q) - 1) /\ 2 \in 1..Len(q)
          /\ (Len(q) - 1) + 1 = Len(q)
      <4> HIDE DEF q
      <4> QED
        BY <3>0, <3>1
    <3>3. Tail(q)[Len(q) - 1] = q[(Len(q) - 1) + 1] /\ Tail(q)[1] = q[2] /\ q[2] = x + 2 - 1
      BY <1>2, <1>5, <3>2
    <3>4. x \in Nat /\ x + 2 - 1 = x + 1
      BY <1>3
    <3>5. Tail(q)[Len(Tail(q))] = q[Len(q)]
      BY <3>0, <3>2, <3>3
    <3> QED
      BY <3>1, <3>3, <3>4, <3>5
  <2>3. ASSUME NEW d \in (from[v] + 1)..seq[k], Caught(v, d)' PROVE WasSent(v, d)'
    <3>1. CASE d < x
      <4>1. Caught(v, d)
        BY <1>0, <3>1 DEF Caught
      <4> QED
        BY <1>5, <1>6, <2>3, <4>1
    <3>2. CASE d = x
      BY <1>7, <3>2
    <3>3. CASE d > x
      <4>1. Tail(q) = <<>>
        <5>1. CASE Tail(q) # <<>>
          <6>1. d < x + 1
            BY <1>1, <2>2, <2>3, <5>1 DEF Caught
          <6> QED
            BY <1>0, <1>3, <2>3, <3>3, <6>1
        <5> QED
          BY <5>1
      <4>2. chan[v] # "dropped"
        BY <1>1, <2>3, <4>1 DEF Caught
      <4>a. Len(q) = 1
        <5>1. Len(Tail(q)) = 0 /\ Len(q) \in Nat /\ Len(Tail(q)) = Len(q) - 1
          BY <1>2, <4>1
        <5> HIDE DEF q
        <5> QED
          BY <5>1
      <4>3. seq[k] = x
        BY <1>5, <4>2, <4>a
      <4> QED
        BY <1>0, <1>3, <2>3, <3>3, <4>3
    <3> QED
      BY <1>0, <1>3, <2>3, <3>1, <3>2, <3>3
  <2>4. \A d \in 1..from[v] : OnFile(v, d)' => WasSent(v, d)'
    <3>1. \A d : OnFile(v, d)' <=> OnFile(v, d)
      BY <1>1 DEF OnFile
    <3> QED
      BY <1>5, <1>6, <3>1
  <2> QED
    BY <1>0, <1>1, <1>5, <2>1, <2>2, <2>3, <2>4 DEF ChainInv
<1>11. FileInv(v)' /\ EndInv(v)'
  BY <1>0, <1>1 DEF FileInv, EndInv
<1> QED
  BY <1>0, <1>1, <1>9, <1>10, <1>11, ViewerHole DEF HoleInv, Forward, TypeOK

\* A stream that ends has drained its channel, or was dropped.
LEMMA StopHole ==
  ASSUME Inv, NoHoles, NEW v \in Viewers, TailEnd(v) \/ TailDropped(v) PROVE NoHoles'
<1> USE MaxSeqAssumption
<1> DEFINE k == key[v]
<1>0. /\ TypeOK /\ HoleInv(v) /\ ViewInv(v) /\ k \in Runs /\ LogInv(k)
      /\ log[k] \in Seq(1..MaxSeq)
      /\ seq[k] \in Nat /\ from[v] \in Nat /\ vpc[v] = "tail"
  BY DEF NoHoles, Inv, TypeOK, TailEnd, TailDropped
<1>1. /\ UNCHANGED runVars /\ seq' = seq /\ log' = log /\ phase' = phase /\ vpc'[v] = "ended"
      /\ key' = key /\ found' = found /\ from' = from /\ chan' = chan /\ got' = got
  BY <1>0 DEF TailEnd, TailDropped, runVars, TypeOK
<1>2. GapInv(v)'
  BY <1>0, <1>1 DEF HoleInv, GapInv, Whole, IsOwed, OnFile, SentBefore
<1>3. ASSUME chan[v] = "closed", NEW d \in 1..MaxSeq, IsOwed(v, d) PROVE WasSent(v, d)
  <2>1. TailEnd(v) /\ queue[v] = <<>>
    BY <1>3 DEF TailEnd, TailDropped, AtEof
  <2>2. d <= seq[k]
    <3>1. CASE OnFile(v, d)
      BY <1>0, <3>1 DEF OnFile, LogInv
    <3> QED
      BY <1>0, <1>3, <3>1 DEF IsOwed
  <2>3. CASE d \in 1..from[v]
    <3>1. OnFile(v, d)
      BY <1>0, <1>3, <2>3 DEF IsOwed
    <3> QED
      BY <1>0, <2>3, <3>1 DEF HoleInv, ChainInv
  <2>4. CASE d \in (from[v] + 1)..seq[k]
    <3>1. Caught(v, d)
      BY <1>3, <2>1 DEF Caught
    <3> QED
      BY <1>0, <2>4, <3>1 DEF HoleInv, ChainInv
  <2> QED
    BY <1>0, <2>2, <2>3, <2>4
<1>4. EndInv(v)'
  <2>1. chan[v] = "closed" => phase[k] \in Over
    BY <1>0 DEF HoleInv, ChainInv, Over
  <2>2. \A d : (IsOwed(v, d)' <=> IsOwed(v, d)) /\ (WasSent(v, d)' <=> WasSent(v, d))
    BY <1>1 DEF IsOwed, OnFile, WasSent, SentBefore
  <2> QED
    BY <1>1, <1>3, <2>1, <2>2 DEF EndInv
<1>5. ChainInv(v)' /\ FileInv(v)'
  BY <1>1 DEF ChainInv, FileInv
<1>6. \A w \in Viewers \ {v} : vpc'[w] = vpc[w] /\ queue'[w] = queue[w]
  BY <1>0 DEF TailEnd, TailDropped, TypeOK
<1> QED
  BY <1>1, <1>2, <1>4, <1>5, <1>6, ViewerHole DEF HoleInv

LEMMA CrashHole == ASSUME Inv, NoHoles, Crash PROVE NoHoles'
<1>1. \A r \in Runs : FileFull(r)'
  BY DEF NoHoles, Crash, FileFull
<1>2. ASSUME NEW v \in Viewers PROVE HoleInv(v)'
  <2>1. vpc'[v] = "idle"
    BY DEF Crash
  <2> QED
    BY <2>1, HoleIdle
<1> QED
  BY <1>1, <1>2 DEF NoHoles

LEMMA StepHole == Inv /\ NoHoles /\ [Next]_vars => NoHoles'
<1> SUFFICES ASSUME Inv, NoHoles, [Next]_vars PROVE NoHoles'
  OBVIOUS
<1>1. ASSUME NEW r \in Runs, RunStep(r) PROVE NoHoles'
  BY <1>1, EmitHole, RunHole DEF RunStep
<1>2. ASSUME NEW v \in Viewers, ViewStep(v) PROVE NoHoles'
  BY <1>2, LookupHole, AttachHole, ReplayHole, ReplayDoneHole, ForwardHole, StopHole DEF ViewStep
<1>3. ASSUME NEW v \in Viewers, Leave(v) \/ \E r \in Runs : Open(v, r) PROVE NoHoles'
  BY <1>3, LeaveHole, OpenHole
<1>4. CASE Crash
  BY <1>4, CrashHole
<1>5. CASE UNCHANGED vars
  <2>1. \A r \in Runs : FileFull(r)'
    BY <1>5 DEF NoHoles, FileFull, vars
  <2>2. \A v \in Viewers : HoleInv(v)'
    BY <1>5, HoleFrame DEF NoHoles, vars, viewVars
  <2> QED
    BY <2>1, <2>2 DEF NoHoles
<1> QED
  BY <1>1, <1>2, <1>3, <1>4, <1>5 DEF Next

LEMMA HoleInit == Init => NoHoles
<1> SUFFICES ASSUME Init PROVE NoHoles
  OBVIOUS
<1>1. \A r \in Runs : FileFull(r)
  BY DEF Init, FileFull
<1>2. \A v \in Viewers : HoleInv(v)
  BY DEF Init, HoleInv, GapInv, ChainInv, FileInv, EndInv
<1> QED
  BY <1>1, <1>2 DEF NoHoles

\* What a stream owes is within the events there are.
LEMMA OwedOne ==
  ASSUME TypeOK, NEW v \in Viewers, NEW d \in Owed(v)
  PROVE  d \in 1..MaxSeq /\ IsOwed(v, d)
<1> USE MaxSeqAssumption
<1>0. key[v] \in Runs /\ from[v] \in 0..MaxSeq /\ seq[key[v]] \in 0..MaxSeq /\ log[key[v]] \in Seq(1..MaxSeq)
  BY DEF TypeOK
<1>1. CASE d \in (from[v] + 1)..seq[key[v]]
  BY <1>0, <1>1 DEF IsOwed
<1>2. CASE d \in {log[key[v]][i] : i \in 1..Len(log[key[v]])}
  <2>1. PICK i \in 1..Len(log[key[v]]) : d = log[key[v]][i]
    BY <1>2
  <2> QED
    BY <1>0, <2>1, SeqElements DEF IsOwed, OnFile
<1> QED
  BY <1>1, <1>2 DEF Owed

\* Whatever a viewer was sent, nothing it is owed was left out before it: neither between the file
\* and the channel nor where a slow subscriber was dropped (Subscribe, emit, replayFile).
THEOREM Gapless == Spec => []NoGap
<1>1. Inv /\ NoHoles => NoGap
  <2> SUFFICES ASSUME Inv, NoHoles, NEW v \in Viewers, vpc[v] \in {"replay", "tail", "ended"},
                      from[v] > 0 \/ Len(log[key[v]]) = seq[key[v]],
                      NEW n \in 1..Len(got[v]), NEW d \in Owed(v), d < got[v][n]
               PROVE  d \in Sent(v, n)
    BY DEF NoGap
  <2>1. SentBefore(v, n, d)
    BY OwedOne DEF Inv, NoHoles, HoleInv, GapInv, Whole
  <2> QED
    BY <2>1 DEF SentBefore, Sent
<1> QED
  BY <1>1, InitInv, StepInv, HoleInit, StepHole, PTL DEF Spec

\* A stream that ends cleanly has sent all that is on file and all that was emitted since the viewer
\* attached, however its lookup and attachment fell between the two halves of Finish.
THEOREM CleanEnd == Spec => []EofComplete
<1>1. Inv /\ NoHoles => EofComplete
  <2> SUFFICES ASSUME Inv, NoHoles, NEW v \in Viewers, vpc[v] = "ended", chan[v] = "closed",
                      found[v] # "opening", NEW d \in Owed(v)
               PROVE  d \in Sent(v, Len(got[v]))
    BY DEF EofComplete
  <2>1. WasSent(v, d)
    BY OwedOne DEF Inv, NoHoles, HoleInv, EndInv
  <2> QED
    BY <2>1 DEF WasSent, SentBefore, Sent
<1> QED
  BY <1>1, InitInv, StepInv, HoleInit, StepHole, PTL DEF Spec
=============================================================================
