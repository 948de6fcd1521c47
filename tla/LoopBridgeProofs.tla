-------------------------- MODULE LoopBridgeProofs --------------------------
(***************************************************************************)
(* The bridge's type correctness and its wake protocol, for any number of  *)
(* producers and completions and for either doorbell.                      *)
(***************************************************************************)
EXTENDS LoopBridge, TLAPS

\* The initial state is well typed.
LEMMA InitTypeOK == Init => TypeOK
<1> SUFFICES ASSUME Init PROVE TypeOK
  OBVIOUS
<1> USE DEF Init
<1>1. /\ queue \in Seq(Completions)
      /\ batch \in Seq(Completions)
      /\ delivered \in Seq(Completions)
      /\ drain = "deliver" <=> batch # <<>>
  OBVIOUS
<1>2. /\ armed \in BOOLEAN
      /\ alive \in BOOLEAN
      /\ loopOpen \in BOOLEAN
      /\ registered \in BOOLEAN
  OBVIOUS
<1>3. /\ doorbell \in DoorbellKinds
      /\ wakes \in Nat
      /\ unsent \subseteq Completions
      /\ pc \in [Producers -> ProducerPc]
      /\ drain \in DrainPc
  BY DEF ProducerPc, DrainPc
<1> QED
  BY <1>1, <1>2, <1>3 DEF TypeOK

\* Every step keeps the state well typed, and keeps a batch exactly while the
\* drain is in its delivery loop.
LEMMA NextTypeOK == TypeOK /\ [Next]_vars => TypeOK'
<1> SUFFICES ASSUME TypeOK, [Next]_vars PROVE TypeOK'
  OBVIOUS
<1> USE DEF TypeOK, DoorbellKinds, ProducerPc, DrainPc, producerVars, loopVars,
        lifeVars, Goto
<1>1. ASSUME NEW p \in Producers, Push(p) PROVE TypeOK'
  BY <1>1 DEF Push
<1>2. ASSUME NEW p \in Producers, Swap(p) PROVE TypeOK'
  BY <1>2 DEF Swap
<1>3. ASSUME NEW p \in Producers, CheckAlive(p) PROVE TypeOK'
  BY <1>3 DEF CheckAlive
<1>4. ASSUME NEW p \in Producers, RingPipe(p) PROVE TypeOK'
  BY <1>4 DEF RingPipe
<1>5. ASSUME NEW p \in Producers, RingCallSoon(p) PROVE TypeOK'
  BY <1>5 DEF RingCallSoon
<1>6. ASSUME NEW p \in Producers, DropStale(p) PROVE TypeOK'
  BY <1>6 DEF DropStale
<1>7. ASSUME NEW p \in Producers, DisarmStale(p) PROVE TypeOK'
  BY <1>7 DEF DisarmStale
<1>8. ASSUME NEW p \in Producers, Unregister(p) PROVE TypeOK'
  BY <1>8 DEF Unregister
<1>9. CASE DrainStart
  BY <1>9 DEF DrainStart, Quieted
<1>10. CASE Take
  BY <1>10 DEF Take
<1>11. CASE Deliver
  BY <1>11 DEF Deliver
<1>12. CASE Disarm
  BY <1>12 DEF Disarm
<1>13. CASE Recheck
  BY <1>13 DEF Recheck
<1>14. CASE Rearm
  BY <1>14 DEF Rearm
<1>15. CASE LoopClose
  BY <1>15 DEF LoopClose
<1>16. CASE Retain
  BY <1>16 DEF Retain
<1>17. CASE Shutdown
  BY <1>17 DEF Shutdown
<1>18. CASE UNCHANGED vars
  BY <1>18 DEF vars
<1> QED
  BY <1>1, <1>2, <1>3, <1>4, <1>5, <1>6, <1>7, <1>8, <1>9, <1>10, <1>11,
     <1>12, <1>13, <1>14, <1>15, <1>16, <1>17, <1>18
  DEF Next, ProducerStep, DrainStep

\* The bridge's state is well typed in every reachable state.
THEOREM TypeCorrect == Spec => []TypeOK
  BY InitTypeOK, NextTypeOK, PTL DEF Spec

\* Every step hands the armed token over or leaves it where it is.
LEMMA NextArmedProtocol ==
  TypeOK /\ ArmedProtocol /\ [Next]_vars => ArmedProtocol'
<1> SUFFICES ASSUME TypeOK, ArmedProtocol, [Next]_vars PROVE ArmedProtocol'
  OBVIOUS
<1> USE DEF TypeOK, ArmedProtocol, ArmedIsHeld, HolderArms,
        UnarmedIsSeen, StaleIsClosed, DrainNeedsLoop, OneWakePerBurst,
        Ringers, Draining, At, DoorbellKinds, ProducerPc, DrainPc,
        producerVars, loopVars, lifeVars, Goto
<1>1. ASSUME NEW p \in Producers, Push(p) PROVE ArmedProtocol'
  BY <1>1 DEF Push
<1>2. ASSUME NEW p \in Producers, Swap(p) PROVE ArmedProtocol'
  BY <1>2 DEF Swap
<1>3. ASSUME NEW p \in Producers, CheckAlive(p) PROVE ArmedProtocol'
  BY <1>3 DEF CheckAlive
<1>4. ASSUME NEW p \in Producers, RingPipe(p) PROVE ArmedProtocol'
  BY <1>4 DEF RingPipe
<1>5. ASSUME NEW p \in Producers, RingCallSoon(p) PROVE ArmedProtocol'
  BY <1>5 DEF RingCallSoon
<1>6. ASSUME NEW p \in Producers, DropStale(p) PROVE ArmedProtocol'
  BY <1>6 DEF DropStale
<1>7. ASSUME NEW p \in Producers, DisarmStale(p) PROVE ArmedProtocol'
  BY <1>7 DEF DisarmStale
<1>8. ASSUME NEW p \in Producers, Unregister(p) PROVE ArmedProtocol'
  BY <1>8 DEF Unregister
<1>9. CASE DrainStart
  BY <1>9 DEF DrainStart, Quieted
<1>10. CASE Take
  BY <1>10 DEF Take
<1>11. CASE Deliver
  BY <1>11 DEF Deliver
<1>12. CASE Disarm
  BY <1>12 DEF Disarm
<1>13. CASE Recheck
  BY <1>13 DEF Recheck
<1>14. CASE Rearm
  BY <1>14 DEF Rearm
<1>15. CASE LoopClose
  BY <1>15 DEF LoopClose
<1>16. CASE Retain
  BY <1>16 DEF Retain
<1>17. CASE Shutdown
  BY <1>17 DEF Shutdown
<1>18. CASE UNCHANGED vars
  BY <1>18 DEF vars
<1> QED
  BY <1>1, <1>2, <1>3, <1>4, <1>5, <1>6, <1>7, <1>8, <1>9,
     <1>10, <1>11, <1>12, <1>13, <1>14, <1>15, <1>16, <1>17, <1>18
  DEF Next, ProducerStep, DrainStep

\* Nothing is armed, queued or ringing at the start.
LEMMA InitArmedProtocol == Init => ArmedProtocol
  BY DEF Init, ArmedProtocol, ArmedIsHeld, HolderArms, UnarmedIsSeen,
         StaleIsClosed, DrainNeedsLoop, OneWakePerBurst, Ringers, Draining, At

\* The armed protocol holds in every reachable state.
THEOREM ArmedProtocolHolds == Spec => []ArmedProtocol
<1>1. Init => TypeOK /\ ArmedProtocol
  BY InitTypeOK, InitArmedProtocol
<1>2. TypeOK /\ ArmedProtocol /\ [Next]_vars => (TypeOK /\ ArmedProtocol)'
  BY NextTypeOK, NextArmedProtocol
<1> QED
  BY <1>1, <1>2, PTL DEF Spec

\* A completion pushed while the drain disarms is never left without somebody
\* who will look at the queue: no wakeup of complete() is lost.
THEOREM WakeupsNotLost == Spec => []NoLostWakeup
<1>1. ArmedProtocol => NoLostWakeup
  BY DEF ArmedProtocol, ArmedIsHeld, UnarmedIsSeen, NoLostWakeup, Ringers,
         Draining, At
<1> QED
  BY <1>1, ArmedProtocolHolds, PTL

\* The doorbell is rung at most once per burst, whatever the number of
\* threads that call complete().
THEOREM OneWake == Spec => []OneWakePerBurst
<1>1. ArmedProtocol => OneWakePerBurst
  BY DEF ArmedProtocol
<1> QED
  BY <1>1, ArmedProtocolHolds, PTL

-----------------------------------------------------------------------------
(* The bridge implements the safety half of the channel.                   *)

\* A completion is pushed once: what is yet to be pushed is nowhere else.
SentOnce ==
  \A c \in unsent :
    /\ \A i \in DOMAIN queue : queue[i] # c
    /\ \A i \in DOMAIN batch : batch[i] # c
    /\ \A i \in DOMAIN delivered : delivered[i] # c

LEMMA NextSentOnce == TypeOK /\ SentOnce /\ [Next]_vars => SentOnce'
<1> SUFFICES ASSUME TypeOK, SentOnce, [Next]_vars PROVE SentOnce'
  OBVIOUS
<1> USE DEF TypeOK, SentOnce, producerVars, loopVars, lifeVars
<1>1. ASSUME NEW p \in Producers, Push(p) PROVE SentOnce'
  BY <1>1 DEF Push
<1>2. ASSUME NEW p \in Producers, ProducerStep(p) PROVE SentOnce'
  BY <1>2 DEF ProducerStep, Swap, CheckAlive, RingPipe, RingCallSoon, DropStale,
     DisarmStale, Unregister
<1>3. CASE Take
  BY <1>3 DEF Take
<1>4. CASE Deliver
  <2>1. batch # <<>>
    BY <1>4 DEF Deliver
  <2>2. /\ \A i \in DOMAIN batch' : i + 1 \in DOMAIN batch /\ batch'[i] = batch[i + 1]
        /\ 1 \in DOMAIN batch /\ Head(batch) = batch[1]
    BY <1>4, <2>1 DEF Deliver
  <2>3. \A i \in DOMAIN delivered' :
          \/ i \in DOMAIN delivered /\ delivered'[i] = delivered[i]
          \/ delivered'[i] = Head(batch)
    BY <1>4 DEF Deliver
  <2> QED
    BY <1>4, <2>2, <2>3 DEF Deliver
<1>5. CASE DrainStart \/ Disarm \/ Recheck \/ Rearm \/ LoopClose \/ Retain \/ Shutdown
  BY <1>5 DEF DrainStart, Disarm, Recheck, Rearm, LoopClose, Retain, Shutdown
<1>6. CASE UNCHANGED vars
  BY <1>6 DEF vars
<1> QED
  BY <1>1, <1>2, <1>3, <1>4, <1>5, <1>6 DEF Next, DrainStep

\* What concatenation does at both ends of the channel.
LEMMA ConcatUnits ==
  ASSUME NEW S, NEW s \in Seq(S)
  PROVE  <<>> \o s = s /\ s \o <<>> = s
  OBVIOUS

LEMMA ConcatAppend ==
  ASSUME NEW S, NEW s \in Seq(S), NEW t \in Seq(S), NEW x \in S
  PROVE  s \o Append(t, x) = Append(s \o t, x)
  OBVIOUS

LEMMA ConcatHead ==
  ASSUME NEW S, NEW s \in Seq(S), NEW t \in Seq(S), s # <<>>
  PROVE  s \o t # <<>> /\ Head(s \o t) = Head(s) /\ Tail(s \o t) = Tail(s) \o t
  OBVIOUS

LEMMA ConcatElements ==
  ASSUME NEW S, NEW s \in Seq(S), NEW t \in Seq(S), NEW i \in DOMAIN (s \o t)
  PROVE  \/ \E j \in DOMAIN s : (s \o t)[i] = s[j]
         \/ \E j \in DOMAIN t : (s \o t)[i] = t[j]
  OBVIOUS

\* Every step of the bridge is a step of the channel or leaves it alone.
LEMMA NextIsChannel ==
  TypeOK /\ ArmedProtocol /\ SentOnce /\ [Next]_vars
    => [Channel!Next]_(Channel!chanVars)
<1> SUFFICES ASSUME TypeOK, ArmedProtocol, SentOnce, [Next]_vars
             PROVE  [Channel!Next]_(Channel!chanVars)
  OBVIOUS
<1>0. /\ batch \in Seq(Completions) /\ queue \in Seq(Completions)
      /\ drain # "deliver" => batch = <<>>
      /\ drain = "deliver" => batch # <<>>
      /\ alive \in BOOLEAN /\ loopOpen \in BOOLEAN
  BY DEF TypeOK
<1>q. ASSUME UNCHANGED <<queue, batch, delivered, alive, loopOpen>>
      PROVE  UNCHANGED Channel!chanVars
  BY <1>q DEF Channel!chanVars
<1>1. ASSUME NEW p \in Producers, Push(p) PROVE Channel!Next
  <2>1. PICK c \in unsent : queue' = Append(queue, c)
    BY <1>1 DEF Push
  <2>2. c \in Completions
    BY DEF TypeOK
  <2>3. batch' \o queue' = Append(batch \o queue, c)
    BY <1>0, <1>1, <2>1, <2>2, ConcatAppend DEF Push, loopVars
  <2>4. c \notin Range(batch \o queue)
    BY <1>0, ConcatElements DEF SentOnce, Range
  <2>5. c \notin Range(delivered)
    BY DEF SentOnce, Range
  <2>6. UNCHANGED <<delivered, alive, loopOpen>>
    BY <1>1 DEF Push, loopVars, lifeVars
  <2>7. Channel!Send(c)
    BY <2>3, <2>4, <2>5, <2>6 DEF Channel!Send, Range, Channel!Range
  <2> QED
    BY <2>2, <2>7 DEF Channel!Next
<1>2. ASSUME NEW p \in Producers, DropStale(p) PROVE Channel!Next
  <2>1. ~loopOpen /\ drain = "idle"
    BY <1>2 DEF DropStale, Goto, ArmedProtocol, StaleIsClosed, DrainNeedsLoop, At
  <2>2. batch' \o queue' = <<>>
    <3>1. batch' = <<>> /\ queue' = <<>>
      BY <1>0, <1>2, <2>1 DEF DropStale, loopVars
    <3> QED
      BY <3>1
  <2>3. UNCHANGED <<delivered, alive, loopOpen>>
    BY <1>2 DEF DropStale, loopVars, lifeVars
  <2>4. Channel!Discard
    BY <2>1, <2>2, <2>3 DEF Channel!Discard
  <2> QED
    BY <2>4 DEF Channel!Next
<1>3. ASSUME NEW p \in Producers,
             \/ Swap(p) \/ CheckAlive(p) \/ RingPipe(p) \/ RingCallSoon(p)
             \/ DisarmStale(p) \/ Unregister(p)
      PROVE  UNCHANGED Channel!chanVars
  BY <1>3, <1>q DEF Swap, CheckAlive, RingPipe, RingCallSoon, DisarmStale, Unregister,
     loopVars, lifeVars
<1>4. CASE Take
  <2>1. batch = <<>> /\ batch' = queue /\ queue' = <<>>
    BY <1>0, <1>4 DEF Take
  <2>2. batch' \o queue' = batch \o queue
    BY <1>0, <2>1, ConcatUnits
  <2> QED
    BY <1>4, <2>2 DEF Take, lifeVars, Channel!chanVars
<1>5. CASE Deliver
  <2>1. /\ batch # <<>> /\ batch' = Tail(batch) /\ queue' = queue
        /\ delivered' = Append(delivered, Head(batch))
        /\ UNCHANGED <<alive, loopOpen>>
    BY <1>0, <1>5 DEF Deliver, lifeVars
  <2>2. /\ batch \o queue # <<>> /\ Head(batch \o queue) = Head(batch)
        /\ Tail(batch \o queue) = Tail(batch) \o queue
    BY <1>0, <2>1, ConcatHead
  <2>3. Channel!Deliver
    BY <2>1, <2>2 DEF Channel!Deliver
  <2> QED
    BY <2>3 DEF Channel!Next
<1>6. CASE DrainStart \/ Disarm \/ Recheck \/ Rearm \/ Retain
  BY <1>6, <1>q DEF DrainStart, Disarm, Recheck, Rearm, Retain, loopVars, lifeVars
<1>7. CASE LoopClose \/ Shutdown
  <2>1. Channel!Retire
    BY <1>7 DEF LoopClose, Shutdown, loopVars, Channel!Retire
  <2> QED
    BY <2>1 DEF Channel!Next
<1>8. CASE UNCHANGED vars
  BY <1>8, <1>q DEF vars
<1> QED
  BY <1>1, <1>2, <1>3, <1>4, <1>5, <1>6, <1>7, <1>8 DEF Next, ProducerStep, DrainStep

\* However many threads complete ops, and wherever the loop closes or the
\* interpreter exits in between, the bridge is a first-in-first-out channel:
\* it loses, repeats and reorders no completion of a live loop.
THEOREM KeepsChannel == Spec => Channel!Safety
<1>1. Init => Channel!Init
  <2> SUFFICES ASSUME Init PROVE Channel!Init
    OBVIOUS
  <2>1. batch \o queue = <<>>
    BY DEF Init
  <2> QED
    BY <2>1 DEF Init, Channel!Init
<1>2. Init => SentOnce
  BY DEF Init, SentOnce
<1> QED
  BY <1>1, <1>2, NextSentOnce, NextIsChannel, TypeCorrect, ArmedProtocolHolds, PTL
  DEF Spec, Channel!Safety
=============================================================================
