----------------------- MODULE PayloadDelivery_proofs -----------------------
(***************************************************************************)
(* Safety of PayloadDelivery for every value of its constants.             *)
(***************************************************************************)
EXTENDS PayloadDelivery, TLAPS

-----------------------------------------------------------------------------
(* Sequences.                                                              *)

\* A slice of a sequence: its type, its length and its elements.
LEMMA SliceFacts ==
    ASSUME NEW S, NEW s \in Seq(S), NEW a \in 1 .. Len(s) + 1, NEW b \in 0 .. Len(s),
           a <= b + 1
    PROVE  /\ SubSeq(s, a, b) \in Seq(S)
           /\ Len(SubSeq(s, a, b)) = b - a + 1
           /\ \A i \in 1 .. b - a + 1 : SubSeq(s, a, b)[i] = s[a + i - 1]
OBVIOUS

\* What reaches the disk of the end of a sequence is a slice of it, and the
\* whole of it unless writes are cut short.
LEMMA WrittenSuffix ==
    ASSUME NEW S, NEW s \in Seq(S), NEW a \in 1 .. Len(s) + 1,
           NEW w \in Written(SubSeq(s, a, Len(s)))
    PROVE  /\ w \in Seq(S)
           /\ Len(w) <= Len(s) - a + 1
           /\ \A i \in 1 .. Len(w) : a + i - 1 \in 1 .. Len(s) /\ w[i] = s[a + i - 1]
           /\ "short" \notin Faults => w = SubSeq(s, a, Len(s))
<1> DEFINE t == SubSeq(s, a, Len(s))
<1>1. /\ t \in Seq(S)
      /\ Len(t) = Len(s) - a + 1
      /\ \A i \in 1 .. Len(t) : t[i] = s[a + i - 1]
  BY SliceFacts
<1>2. CASE w = t
  BY <1>1, <1>2
<1>3. CASE "short" \in Faults /\ \E k \in 0 .. Len(t) : w = SubSeq(t, 1, k)
  <2>1. PICK k \in 0 .. Len(t) : w = SubSeq(t, 1, k)
    BY <1>3
  <2>2. /\ w \in Seq(S)
        /\ Len(w) = k
        /\ \A i \in 1 .. k : w[i] = t[i]
    <3> HIDE DEF t
    <3> QED  BY <1>1, <2>1, SliceFacts
  <2> QED  BY <1>1, <1>3, <2>2
<1> QED  BY <1>2, <1>3 DEF Written

-----------------------------------------------------------------------------
(* Type correctness.                                                       *)

\* How phase, cur, pos and attempt go together.
Control ==
    /\ phase \in Holding \cup {"stored"} => cur = created /\ cur # 0
    /\ phase \in {"idle", "opendrain", "drain", "commit"} => cur = 0
    /\ phase \notin {"drain", "commit"} => pos = 0
    /\ phase = "sending" => attempt # 0

TypeInv == TypeOK /\ Control

LEMMA TypeInit == Init => TypeInv
BY RetryAssumption, BoundsAssumption
DEF Init, TypeInv, TypeOK, Control, Phases, Holding, Unsettled

LEMMA TypeStep == TypeInv /\ [Next]_vars => TypeInv'
<1> SUFFICES ASSUME TypeInv, [Next]_vars
             PROVE  TypeInv'
  OBVIOUS
<1> USE RetryAssumption, LinesAssumption, BoundsAssumption
    DEF TypeInv, TypeOK, Control, Phases, Holding, Unsettled, queueVars, fateVars
<1>held. phase \in Holding \cup {"stored"} => cur \in 1 .. created
  OBVIOUS
<1>add. ASSUME cur \in 1 .. created
      PROVE  dropped \cup {cur} \subseteq 1 .. created /\ delivered \cup {cur} \subseteq 1 .. created
  BY <1>add
<1>1. CASE CreatePayload
  <2>1. spool \in Seq(1 .. created + 1)
    OBVIOUS
  <2> QED  BY <1>1, <2>1 DEF CreatePayload
<1>2. CASE SendAccepted
  BY <1>2 DEF SendAccepted, Accepted
<1>3. CASE SendFailed
  <2>1. delivered' \subseteq 1 .. created /\ acked' \subseteq 1 .. created
    BY <1>held, <1>add, <1>3 DEF SendFailed, Failed
  <2>2. attempt' \in 0 .. RETRY_COUNT /\ attempt' # 0 /\ phase' \in {"sending", "space"}
    BY <1>3 DEF SendFailed
  <2> QED  BY <1>3, <2>1, <2>2 DEF SendFailed
<1>4. CASE Release
  BY <1>4 DEF Release
<1>5. CASE CheckSpace
  BY <1>5 DEF CheckSpace
<1>6. ASSUME NEW next \in {"recheck", "append"}, TrimOfflineQueue(next),
             phase \in {"trimlow", "trim"}
      PROVE  TypeInv'
  <2>1. spool' \in Seq(1 .. created)
    BY <1>6, WrittenSuffix DEF TrimOfflineQueue
  <2>2. dropped' \subseteq 1 .. created
    <3>1. {spool[i] : i \in 1 .. Len(spool) - MAX_OFFLINE_LINES} \subseteq 1 .. created
      OBVIOUS
    <3> QED  BY <1>6, <3>1 DEF TrimOfflineQueue
  <2> QED  BY <1>6, <2>1, <2>2 DEF TrimOfflineQueue
<1>7. CASE TrimLowSpace
  BY <1>6, <1>7 DEF TrimLowSpace
<1>8. CASE RecheckSpace
  <2>1. dropped' \subseteq 1 .. created /\ phase' \in {"makedir", "stored"}
    BY <1>held, <1>add, <1>8 DEF RecheckSpace, DropCurrent
  <2> QED  BY <1>8, <2>1 DEF RecheckSpace
<1>9. CASE EnsureParentDir
  <2>1. dropped' \subseteq 1 .. created /\ phase' \in {"trim", "stored"}
    BY <1>held, <1>add, <1>9 DEF EnsureParentDir, DropCurrent
  <2> QED  BY <1>9, <2>1 DEF EnsureParentDir
<1>10. CASE TrimToLimit
  BY <1>6, <1>10 DEF TrimToLimit
<1>11. CASE AppendLine
  <2>1. ASSUME NEW w \in Written(<<cur>>)
        PROVE  w \in Seq(1 .. created)
    <3>1. <<cur>> \in Seq(1 .. created) /\ Len(<<cur>>) = 1
      BY <1>11 DEF AppendLine
    <3>2. \A k \in 0 .. 1 : SubSeq(<<cur>>, 1, k) \in Seq(1 .. created)
      BY <3>1, SliceFacts
    <3> QED  BY <2>1, <3>1, <3>2 DEF Written
  <2>2. spool' \in Seq(1 .. created)
    <3>1. CASE spool' = spool
      BY <3>1
    <3>2. CASE \E w \in Written(<<cur>>) : spool' = spool \o w
      BY <2>1, <3>2
    <3> QED  BY <1>11, <3>1, <3>2 DEF AppendLine
  <2>3. dropped' \subseteq 1 .. created /\ phase' = "stored"
    BY <1>held, <1>add, <1>11 DEF AppendLine, DropCurrent
  <2> QED  BY <1>11, <2>2, <2>3 DEF AppendLine
<1>12. CASE OpenDrain
  BY <1>12 DEF OpenDrain
<1>13. CASE DrainSent
  <2>1. spool[pos + 1] \in 1 .. created /\ pos + 1 \in 0 .. Len(spool)
    BY <1>13 DEF DrainSent
  <2>2. delivered' \subseteq 1 .. created /\ acked' \subseteq 1 .. created
    BY <1>13, <2>1 DEF DrainSent, Accepted
  <2> QED  BY <1>13, <2>1, <2>2 DEF DrainSent
<1>14. CASE DrainStops
  <2>1. delivered' \subseteq 1 .. created /\ acked' \subseteq 1 .. created
    <3>1. CASE pos < Len(spool) /\ Failed(spool[pos + 1])
      <4>1. spool[pos + 1] \in 1 .. created
        BY <1>14, <3>1 DEF DrainStops
      <4> QED  BY <3>1, <4>1 DEF Failed
    <3> QED  BY <1>14, <3>1 DEF DrainStops
  <2> QED  BY <1>14, <2>1 DEF DrainStops
<1>15. CASE DrainCommit
  <2>1. spool' \in Seq(1 .. created)
    BY <1>15, WrittenSuffix DEF DrainCommit
  <2> QED  BY <1>15, <2>1 DEF DrainCommit
<1>16. CASE Killed
  BY <1>16 DEF Killed
<1>17. CASE ServerFlips
  BY <1>17 DEF ServerFlips
<1>18. CASE UNCHANGED vars
  BY <1>18 DEF vars
<1> QED
  BY <1>1, <1>2, <1>3, <1>4, <1>5, <1>7, <1>8, <1>9, <1>10, <1>11, <1>12,
     <1>13, <1>14, <1>15, <1>16, <1>17, <1>18 DEF Next, SenderStep

\* Every variable keeps its type, and phase tells what cur, pos and attempt
\* mean: a payload is in hand exactly while the sender works on it.
THEOREM TypeCorrect == Spec => []TypeInv
BY TypeInit, TypeStep, PTL DEF Spec

\* The type invariant of the delivery path holds whatever the constants are.
THEOREM TypeOKCorrect == Spec => []TypeOK
<1>1. TypeInv => TypeOK
  BY DEF TypeInv
<1> QED  BY <1>1, TypeCorrect, PTL

-----------------------------------------------------------------------------
(* The order of the queue file.                                            *)

\* The end of an ordered file, however much of it is written, is ordered and
\* holds nothing new.
LEMMA SuffixOrdered ==
    ASSUME TypeInv, SpoolOrdered,
           NEW a \in 1 .. Len(spool) + 1, NEW w \in Written(SubSeq(spool, a, Len(spool)))
    PROVE  /\ \A i, j \in DOMAIN w : i < j => w[i] < w[j]
           /\ \A i \in DOMAIN w : w[i] \in Lines(spool)
<1>1. spool \in Seq(1 .. created)
  BY DEF TypeInv, TypeOK
<1>2. /\ w \in Seq(1 .. created)
      /\ \A i \in 1 .. Len(w) : a + i - 1 \in 1 .. Len(spool) /\ w[i] = spool[a + i - 1]
  BY <1>1, WrittenSuffix
<1>3. \A i \in 1 .. Len(w) : w[i] \in Lines(spool)
  BY <1>1, <1>2 DEF Lines
<1>4. ASSUME NEW i \in 1 .. Len(w), NEW j \in 1 .. Len(w), i < j
      PROVE  w[i] < w[j]
  <2>1. /\ a + i - 1 \in DOMAIN spool /\ a + j - 1 \in DOMAIN spool
        /\ a + i - 1 < a + j - 1
    BY <1>1, <1>2, <1>4
  <2> QED  BY <1>2, <2>1 DEF SpoolOrdered
<1>5. DOMAIN w = 1 .. Len(w)
  BY <1>2
<1> QED  BY <1>3, <1>4, <1>5

LEMMA OrderStep == TypeInv /\ TypeInv' /\ SpoolOrdered /\ [Next]_vars => SpoolOrdered'
<1> SUFFICES ASSUME TypeInv, TypeInv', SpoolOrdered, [Next]_vars
             PROVE  SpoolOrdered'
  OBVIOUS
<1>typed. spool \in Seq(1 .. created) /\ created \in Nat /\ cur \in Nat
  BY BoundsAssumption DEF TypeInv, TypeOK
\* A step that leaves the file alone, and holds on to the payload in hand or
\* lets it go.
<1>keep. ASSUME spool' = spool, InHand' \subseteq InHand
         PROVE  SpoolOrdered'
  BY <1>keep DEF SpoolOrdered
<1>1. CASE CreatePayload
  <2>1. InHand' = {created + 1} /\ spool' = spool
    BY <1>1 DEF CreatePayload, InHand, Holding, Unsettled
  <2> QED  BY <1>typed, <2>1 DEF SpoolOrdered
<1>2. CASE SendAccepted
  BY <1>2, <1>keep DEF SendAccepted, InHand, Holding, Unsettled
<1>3. CASE SendFailed
  BY <1>3, <1>keep DEF SendFailed, InHand, Holding, Unsettled
<1>4. CASE Release
  BY <1>4, <1>keep DEF Release, InHand, Holding, Unsettled
<1>5. CASE CheckSpace
  BY <1>5, <1>keep DEF CheckSpace, InHand, Holding, Unsettled
<1>6. ASSUME NEW next \in {"recheck", "append"}, TrimOfflineQueue(next),
             phase \in {"trimlow", "trim"}
      PROVE  SpoolOrdered'
  <2>1. InHand' = InHand
    BY <1>6 DEF TrimOfflineQueue, InHand, Holding, Unsettled
  <2>2. CASE spool' = spool
    BY <1>keep, <2>1, <2>2
  <2>3. CASE /\ Len(spool) > MAX_OFFLINE_LINES
             /\ spool' \in Written(SubSeq(spool, Len(spool) - MAX_OFFLINE_LINES + 1, Len(spool)))
    <3>1. Len(spool) - MAX_OFFLINE_LINES + 1 \in 1 .. Len(spool) + 1
      BY <1>typed, <2>3, LinesAssumption
    <3> QED  BY <2>1, <2>3, <3>1, SuffixOrdered DEF SpoolOrdered, Lines
  <2> QED  BY <1>6, <2>2, <2>3 DEF TrimOfflineQueue
<1>7. CASE TrimLowSpace
  BY <1>6, <1>7 DEF TrimLowSpace
<1>8. CASE RecheckSpace
  BY <1>8, <1>keep DEF RecheckSpace, DropCurrent, InHand, Holding, Unsettled
<1>9. CASE EnsureParentDir
  BY <1>9, <1>keep DEF EnsureParentDir, DropCurrent, InHand, Holding, Unsettled
<1>10. CASE TrimToLimit
  BY <1>6, <1>10 DEF TrimToLimit
<1>11. CASE AppendLine
  <2>1. InHand = {cur} /\ InHand' = {}
    BY <1>11 DEF AppendLine, DropCurrent, InHand, Holding, Unsettled
  <2>2. CASE spool' = spool
    BY <1>keep, <2>1, <2>2
  <2>3. ASSUME NEW w \in Written(<<cur>>), spool' = spool \o w
        PROVE  SpoolOrdered'
    <3>1. w \in Seq(Nat) /\ Len(w) \in 0 .. 1 /\ \A i \in 1 .. Len(w) : w[i] = cur
      <4>1. <<cur>> \in Seq(Nat) /\ Len(<<cur>>) = 1 /\ <<cur>>[1] = cur
        BY <1>typed
      <4>2. \A k \in 0 .. 1 : /\ SubSeq(<<cur>>, 1, k) \in Seq(Nat)
                              /\ Len(SubSeq(<<cur>>, 1, k)) = k
                              /\ \A i \in 1 .. k : SubSeq(<<cur>>, 1, k)[i] = <<cur>>[i]
        BY <4>1, SliceFacts
      <4> QED  BY <2>3, <4>1, <4>2 DEF Written
    <3>2. \A i \in 1 .. Len(spool) : spool[i] < cur
      BY <1>typed, <2>1 DEF SpoolOrdered
    <3>3. \A i, j \in 1 .. Len(spool) : i < j => spool[i] < spool[j]
      BY <1>typed DEF SpoolOrdered
    <3>4. DOMAIN (spool \o w) = 1 .. Len(spool) + Len(w)
      BY <1>typed, <3>1
    <3>5. \A i \in 1 .. Len(spool) + Len(w) :
             (spool \o w)[i] = IF i <= Len(spool) THEN spool[i] ELSE cur
      BY <1>typed, <3>1
    <3>6. \A i, j \in 1 .. Len(spool) + Len(w) : i < j => (spool \o w)[i] < (spool \o w)[j]
      BY <1>typed, <3>1, <3>2, <3>3, <3>5
    <3> QED  BY <2>1, <2>3, <3>4, <3>6 DEF SpoolOrdered
  <2> QED  BY <1>11, <2>2, <2>3 DEF AppendLine
<1>12. CASE OpenDrain
  BY <1>12, <1>keep DEF OpenDrain, InHand, Holding, Unsettled
<1>13. CASE DrainSent
  BY <1>13, <1>keep DEF DrainSent, InHand, Holding, Unsettled
<1>14. CASE DrainStops
  BY <1>14, <1>keep DEF DrainStops, InHand, Holding, Unsettled
<1>15. CASE DrainCommit
  <2>1. InHand' = {}
    BY <1>15 DEF DrainCommit, InHand, Holding, Unsettled
  <2>2. pos + 1 \in 1 .. Len(spool) + 1
    BY <1>typed DEF TypeInv, TypeOK
  <2> QED  BY <1>15, <2>1, <2>2, SuffixOrdered DEF DrainCommit, SpoolOrdered
<1>16. CASE Killed
  BY <1>16, <1>keep DEF Killed, InHand, Holding, Unsettled
<1>17. CASE ServerFlips
  BY <1>17, <1>keep DEF ServerFlips, queueVars, InHand, Holding, Unsettled
<1>18. CASE UNCHANGED vars
  BY <1>18, <1>keep DEF vars, InHand, Holding, Unsettled
<1> QED
  BY <1>1, <1>2, <1>3, <1>4, <1>5, <1>7, <1>8, <1>9, <1>10, <1>11, <1>12,
     <1>13, <1>14, <1>15, <1>16, <1>17, <1>18 DEF Next, SenderStep

\* The queue file is always in the order of creation and holds no payload
\* twice, and all of it is older than the payload in hand.
THEOREM OrderCorrect == Spec => []SpoolOrdered
<1>1. Init => SpoolOrdered
  BY DEF Init, SpoolOrdered
<1> QED  BY <1>1, OrderStep, TypeCorrect, PTL DEF Spec

-----------------------------------------------------------------------------
(* No payload disappears.                                                  *)

\* What an acknowledgement is worth: the server has the payload, and the lines
\* a drain has passed are at the server.
SentInv ==
    /\ acked \subseteq delivered
    /\ phase = "sent" => cur \in delivered
    /\ \A i \in 1 .. pos : spool[i] \in delivered

LEMMA SentStep == TypeInv /\ SentInv /\ [Next]_vars => SentInv'
<1> SUFFICES ASSUME TypeInv, SentInv, [Next]_vars
             PROVE  SentInv'
  OBVIOUS
<1>typed. spool \in Seq(1 .. created) /\ pos \in Nat
  BY DEF TypeInv, TypeOK
<1>pos. phase \notin {"drain", "commit"} => pos = 0
  BY DEF TypeInv, Control
\* A step after which the drain has passed no line.
<1>reset. ASSUME acked' \subseteq delivered', pos' = 0, phase' # "sent"
          PROVE  SentInv'
  BY <1>reset DEF SentInv
<1>1. CASE CreatePayload
  BY <1>1, <1>pos, <1>reset DEF CreatePayload, fateVars, SentInv
<1>2. CASE SendAccepted
  BY <1>2, <1>pos DEF SendAccepted, Accepted, SentInv
<1>3. CASE SendFailed
  BY <1>3, <1>pos, <1>reset DEF SendFailed, Failed, SentInv
<1>4. CASE Release
  BY <1>4, <1>pos, <1>reset DEF Release, fateVars, SentInv
<1>5. CASE CheckSpace
  BY <1>5, <1>pos, <1>reset DEF CheckSpace, fateVars, SentInv
<1>6. CASE TrimLowSpace
  BY <1>6, <1>pos, <1>reset DEF TrimLowSpace, TrimOfflineQueue, SentInv
<1>7. CASE RecheckSpace
  BY <1>7, <1>pos, <1>reset DEF RecheckSpace, DropCurrent, SentInv
<1>8. CASE EnsureParentDir
  BY <1>8, <1>pos, <1>reset DEF EnsureParentDir, DropCurrent, SentInv
<1>9. CASE TrimToLimit
  BY <1>9, <1>pos, <1>reset DEF TrimToLimit, TrimOfflineQueue, SentInv
<1>10. CASE AppendLine
  BY <1>10, <1>pos, <1>reset DEF AppendLine, DropCurrent, SentInv
<1>11. CASE OpenDrain
  BY <1>11, <1>pos, <1>reset DEF OpenDrain, fateVars, SentInv
<1>12. CASE DrainSent
  BY <1>12, <1>typed DEF DrainSent, Accepted, SentInv
<1>13. CASE DrainStops
  <2>1. acked' = acked /\ delivered \subseteq delivered'
    BY <1>13 DEF DrainStops, Failed
  <2> QED  BY <1>13, <2>1 DEF DrainStops, SentInv
<1>14. CASE DrainCommit
  BY <1>14, <1>reset DEF DrainCommit, fateVars, SentInv
<1>15. CASE Killed
  BY <1>15, <1>reset DEF Killed, SentInv
<1>16. CASE ServerFlips
  BY <1>16 DEF ServerFlips, queueVars, fateVars, SentInv
<1>17. CASE UNCHANGED vars
  BY <1>17 DEF vars, SentInv
<1> QED
  BY <1>1, <1>2, <1>3, <1>4, <1>5, <1>6, <1>7, <1>8, <1>9, <1>10, <1>11, <1>12,
     <1>13, <1>14, <1>15, <1>16, <1>17 DEF Next, SenderStep

\* Where a payload can be.
Whereabouts == InHand \cup Lines(spool) \cup delivered \cup dropped \cup perished

LEMMA AccountStep ==
    ASSUME "short" \notin Faults, TypeInv, SentInv, 1 .. created \subseteq Whereabouts,
           [Next]_vars
    PROVE  (1 .. created \subseteq Whereabouts)'
<1>typed. spool \in Seq(1 .. created) /\ created \in Nat /\ pos \in 0 .. Len(spool)
  BY DEF TypeInv, TypeOK
\* A step that makes no payload and takes none from where it was.
<1>keep. ASSUME created' = created, Whereabouts \subseteq Whereabouts'
         PROVE  1 .. created' \subseteq Whereabouts'
  BY <1>keep
\* A step that leaves the file and what is in hand alone.
<1>grow. ASSUME created' = created, InHand' = InHand, spool' = spool,
                delivered \subseteq delivered', dropped \subseteq dropped',
                perished \subseteq perished'
         PROVE  1 .. created' \subseteq Whereabouts'
  BY <1>keep, <1>grow DEF Whereabouts
<1>1. CASE CreatePayload
  <2>1. InHand = {} /\ InHand' = {created + 1} /\ created' = created + 1
    BY <1>1 DEF CreatePayload, InHand, Holding, Unsettled
  <2>2. Whereabouts' = Whereabouts \cup {created + 1}
    BY <1>1, <2>1 DEF CreatePayload, fateVars, Whereabouts
  <2> QED  BY <1>typed, <2>1, <2>2
<1>2. CASE SendAccepted
  BY <1>2, <1>grow DEF SendAccepted, Accepted, InHand, Holding, Unsettled
<1>3. CASE SendFailed
  BY <1>3, <1>grow DEF SendFailed, Failed, InHand, Holding, Unsettled
<1>4. CASE Release
  <2>1. CASE phase = "sent"
    BY <1>4, <2>1, <1>keep
    DEF Release, fateVars, SentInv, InHand, Holding, Unsettled, Whereabouts
  <2>2. CASE phase = "stored"
    BY <1>4, <2>2, <1>grow DEF Release, fateVars, InHand, Holding, Unsettled
  <2> QED  BY <1>4, <2>1, <2>2 DEF Release
<1>5. CASE CheckSpace
  BY <1>5, <1>grow DEF CheckSpace, fateVars, InHand, Holding, Unsettled
<1>6. ASSUME NEW next \in {"recheck", "append"}, TrimOfflineQueue(next),
             phase \in {"trimlow", "trim"}
      PROVE  1 .. created' \subseteq Whereabouts'
  <2>1. InHand' = InHand
    BY <1>6 DEF TrimOfflineQueue, InHand, Holding, Unsettled
  <2>2. CASE UNCHANGED <<spool, dropped>>
    BY <1>6, <2>1, <2>2, <1>grow DEF TrimOfflineQueue
  <2>3. CASE Len(spool) > MAX_OFFLINE_LINES /\ ~UNCHANGED <<spool, dropped>>
    <3> DEFINE to_skip == Len(spool) - MAX_OFFLINE_LINES
    <3>1. to_skip \in 1 .. Len(spool) /\ to_skip + 1 \in 1 .. Len(spool)
      BY <1>typed, <2>3, LinesAssumption
    <3>2. /\ spool' = SubSeq(spool, to_skip + 1, Len(spool))
          /\ dropped' = dropped \cup {spool[i] : i \in 1 .. to_skip}
      BY <1>6, <2>3 DEF TrimOfflineQueue, Written
    <3>3. /\ Len(spool') = Len(spool) - to_skip /\ DOMAIN spool' = 1 .. Len(spool')
          /\ \A i \in 1 .. Len(spool) - to_skip : spool'[i] = spool[to_skip + i]
      <4> DEFINE a == to_skip + 1
                 b == Len(spool)
      <4>1. a \in 1 .. Len(spool) + 1 /\ b \in 0 .. Len(spool) /\ a <= b + 1
        BY <1>typed, <3>1
      <4>2. /\ Len(SubSeq(spool, a, b)) = b - a + 1
            /\ SubSeq(spool, a, b) \in Seq(1 .. created)
            /\ \A i \in 1 .. b - a + 1 : SubSeq(spool, a, b)[i] = spool[a + i - 1]
        <5> HIDE DEF a, b
        <5> QED  BY <1>typed, <4>1, SliceFacts
      <4>3. b - a + 1 = Len(spool) - to_skip /\ \A i \in Nat : a + i - 1 = to_skip + i
        <5> HIDE DEF to_skip
        <5> QED  BY <1>typed, <3>1
      <4>4. spool' = SubSeq(spool, a, b)
        BY <3>2
      <4> HIDE DEF a, b, to_skip
      <4>5. Len(spool') = Len(spool) - to_skip /\ DOMAIN spool' = 1 .. Len(spool')
        BY <4>2, <4>3, <4>4
      <4>6. ASSUME NEW i \in 1 .. Len(spool) - to_skip
            PROVE  spool'[i] = spool[to_skip + i]
        BY <4>2, <4>3, <4>4
      <4> QED  BY <4>5, <4>6
    <3>4. ASSUME NEW i \in 1 .. Len(spool)
          PROVE  spool[i] \in Lines(spool') \cup dropped'
      <4> HIDE DEF to_skip
      <4>1. CASE i <= to_skip
        BY <3>1, <3>2, <4>1
      <4>2. CASE i > to_skip
        <5>1. i - to_skip \in DOMAIN spool' /\ spool'[i - to_skip] = spool[i]
          BY <1>typed, <3>1, <3>3, <4>2
        <5> QED  BY <5>1 DEF Lines
      <4> QED  BY <1>typed, <3>1, <4>1, <4>2
    <3>5. Lines(spool) \subseteq Lines(spool') \cup dropped'
      <4>1. DOMAIN spool = 1 .. Len(spool)
        BY <1>typed
      <4>2. ASSUME NEW p \in Lines(spool)
            PROVE  p \in Lines(spool') \cup dropped'
        <5>1. PICK i \in 1 .. Len(spool) : p = spool[i]
          BY <4>1 DEF Lines
        <5> QED  BY <3>4, <5>1
      <4> QED  BY <4>2
    <3>6. Whereabouts \subseteq Whereabouts'
      BY <1>6, <2>1, <3>2, <3>5 DEF TrimOfflineQueue, Whereabouts
    <3> QED  BY <1>6, <1>keep, <3>6 DEF TrimOfflineQueue
  <2> QED  BY <1>6, <2>2, <2>3 DEF TrimOfflineQueue
<1>7. CASE TrimLowSpace
  BY <1>6, <1>7 DEF TrimLowSpace
<1>drop. ASSUME DropCurrent, InHand = {cur}, created' = created, spool' = spool,
                UNCHANGED <<delivered, perished>>
         PROVE  1 .. created' \subseteq Whereabouts'
  BY <1>drop, <1>keep DEF DropCurrent, Whereabouts
<1>8. CASE RecheckSpace
  <2>1. CASE DropCurrent
    BY <1>8, <2>1, <1>drop DEF RecheckSpace, InHand, Holding, Unsettled
  <2> QED  BY <1>8, <2>1, <1>grow DEF RecheckSpace, InHand, Holding, Unsettled
<1>9. CASE EnsureParentDir
  <2>1. CASE DropCurrent
    BY <1>9, <2>1, <1>drop DEF EnsureParentDir, InHand, Holding, Unsettled
  <2> QED  BY <1>9, <2>1, <1>grow DEF EnsureParentDir, InHand, Holding, Unsettled
<1>10. CASE TrimToLimit
  BY <1>6, <1>10 DEF TrimToLimit
<1>11. CASE AppendLine
  <2>1. InHand = {cur} /\ InHand' \subseteq {cur}
    BY <1>11 DEF AppendLine, InHand, Holding, Unsettled
  <2>2. CASE DropCurrent /\ spool' = spool
    BY <1>11, <2>1, <2>2, <1>drop DEF AppendLine
  <2>3. CASE ~(DropCurrent /\ spool' = spool)
    <3>1. spool' = spool \o <<cur>> /\ dropped' = dropped
      BY <1>11, <2>3 DEF AppendLine, Written
    <3>2. cur \in Nat
      BY BoundsAssumption DEF TypeInv, TypeOK
    <3>3. Lines(spool) \cup {cur} \subseteq Lines(spool')
      <4>1. /\ DOMAIN spool' = 1 .. Len(spool) + 1
            /\ \A i \in 1 .. Len(spool) : spool'[i] = spool[i]
            /\ spool'[Len(spool) + 1] = cur
        BY <1>typed, <3>1, <3>2
      <4>2. ASSUME NEW i \in 1 .. Len(spool)
            PROVE  spool[i] \in Lines(spool')
        BY <1>typed, <4>1 DEF Lines
      <4>3. cur \in Lines(spool')
        BY <1>typed, <4>1 DEF Lines
      <4> QED  BY <1>typed, <4>2, <4>3 DEF Lines
    <3>4. Whereabouts \subseteq Whereabouts'
      BY <1>11, <2>1, <3>1, <3>3 DEF AppendLine, Whereabouts
    <3> QED  BY <1>11, <1>keep, <3>4 DEF AppendLine
  <2> QED  BY <2>2, <2>3
<1>12. CASE OpenDrain
  BY <1>12, <1>grow DEF OpenDrain, fateVars, InHand, Holding, Unsettled
<1>13. CASE DrainSent
  BY <1>13, <1>grow DEF DrainSent, Accepted, InHand, Holding, Unsettled
<1>14. CASE DrainStops
  BY <1>14, <1>grow DEF DrainStops, Failed, InHand, Holding, Unsettled
<1>15. CASE DrainCommit
  <2>1. InHand = {} /\ InHand' = {}
    BY <1>15 DEF DrainCommit, InHand, Holding, Unsettled
  <2>2. spool' = SubSeq(spool, pos + 1, Len(spool))
    BY <1>15 DEF DrainCommit, Written
  <2>3. /\ Len(spool') = Len(spool) - pos /\ DOMAIN spool' = 1 .. Len(spool')
        /\ \A i \in 1 .. Len(spool) - pos : spool'[i] = spool[pos + i]
    BY <1>typed, <2>2, SliceFacts
  <2>4. ASSUME NEW i \in 1 .. Len(spool)
        PROVE  spool[i] \in Lines(spool') \cup delivered
    <3>1. CASE i <= pos
      BY <1>typed, <3>1 DEF SentInv
    <3>2. CASE i > pos
      <4>1. i - pos \in DOMAIN spool' /\ spool'[i - pos] = spool[i]
        BY <1>typed, <2>3, <3>2
      <4> QED  BY <4>1 DEF Lines
    <3> QED  BY <1>typed, <3>1, <3>2
  <2>5. Lines(spool) \subseteq Lines(spool') \cup delivered
    BY <1>typed, <2>4 DEF Lines
  <2> QED  BY <1>15, <1>keep, <2>1, <2>5 DEF DrainCommit, fateVars, Whereabouts
<1>16. CASE Killed
  <2>1. CASE phase \in Unsettled
    BY <1>16, <2>1, <1>keep DEF Killed, InHand, Holding, Unsettled, Whereabouts
  <2>2. CASE phase = "sent"
    BY <1>16, <2>2, <1>keep DEF Killed, SentInv, InHand, Holding, Unsettled, Whereabouts
  <2>3. CASE phase \notin Holding
    BY <1>16, <2>3, <1>grow DEF Killed, InHand, Holding, Unsettled
  <2> QED  BY <2>1, <2>2, <2>3 DEF Holding
<1>17. CASE ServerFlips
  BY <1>17, <1>grow DEF ServerFlips, queueVars, fateVars, InHand
<1>18. CASE UNCHANGED vars
  BY <1>18, <1>grow DEF vars, InHand
<1> QED
  BY <1>1, <1>2, <1>3, <1>4, <1>5, <1>7, <1>8, <1>9, <1>10, <1>11, <1>12,
     <1>13, <1>14, <1>15, <1>16, <1>17, <1>18 DEF Next, SenderStep

\* As long as no write is cut short, every payload ever created is in hand, in
\* the queue file, at the server, dropped with a log line, or was in memory
\* when the process was killed.
THEOREM AccountCorrect == Spec => []Accounted
<1> DEFINE Account == SentInv /\ Accounted
<1>1. Init => Account
  BY DEF Init, SentInv, Accounted
<1>2. TypeInv /\ Account /\ [Next]_vars => Account'
  BY SentStep, AccountStep DEF Accounted, Whereabouts
<1> QED  BY <1>1, <1>2, TypeCorrect, PTL DEF Spec

-----------------------------------------------------------------------------
(* The length of the queue file.                                           *)

\* The trim that store_locally ends with is what makes room for the line.
BoundInv ==
    "open" \notin Faults =>
        /\ Len(spool) <= MAX_OFFLINE_LINES + 1
        /\ phase = "append" => Len(spool) <= MAX_OFFLINE_LINES

LEMMA BoundStep == TypeInv /\ BoundInv /\ [Next]_vars => BoundInv'
<1> SUFFICES ASSUME "open" \notin Faults, TypeInv, BoundInv, [Next]_vars
             PROVE  BoundInv'
  BY DEF BoundInv
<1>typed. /\ spool \in Seq(1 .. created) /\ pos \in 0 .. Len(spool)
          /\ MAX_OFFLINE_LINES \in Nat \ {0}
  BY LinesAssumption DEF TypeInv, TypeOK
<1>keep. ASSUME spool' = spool, phase' # "append"
         PROVE  BoundInv'
  BY <1>keep DEF BoundInv
<1>6. ASSUME NEW next \in {"recheck", "append"}, TrimOfflineQueue(next)
      PROVE  BoundInv'
  <2>1. CASE Len(spool) <= MAX_OFFLINE_LINES /\ spool' = spool
    BY <2>1, <1>typed DEF BoundInv
  <2>2. CASE /\ Len(spool) > MAX_OFFLINE_LINES
             /\ spool' \in Written(SubSeq(spool, Len(spool) - MAX_OFFLINE_LINES + 1, Len(spool)))
    <3>1. Len(spool) - MAX_OFFLINE_LINES + 1 \in 1 .. Len(spool) + 1
      BY <1>typed, <2>2
    <3>2. spool' \in Seq(1 .. created) /\ Len(spool') <= MAX_OFFLINE_LINES
      BY <1>typed, <2>2, <3>1, WrittenSuffix
    <3> QED  BY <1>typed, <3>2 DEF BoundInv
  <2> QED  BY <1>6, <2>1, <2>2 DEF TrimOfflineQueue
<1>11. CASE AppendLine
  <2>1. ASSUME NEW w \in Written(<<cur>>), spool' = spool \o w
        PROVE  Len(spool') <= MAX_OFFLINE_LINES + 1
    <3>1. w \in Seq({cur}) /\ Len(w) <= 1
      <4>1. <<cur>> \in Seq({cur}) /\ Len(<<cur>>) = 1
        OBVIOUS
      <4>2. \A k \in 0 .. 1 : /\ SubSeq(<<cur>>, 1, k) \in Seq({cur})
                              /\ Len(SubSeq(<<cur>>, 1, k)) = k
        BY <4>1, SliceFacts
      <4> QED  BY <2>1, <4>1, <4>2 DEF Written
    <3>2. Len(spool) <= MAX_OFFLINE_LINES
      BY <1>11 DEF AppendLine, BoundInv
    <3>3. Len(spool') = Len(spool) + Len(w) /\ Len(w) \in Nat
      BY <1>typed, <2>1, <3>1
    <3> QED  BY <1>typed, <3>1, <3>2, <3>3
  <2>2. spool' = spool => Len(spool') <= MAX_OFFLINE_LINES + 1
    BY DEF BoundInv
  <2> QED  BY <1>11, <2>1, <2>2 DEF AppendLine, DropCurrent, BoundInv
<1>15. CASE DrainCommit
  <2>1. spool' \in Seq(1 .. created) /\ Len(spool') <= Len(spool)
    BY <1>15, <1>typed, WrittenSuffix DEF DrainCommit
  <2> QED  BY <1>15, <1>typed, <2>1 DEF DrainCommit, BoundInv
<1>1. CASE CreatePayload
  BY <1>1, <1>keep DEF CreatePayload
<1>2. CASE SendAccepted \/ SendFailed \/ Release \/ CheckSpace
  BY <1>2, <1>keep DEF SendAccepted, SendFailed, Release, CheckSpace
<1>3. CASE RecheckSpace \/ EnsureParentDir
  BY <1>3, <1>keep DEF RecheckSpace, EnsureParentDir, DropCurrent
<1>4. CASE TrimLowSpace \/ TrimToLimit
  BY <1>4, <1>6 DEF TrimLowSpace, TrimToLimit
<1>5. CASE OpenDrain \/ DrainSent \/ DrainStops
  BY <1>5, <1>keep DEF OpenDrain, DrainSent, DrainStops
<1>7. CASE Killed
  BY <1>7, <1>keep DEF Killed
<1>8. CASE ServerFlips \/ UNCHANGED vars
  BY <1>8 DEF ServerFlips, queueVars, vars, BoundInv
<1> QED
  BY <1>1, <1>2, <1>3, <1>4, <1>5, <1>7, <1>8, <1>11, <1>15 DEF Next, SenderStep

\* As long as the file can be opened, it never holds more than one line above
\* MAX_OFFLINE_LINES, whatever is written of it.
THEOREM BoundCorrect == Spec => []SpoolBounded
<1>1. Init => BoundInv
  BY LinesAssumption DEF Init, BoundInv
<1>2. BoundInv => SpoolBounded
  BY DEF BoundInv, SpoolBounded
<1> QED  BY <1>1, <1>2, BoundStep, TypeCorrect, PTL DEF Spec

\* The types and the bound together: what the retry loop counts and what the queue
\* file holds stay within RETRY_COUNT and MAX_OFFLINE_LINES + 1.
THEOREM SpoolCorrect == Spec => []SpoolSound
<1>1. TypeOK /\ SpoolBounded => SpoolSound
  BY DEF SpoolSound
<1> QED  BY <1>1, TypeOKCorrect, BoundCorrect, PTL

-----------------------------------------------------------------------------
(* What is sent again.                                                     *)

ResentInv ==
    crashes = 0 =>
        /\ phase \in Unsettled => cur \notin acked
        /\ \A i \in DOMAIN spool : spool[i] \in acked => phase \in {"drain", "commit"} /\ i <= pos

LEMMA ResentStep == TypeInv /\ TypeInv' /\ SpoolOrdered /\ ResentInv /\ [Next]_vars => ResentInv'
<1> SUFFICES ASSUME crashes' = 0, TypeInv, TypeInv', SpoolOrdered, ResentInv, [Next]_vars
             PROVE  ResentInv'
  BY DEF ResentInv
<1>typed. /\ spool \in Seq(1 .. created) /\ pos \in 0 .. Len(spool) /\ created \in Nat
          /\ acked \subseteq 1 .. created /\ crashes \in Nat
          /\ phase \notin {"drain", "commit"} => pos = 0
  BY BoundsAssumption DEF TypeInv, TypeOK, Control
\* A step that acknowledges nothing, appends nothing and stays out of the drain.
<1>keep. ASSUME crashes = 0, acked' = acked, spool' = spool, cur' = cur,
                phase' \in Unsettled => phase \in Unsettled,
                phase \notin {"drain", "commit"}
         PROVE  ResentInv'
  BY <1>keep DEF ResentInv
<1>1. CASE CreatePayload
  <2>1. cur' \notin acked'
    BY <1>1, <1>typed DEF CreatePayload, fateVars
  <2>2. \A i \in DOMAIN spool : spool[i] \notin acked
    BY <1>1 DEF CreatePayload, ResentInv
  <2> QED  BY <1>1, <2>1, <2>2 DEF CreatePayload, fateVars, ResentInv
<1>2. CASE SendAccepted
  <2>1. \A i \in DOMAIN spool : spool[i] \notin acked
    BY <1>2 DEF SendAccepted, ResentInv
  <2>2. \A i \in DOMAIN spool : spool[i] # cur
    <3>1. cur \in InHand
      BY <1>2 DEF SendAccepted, InHand, Holding, Unsettled
    <3>2. \A i \in DOMAIN spool : spool[i] < cur /\ spool[i] \in Int /\ cur \in Int
      BY <1>typed, <3>1 DEF SpoolOrdered, TypeInv, TypeOK
    <3> QED  BY <3>2
  <2>3. \A i \in DOMAIN spool' : spool'[i] \notin acked'
    BY <1>2, <2>1, <2>2 DEF SendAccepted, Accepted
  <2> QED  BY <1>2, <2>3 DEF SendAccepted, Unsettled, ResentInv
<1>3. CASE SendFailed
  BY <1>3, <1>keep DEF SendFailed, Failed, Unsettled
<1>4. CASE Release
  BY <1>4 DEF Release, fateVars, Unsettled, ResentInv
<1>5. CASE CheckSpace
  BY <1>5, <1>keep DEF CheckSpace, fateVars, Unsettled
\* What a rewrite of the file keeps of the lines from a on, with none of them
\* acknowledged, is not acknowledged.
<1>suffix. ASSUME NEW a \in 1 .. Len(spool) + 1,
                  spool' \in Written(SubSeq(spool, a, Len(spool))),
                  \A i \in a .. Len(spool) : spool[i] \notin acked,
                  acked' = acked
           PROVE  \A i \in DOMAIN spool' : spool'[i] \notin acked'
  <2>1. /\ spool' \in Seq(1 .. created)
        /\ \A i \in 1 .. Len(spool') : /\ a + i - 1 \in 1 .. Len(spool)
                                       /\ spool'[i] = spool[a + i - 1]
    BY <1>typed, <1>suffix, WrittenSuffix
  <2>2. ASSUME NEW i \in 1 .. Len(spool')
        PROVE  spool'[i] \notin acked
    <3>1. a + i - 1 \in a .. Len(spool)
      BY <1>typed, <2>1
    <3> QED  BY <1>suffix, <2>1, <3>1
  <2> QED  BY <1>suffix, <2>1, <2>2
<1>6. ASSUME NEW next \in {"recheck", "append"}, TrimOfflineQueue(next),
             phase \in {"trimlow", "trim"}
      PROVE  ResentInv'
  <2>1. crashes = 0 /\ acked' = acked /\ cur' = cur /\ cur \notin acked
    BY <1>6 DEF TrimOfflineQueue, ResentInv, Unsettled
  <2>2. \A i \in 1 .. Len(spool) : spool[i] \notin acked
    BY <1>6, <1>typed, <2>1 DEF ResentInv
  <2>3. \A i \in DOMAIN spool' : spool'[i] \notin acked'
    <3>1. CASE spool' = spool
      BY <1>typed, <2>1, <2>2, <3>1
    <3>2. CASE /\ Len(spool) > MAX_OFFLINE_LINES
               /\ spool' \in Written(SubSeq(spool, Len(spool) - MAX_OFFLINE_LINES + 1, Len(spool)))
      <4>1. Len(spool) - MAX_OFFLINE_LINES + 1 \in 1 .. Len(spool) + 1
        BY <1>typed, <3>2, LinesAssumption
      <4>2. \A i \in Len(spool) - MAX_OFFLINE_LINES + 1 .. Len(spool) : spool[i] \notin acked
        BY <1>typed, <2>2, <4>1
      <4> QED  BY <1>suffix, <2>1, <3>2, <4>1, <4>2
    <3> QED  BY <1>6, <3>1, <3>2 DEF TrimOfflineQueue
  <2> QED  BY <2>1, <2>3 DEF ResentInv
<1>7. CASE TrimLowSpace
  BY <1>6, <1>7 DEF TrimLowSpace
<1>8. CASE RecheckSpace
  BY <1>8, <1>keep DEF RecheckSpace, DropCurrent, Unsettled
<1>9. CASE EnsureParentDir
  BY <1>9, <1>keep DEF EnsureParentDir, DropCurrent, Unsettled
<1>10. CASE TrimToLimit
  BY <1>6, <1>10 DEF TrimToLimit
<1>11. CASE AppendLine
  <2>1. /\ crashes = 0 /\ acked' = acked /\ cur \notin acked
        /\ \A i \in DOMAIN spool : spool[i] \notin acked
    BY <1>11 DEF AppendLine, ResentInv, Unsettled
  <2>2. phase' = "stored"
    BY <1>11 DEF AppendLine, DropCurrent
  <2>3. CASE spool' = spool
    BY <2>1, <2>2, <2>3 DEF ResentInv, Unsettled
  <2>4. ASSUME NEW w \in Written(<<cur>>), spool' = spool \o w
        PROVE  ResentInv'
    <3>1. w \in Seq({cur})
      <4>1. <<cur>> \in Seq({cur}) /\ Len(<<cur>>) = 1
        OBVIOUS
      <4>2. \A k \in 0 .. 1 : SubSeq(<<cur>>, 1, k) \in Seq({cur})
        BY <4>1, SliceFacts
      <4> QED  BY <2>4, <4>1, <4>2 DEF Written
    <3>2. DOMAIN spool' = 1 .. Len(spool) + Len(w) /\ Len(w) \in Nat
      BY <1>typed, <2>4, <3>1
    <3>3. ASSUME NEW i \in 1 .. Len(spool) + Len(w)
          PROVE  spool'[i] \notin acked
      <4>1. CASE i <= Len(spool)
        BY <1>typed, <2>1, <2>4, <3>1, <3>2, <4>1
      <4>2. CASE i > Len(spool)
        <5>1. i - Len(spool) \in 1 .. Len(w) /\ spool'[i] = w[i - Len(spool)]
          BY <1>typed, <2>4, <3>1, <3>2, <4>2
        <5> QED  BY <2>1, <3>1, <5>1
      <4> QED  BY <1>typed, <3>2, <4>1, <4>2
    <3> QED  BY <2>1, <2>2, <3>2, <3>3 DEF ResentInv, Unsettled
  <2> QED  BY <1>11, <2>3, <2>4 DEF AppendLine
<1>12. CASE OpenDrain
  BY <1>12 DEF OpenDrain, fateVars, Unsettled, ResentInv
<1>13. CASE DrainSent
  <2>1. pos + 1 \in DOMAIN spool /\ pos' = pos + 1 /\ spool' = spool
    BY <1>13, <1>typed DEF DrainSent
  <2>2. \A i \in DOMAIN spool : spool[i] = spool[pos + 1] => i = pos + 1
    <3>1. \A i \in DOMAIN spool : i < pos + 1 => spool[i] < spool[pos + 1]
      BY <2>1 DEF SpoolOrdered
    <3>2. \A i \in DOMAIN spool : pos + 1 < i => spool[pos + 1] < spool[i]
      BY <2>1 DEF SpoolOrdered
    <3>3. \A i \in DOMAIN spool : i \in Int /\ spool[i] \in Int
      BY <1>typed
    <3> QED  BY <1>typed, <2>1, <3>1, <3>2, <3>3
  <2>3. \A i \in DOMAIN spool : spool[i] \in acked => i <= pos
    BY <1>13 DEF DrainSent, ResentInv
  <2>4. \A i \in DOMAIN spool : spool[i] \in acked' => i <= pos + 1
    BY <1>13, <1>typed, <2>2, <2>3 DEF DrainSent, Accepted
  <2> QED  BY <1>13, <2>1, <2>4 DEF DrainSent, ResentInv, Unsettled
<1>14. CASE DrainStops
  <2>1. acked' = acked
    BY <1>14 DEF DrainStops, Failed
  <2> QED  BY <1>14, <2>1 DEF DrainStops, ResentInv, Unsettled
<1>15. CASE DrainCommit
  <2>1. \A i \in pos + 1 .. Len(spool) : spool[i] \notin acked
    BY <1>15, <1>typed DEF DrainCommit, ResentInv
  <2>2. pos + 1 \in 1 .. Len(spool) + 1
    BY <1>typed
  <2>3. \A i \in DOMAIN spool' : spool'[i] \notin acked'
    BY <1>15, <1>suffix, <2>1, <2>2 DEF DrainCommit, fateVars
  <2> QED  BY <1>15, <2>3 DEF DrainCommit, ResentInv, Unsettled
<1>16. CASE Killed
  BY <1>16, <1>typed DEF Killed
<1>17. CASE ServerFlips \/ UNCHANGED vars
  BY <1>17 DEF ServerFlips, queueVars, fateVars, vars, ResentInv
<1> QED
  BY <1>1, <1>2, <1>3, <1>4, <1>5, <1>7, <1>8, <1>9, <1>10, <1>11, <1>12,
     <1>13, <1>14, <1>15, <1>16, <1>17 DEF Next, SenderStep

\* Unless the process was killed, no payload the server has acknowledged is
\* sent again, by the retry loop or from the queue file.
THEOREM ResentCorrect == Spec => []ResentOnlyAfterKill
<1>1. Init => ResentInv
  BY DEF Init, ResentInv, Unsettled
<1>2. ResentInv => ResentOnlyAfterKill
  BY DEF ResentInv, ResentOnlyAfterKill, Unsettled
<1> QED  BY <1>1, <1>2, ResentStep, TypeCorrect, OrderCorrect, PTL DEF Spec

-----------------------------------------------------------------------------
(* The refinement of StoreAndForward.                                      *)

LEMMA PromiseStep ==
    ASSUME "short" \notin Faults, TypeInv, SentInv, [Next]_vars
    PROVE  [Promise!Next]_(Promise!abstractVars)
<1> DEFINE gone == dropped \cup perished
<1>typed. /\ spool \in Seq(1 .. created) /\ pos \in 0 .. Len(spool)
          /\ MAX_OFFLINE_LINES \in Nat \ {0} /\ cur \in Nat
  BY BoundsAssumption, LinesAssumption DEF TypeInv, TypeOK
\* A step the abstract module does not see.
<1>stutter. ASSUME created' = created, InHand' = InHand, spool' = spool,
                   delivered' = delivered, dropped' = dropped, perished' = perished
            PROVE  UNCHANGED Promise!abstractVars
  BY <1>stutter DEF Promise!abstractVars
\* A payload in hand or in the file reaches the server.
<1>arrive. ASSUME NEW p \in InHand \cup Lines(spool), delivered' = delivered \cup {p},
                  created' = created, InHand' = InHand, spool' = spool,
                  dropped' = dropped, perished' = perished
           PROVE  Promise!Arrive
  BY <1>arrive DEF Promise!Arrive, Promise!InQueue, Lines
\* The payload in hand is let go; what is lost with it is gone.
<1>letgo. ASSUME NEW lost \in SUBSET {cur}, InHand = {cur}, InHand' = {},
                 gone' = gone \cup lost, cur \in delivered \cup lost,
                 created' = created, spool' = spool, delivered' = delivered
          PROVE  Promise!LetGo
  BY <1>letgo DEF Promise!LetGo
<1>1. CASE CreatePayload
  <2>1. InHand = {} /\ InHand' = {created'}
    BY <1>1 DEF CreatePayload, InHand, Holding, Unsettled
  <2> QED  BY <1>1, <2>1 DEF CreatePayload, fateVars, Promise!Next, Promise!Make
<1>2. CASE SendAccepted
  <2>1. cur \in InHand /\ InHand' = InHand
    BY <1>2 DEF SendAccepted, InHand, Holding, Unsettled
  <2> QED  BY <1>2, <1>arrive, <2>1 DEF SendAccepted, Accepted, Promise!Next
<1>3. CASE SendFailed
  <2>1. cur \in InHand /\ InHand' = InHand
    BY <1>3 DEF SendFailed, InHand, Holding, Unsettled
  <2>2. CASE delivered' = delivered
    BY <1>3, <1>stutter, <2>1, <2>2 DEF SendFailed
  <2>3. CASE delivered' = delivered \cup {cur}
    BY <1>3, <1>arrive, <2>1, <2>3 DEF SendFailed, Promise!Next
  <2> QED  BY <1>3, <2>2, <2>3 DEF SendFailed, Failed
<1>4. CASE Release
  <2>1. CASE phase = "sent"
    <3>1. InHand = {cur} /\ InHand' = {} /\ cur \in delivered
      BY <1>4, <2>1 DEF Release, SentInv, InHand, Holding, Unsettled
    <3>2. Promise!LetGo
      BY <1>4, <3>1, <1>letgo DEF Release, fateVars
    <3> QED  BY <3>2 DEF Promise!Next
  <2>2. CASE phase = "stored"
    BY <1>4, <2>2, <1>stutter DEF Release, fateVars, InHand, Holding, Unsettled
  <2> QED  BY <1>4, <2>1, <2>2 DEF Release
<1>5. CASE CheckSpace
  BY <1>5, <1>stutter DEF CheckSpace, fateVars, InHand, Holding, Unsettled
<1>6. ASSUME NEW next \in {"recheck", "append"}, TrimOfflineQueue(next),
             phase \in {"trimlow", "trim"}
      PROVE  [Promise!Next]_(Promise!abstractVars)
  <2>1. InHand' = InHand
    BY <1>6 DEF TrimOfflineQueue, InHand, Holding, Unsettled
  <2>2. CASE UNCHANGED <<spool, dropped>>
    BY <1>6, <1>stutter, <2>1, <2>2 DEF TrimOfflineQueue
  <2>3. CASE Len(spool) > MAX_OFFLINE_LINES /\ ~UNCHANGED <<spool, dropped>>
    <3>1. /\ spool' = SubSeq(spool, Len(spool) - MAX_OFFLINE_LINES + 1, Len(spool))
          /\ dropped' = dropped \cup {spool[i] : i \in 1 .. Len(spool) - MAX_OFFLINE_LINES}
      BY <1>6, <2>3 DEF TrimOfflineQueue, Written
    <3>2. gone' = gone \cup {spool[i] : i \in 1 .. Len(spool) - MAX_OFFLINE_LINES}
      BY <1>6, <3>1 DEF TrimOfflineQueue
    <3>3. Promise!Expire
      BY <1>6, <2>1, <2>3, <3>1, <3>2 DEF TrimOfflineQueue, Promise!Expire
    <3> QED  BY <3>3 DEF Promise!Next
  <2> QED  BY <1>6, <2>2, <2>3 DEF TrimOfflineQueue
<1>7. CASE TrimLowSpace
  BY <1>6, <1>7 DEF TrimLowSpace
<1>drop. ASSUME DropCurrent, InHand = {cur}, created' = created, spool' = spool,
                UNCHANGED <<delivered, perished>>
         PROVE  Promise!Next
  <2>1. InHand' = {}
    BY <1>drop DEF DropCurrent, InHand, Holding, Unsettled
  <2>2. gone' = gone \cup {cur}
    BY <1>drop DEF DropCurrent
  <2>3. Promise!LetGo
    BY <1>drop, <1>letgo, <2>1, <2>2
  <2> QED  BY <2>3 DEF Promise!Next
<1>8. CASE RecheckSpace
  <2>1. CASE DropCurrent
    BY <1>8, <2>1, <1>drop DEF RecheckSpace, InHand, Holding, Unsettled
  <2> QED  BY <1>8, <2>1, <1>stutter DEF RecheckSpace, InHand, Holding, Unsettled
<1>9. CASE EnsureParentDir
  <2>1. CASE DropCurrent
    BY <1>9, <2>1, <1>drop DEF EnsureParentDir, InHand, Holding, Unsettled
  <2> QED  BY <1>9, <2>1, <1>stutter DEF EnsureParentDir, InHand, Holding, Unsettled
<1>10. CASE TrimToLimit
  BY <1>6, <1>10 DEF TrimToLimit
<1>11. CASE AppendLine
  <2>1. InHand = {cur} /\ InHand' = {}
    BY <1>11 DEF AppendLine, DropCurrent, InHand, Holding, Unsettled
  <2>2. CASE DropCurrent /\ spool' = spool
    BY <1>11, <2>1, <2>2, <1>drop DEF AppendLine
  <2>3. CASE ~(DropCurrent /\ spool' = spool)
    <3>1. spool' = Append(spool, cur) /\ dropped' = dropped
      <4>1. spool' = spool \o <<cur>> /\ dropped' = dropped
        BY <1>11, <2>3 DEF AppendLine, Written
      <4>2. spool \in Seq(Nat)
        BY <1>typed, created \in Nat, 1 .. created \subseteq Nat DEF TypeInv, TypeOK
      <4> QED  BY <1>typed, <4>1, <4>2
    <3>2. Promise!Shelve
      BY <1>11, <2>1, <3>1 DEF AppendLine, Promise!Shelve
    <3> QED  BY <3>2 DEF Promise!Next
  <2> QED  BY <2>2, <2>3
<1>12. CASE OpenDrain
  BY <1>12, <1>stutter DEF OpenDrain, fateVars, InHand, Holding, Unsettled
<1>13. CASE DrainSent
  <2>1. spool[pos + 1] \in Lines(spool) /\ InHand' = InHand
    BY <1>13, <1>typed DEF DrainSent, Lines, InHand, Holding, Unsettled
  <2>2. Promise!Arrive
    BY <1>13, <1>arrive, <2>1 DEF DrainSent, Accepted
  <2> QED  BY <2>2 DEF Promise!Next
<1>14. CASE DrainStops
  <2>1. InHand' = InHand
    BY <1>14 DEF DrainStops, InHand, Holding, Unsettled
  <2>2. CASE delivered' = delivered
    BY <1>14, <1>stutter, <2>1, <2>2 DEF DrainStops
  <2>3. CASE pos < Len(spool) /\ delivered' = delivered \cup {spool[pos + 1]}
    <3>1. spool[pos + 1] \in Lines(spool)
      BY <1>typed, <2>3 DEF Lines
    <3>2. Promise!Arrive
      BY <1>14, <1>arrive, <2>1, <2>3, <3>1 DEF DrainStops
    <3> QED  BY <3>2 DEF Promise!Next
  <2> QED  BY <1>14, <2>2, <2>3 DEF DrainStops, Failed
<1>15. CASE DrainCommit
  <2>1. InHand' = InHand
    BY <1>15 DEF DrainCommit, InHand, Holding, Unsettled
  <2>2. spool' = SubSeq(spool, pos + 1, Len(spool))
    BY <1>15 DEF DrainCommit, Written
  <2>3. CASE pos = 0
    <3>1. spool' = spool
      BY <1>typed, <2>2, <2>3
    <3> QED  BY <1>15, <1>stutter, <2>1, <3>1 DEF DrainCommit, fateVars
  <2>4. CASE pos # 0
    <3>1. pos \in DOMAIN spool
      BY <1>typed, <2>4
    <3>2. Promise!Forget
      BY <1>15, <2>1, <2>2, <3>1 DEF DrainCommit, fateVars, SentInv, Promise!Forget
    <3> QED  BY <3>2 DEF Promise!Next
  <2> QED  BY <2>3, <2>4
<1>16. CASE Killed
  <2>1. InHand' = {}
    BY <1>16 DEF Killed, InHand, Holding, Unsettled
  <2>2. CASE phase \in Unsettled
    <3>1. InHand = {cur} /\ gone' = gone \cup {cur}
      BY <1>16, <2>2 DEF Killed, InHand, Holding
    <3>2. Promise!LetGo
      BY <1>16, <1>letgo, <2>1, <3>1 DEF Killed
    <3> QED  BY <3>2 DEF Promise!Next
  <2>3. CASE phase = "sent"
    <3>1. InHand = {cur} /\ cur \in delivered /\ gone' = gone
      BY <1>16, <2>3 DEF Killed, SentInv, InHand, Holding, Unsettled
    <3>2. Promise!LetGo
      BY <1>16, <1>letgo, <2>1, <3>1 DEF Killed
    <3> QED  BY <3>2 DEF Promise!Next
  <2>4. CASE phase \notin Holding
    BY <1>16, <1>stutter, <2>1, <2>4 DEF Killed, InHand, Holding
  <2> QED  BY <2>2, <2>3, <2>4 DEF Holding
<1>17. CASE ServerFlips
  BY <1>17, <1>stutter DEF ServerFlips, queueVars, fateVars, InHand
<1>18. CASE UNCHANGED vars
  BY <1>18, <1>stutter DEF vars, InHand
<1> QED
  BY <1>1, <1>2, <1>3, <1>4, <1>5, <1>7, <1>8, <1>9, <1>10, <1>11, <1>12,
     <1>13, <1>14, <1>15, <1>16, <1>17, <1>18 DEF Next, SenderStep

\* As long as no write is cut short, the retry loop, the store, the trim, the
\* drain and the kills together do what StoreAndForward promises.
THEOREM PromiseKept == ASSUME "short" \notin Faults PROVE Spec => Delivers
<1>1. Init => Promise!Init
  BY DEF Init, Promise!Init, InHand, Holding, Unsettled
<1>2. Init => SentInv
  BY DEF Init, SentInv
<1>3. TypeInv /\ SentInv /\ [Next]_vars => [Promise!Next]_(Promise!abstractVars)
  BY PromiseStep
<1> QED
  BY <1>1, <1>2, <1>3, SentStep, TypeCorrect, PTL DEF Spec, Delivers, Promise!AbstractSpec

=============================================================================
