---------------------------- MODULE CpuInfo_proofs ----------------------------
(***************************************************************************)
(* cpuinfoapp: what its host state is derived from, and which values it    *)
(* sets and publishes, for any number of CPUs and messages.                *)
(***************************************************************************)
EXTENDS CpuInfo, HostState, TLAPS

(***************************************************************************)
(* The host state.                                                         *)
(***************************************************************************)
\* A message of service s with this value is on its way.
Said(s, v) == \E k \in 1..Len(inbox[s]) : inbox[s][k] = v

\* The power service speaks of an off only while the host is off: the host is powered up
\* when every message has arrived and every call was answered.  So nothing follows an
\* off in the inbox but further ones.
OffIsTrue ==
    /\ Said("power", FALSE) => host = "off" /\ ~value["power"]
    /\ asked # {} /\ ~value["power"] => host = "off"
    /\ \A j, k \in 1..Len(inbox["power"]) :
           j < k /\ ~inbox["power"][j] => ~inbox["power"][k]

\* Nobody takes POST to be done, or will say so unless it ends.
NoPostSeen ==
    /\ ~biosDone /\ ~osState
    /\ host # "done"
    /\ \A s \in {"bios", "os"} : ~Said(s, TRUE) /\ (s \in asked => ~value[s])

\* The application knows that the host is off, so that it forgets whatever late messages
\* say of the POST that was.
OffIsKnown ==
    /\ ~powerState /\ ~biosDone /\ ~osState
    /\ host = "off" /\ ~value["power"]
    /\ ~Said("power", TRUE)

HostStateInv ==
    /\ HostStateTypeOK
    /\ OffIsTrue
    /\ ~posted => NoPostSeen \/ OffIsKnown

\* The invariant holds when the application starts and asks the services.
LEMMA HostStateInvInit == HostStateInit => HostStateInv
<1>. SUFFICES ASSUME HostStateInit PROVE HostStateInv
  OBVIOUS
<1>1. HostStateTypeOK
  <2>1. host \in HostPhase
    BY HostStateAssumption DEF HostStateInit
  <2>2. value \in [Services -> BOOLEAN]
    BY DEF HostStateInit, Reflects
  <2>3. inbox \in [Services -> Seq(BOOLEAN)]
    BY DEF HostStateInit
  <2>. QED
    BY <2>1, <2>2, <2>3, Zenon DEF HostStateInit, HostStateTypeOK
<1>2. \A s \in Services, v \in BOOLEAN : ~Said(s, v) /\ Len(inbox[s]) = 0
  BY DEF HostStateInit, Said, Services
<1>3. /\ value["power"] <=> host # "off"
      /\ value["bios"] <=> host = "done"
      /\ value["os"] <=> host = "done"
  BY DEF HostStateInit, Services, Reflects
<1>4. OffIsTrue
  <2>1. "power" \in Services
    BY DEF Services
  <2>2. ~Said("power", FALSE)
    BY <1>2, <2>1
  <2>3. Len(inbox["power"]) = 0
    BY <1>2, <2>1
  <2>4. \A j, k \in 1..Len(inbox["power"]) :
            j < k /\ ~inbox["power"][j] => ~inbox["power"][k]
    <3>1. 1..Len(inbox["power"]) = {}
      BY <2>3
    <3>. QED
      BY <3>1, Zenon
  <2>5. asked # {} /\ ~value["power"] => host = "off"
    BY <1>3, Zenon
  <2>. QED
    BY <2>2, <2>4, <2>5, Zenon DEF OffIsTrue
<1>5. ~posted => NoPostSeen
  BY <1>2, <1>3 DEF HostStateInit, NoPostSeen, Services
<1>. QED
  BY <1>1, <1>4, <1>5 DEF HostStateInv

\* What is on its way after a message was sent, or handled.
LEMMA AfterEmit ==
    ASSUME HostStateTypeOK, NEW s \in Services, NEW v \in BOOLEAN, Emit(s, v)
    PROVE  /\ inbox' \in [Services -> Seq(BOOLEAN)]
           /\ \A r \in Services \ {s} : inbox'[r] = inbox[r]
           /\ Len(inbox'[s]) = Len(inbox[s]) + 1 /\ Len(inbox[s]) \in Nat
           /\ \A k \in 1..Len(inbox[s]) : inbox'[s][k] = inbox[s][k]
           /\ inbox'[s][Len(inbox[s]) + 1] = v
           /\ \A w \in BOOLEAN : Said(s, w)' <=> Said(s, w) \/ w = v
<1>1. /\ inbox' \in [Services -> Seq(BOOLEAN)]
      /\ \A r \in Services \ {s} : inbox'[r] = inbox[r]
      /\ inbox'[s] = Append(inbox[s], v) /\ inbox[s] \in Seq(BOOLEAN)
  BY DEF Emit, HostStateTypeOK
<1>2. /\ Len(inbox'[s]) = Len(inbox[s]) + 1 /\ Len(inbox[s]) \in Nat
      /\ \A k \in 1..Len(inbox[s]) : inbox'[s][k] = inbox[s][k]
      /\ inbox'[s][Len(inbox[s]) + 1] = v
  BY <1>1
<1>3. 1..(Len(inbox[s]) + 1) = 1..Len(inbox[s]) \cup {Len(inbox[s]) + 1}
  BY <1>2
<1>4. \A w \in BOOLEAN : Said(s, w)' <=> Said(s, w) \/ w = v
  BY <1>2, <1>3 DEF Said
<1>. QED
  BY <1>1, <1>2, <1>4

\* What is left when the first message was taken out of the inbox.
LEMMA AfterDeliver ==
    ASSUME HostStateTypeOK, NEW s \in Services, inbox[s] # << >>,
           inbox' = [inbox EXCEPT ![s] = Tail(@)]
    PROVE  /\ inbox' \in [Services -> Seq(BOOLEAN)]
           /\ \A r \in Services \ {s} : inbox'[r] = inbox[r]
           /\ Head(inbox[s]) \in BOOLEAN /\ Head(inbox[s]) = inbox[s][1]
           /\ Len(inbox[s]) \in Nat \ {0} /\ Len(inbox'[s]) = Len(inbox[s]) - 1
           /\ \A k \in 1..Len(inbox'[s]) : inbox'[s][k] = inbox[s][k + 1]
           /\ \A w \in BOOLEAN : Said(s, w)' => Said(s, w)
           /\ Said(s, Head(inbox[s]))
<1>1. /\ inbox' \in [Services -> Seq(BOOLEAN)]
      /\ \A r \in Services \ {s} : inbox'[r] = inbox[r]
      /\ inbox'[s] = Tail(inbox[s]) /\ inbox[s] \in Seq(BOOLEAN)
  BY DEF HostStateTypeOK
<1>2. /\ Head(inbox[s]) \in BOOLEAN /\ Head(inbox[s]) = inbox[s][1]
      /\ Len(inbox[s]) \in Nat \ {0} /\ Len(inbox'[s]) = Len(inbox[s]) - 1
      /\ \A k \in 1..Len(inbox'[s]) : inbox'[s][k] = inbox[s][k + 1]
  BY <1>1
<1>3. \A w \in BOOLEAN : Said(s, w)' => Said(s, w)
  BY <1>2 DEF Said
<1>4. Said(s, Head(inbox[s]))
  BY <1>2 DEF Said
<1>. QED
  BY <1>1, <1>2, <1>3, <1>4

\* The three services.
LEMMA ServiceNames == Services = {"power", "bios", "os"}
  BY DEF Services

\* A reply or signal is handled: updateHostState.
LEMMA DeliverInv ==
    ASSUME HostStateInv, NEW s \in Services, Deliver(s)
    PROVE  HostStateInv'
<1>. DEFINE v == Head(inbox[s])
<1>0. HostStateTypeOK /\ OffIsTrue /\ (~posted => NoPostSeen \/ OffIsKnown)
  BY DEF HostStateInv
<1>1. /\ inbox' \in [Services -> Seq(BOOLEAN)]
      /\ \A r \in Services \ {s} : inbox'[r] = inbox[r]
      /\ v \in BOOLEAN /\ v = inbox[s][1]
      /\ Len(inbox[s]) \in Nat \ {0} /\ Len(inbox'[s]) = Len(inbox[s]) - 1
      /\ \A k \in 1..Len(inbox'[s]) : inbox'[s][k] = inbox[s][k + 1]
      /\ \A w \in BOOLEAN : Said(s, w)' => Said(s, w)
      /\ Said(s, v)
  BY <1>0, AfterDeliver DEF Deliver
<1>2. /\ UNCHANGED <<host, up, value, asked>>
      /\ powerState' = (IF s = "power" THEN v ELSE powerState)
      /\ biosDone' = (powerState' /\ (IF s = "bios" THEN v ELSE biosDone))
      /\ osState' = (powerState' /\ (IF s = "os" THEN v ELSE osState))
      /\ posted' = (posted /\ ~(s = "power" /\ ~v))
      /\ hostState' \in {"off", "postInProgress", "postComplete"}
  BY DEF Deliver, UpdateHostState, AfterOff, serviceVars
<1>3. HostStateTypeOK'
  <2>1. powerState' \in BOOLEAN
    BY <1>0, <1>1, <1>2 DEF HostStateTypeOK
  <2>2. biosDone' \in BOOLEAN /\ osState' \in BOOLEAN /\ posted' \in BOOLEAN
    BY <1>2, Zenon
  <2>3. /\ host' \in HostPhase /\ up' \subseteq Services
        /\ value' \in [Services -> BOOLEAN] /\ asked' \subseteq Services
    BY <1>0, <1>2 DEF HostStateTypeOK
  <2>. QED
    BY <1>1, <1>2, <2>1, <2>2, <2>3 DEF HostStateTypeOK
<1>4. \A r \in Services, w \in BOOLEAN : Said(r, w)' => Said(r, w)
  BY <1>1 DEF Said
<1>5. OffIsTrue'
  <2>1. Said("power", FALSE)' => host' = "off" /\ ~value'["power"]
    BY <1>0, <1>2, <1>4, ServiceNames DEF OffIsTrue
  <2>2. asked' # {} /\ ~value'["power"] => host' = "off"
    BY <1>0, <1>2 DEF OffIsTrue
  <2>3. ASSUME NEW j \in 1..Len(inbox'["power"]), NEW k \in 1..Len(inbox'["power"]),
               j < k, ~inbox'["power"][j]
        PROVE  ~inbox'["power"][k]
    <3>1. CASE s = "power"
      <4>1. /\ j + 1 \in 1..Len(inbox["power"]) /\ k + 1 \in 1..Len(inbox["power"])
            /\ j + 1 < k + 1
        BY <1>1, <2>3, <3>1
      <4>2. /\ inbox'["power"][j] = inbox["power"][j + 1]
            /\ inbox'["power"][k] = inbox["power"][k + 1]
        BY <1>1, <3>1
      <4>. QED
        BY <1>0, <2>3, <4>1, <4>2 DEF OffIsTrue
    <3>2. CASE s # "power"
      <4>1. inbox'["power"] = inbox["power"]
        BY <1>1, <3>2, ServiceNames
      <4>. QED
        BY <1>0, <2>3, <4>1 DEF OffIsTrue
    <3>. QED
      BY <3>1, <3>2
  <2>. QED
    BY <2>1, <2>2, <2>3 DEF OffIsTrue
<1>6. ASSUME ~posted' PROVE (NoPostSeen \/ OffIsKnown)'
  <2>1. CASE s = "power" /\ ~v
    <3>1. ~powerState' /\ ~biosDone' /\ ~osState'
      BY <1>2, <2>1
    <3>2. Said("power", FALSE)
      BY <1>1, <2>1
    <3>3. host' = "off" /\ ~value'["power"]
      BY <1>0, <1>2, <3>2 DEF OffIsTrue
    <3>4. ASSUME NEW k \in 1..Len(inbox'["power"]) PROVE ~inbox'["power"][k]
      <4>1. /\ 1 \in 1..Len(inbox["power"]) /\ k + 1 \in 1..Len(inbox["power"])
            /\ 1 < k + 1
        <5>1. /\ Len(inbox["power"]) \in Nat \ {0}
              /\ Len(inbox'["power"]) = Len(inbox["power"]) - 1
          BY <1>1, <2>1
        <5>. QED
          BY <5>1
      <4>2. inbox'["power"][k] = inbox["power"][k + 1] /\ ~inbox["power"][1]
        BY <1>1, <2>1
      <4>. QED
        BY <1>0, <4>1, <4>2 DEF OffIsTrue
    <3>5. ~Said("power", TRUE)'
      BY <3>4 DEF Said
    <3>. QED
      BY <3>1, <3>3, <3>5 DEF OffIsKnown
  <2>2. CASE ~posted /\ NoPostSeen /\ ~(s = "power" /\ ~v)
    <3>1. s \in {"bios", "os"} => ~v
      BY <1>1, <2>2 DEF NoPostSeen
    <3>2. ~biosDone' /\ ~osState'
      BY <1>2, <2>2, <3>1, ServiceNames DEF NoPostSeen
    <3>3. \A r \in {"bios", "os"} : ~Said(r, TRUE)'
      BY <1>4, <2>2, ServiceNames DEF NoPostSeen
    <3>. QED
      BY <1>2, <2>2, <3>2, <3>3 DEF NoPostSeen
  <2>3. CASE ~posted /\ OffIsKnown /\ ~(s = "power" /\ ~v)
    <3>1. s # "power"
      BY <1>1, <2>3 DEF OffIsKnown
    <3>2. ~powerState' /\ ~biosDone' /\ ~osState'
      BY <1>2, <2>3, <3>1 DEF OffIsKnown
    <3>3. ~Said("power", TRUE)'
      BY <1>4, <2>3, ServiceNames DEF OffIsKnown
    <3>. QED
      BY <1>2, <2>3, <3>2, <3>3 DEF OffIsKnown
  <2>. QED
    BY <1>0, <1>2, <1>6, <2>1, <2>2, <2>3
<1>. QED
  BY <1>3, <1>5, <1>6 DEF HostStateInv

\* A service has noticed what the host does, or was started, and says so.
LEMMA SpeaksInv ==
    ASSUME HostStateInv, NEW s \in Services, up' \subseteq Services,
           value' = [value EXCEPT ![s] = Reflects(s, host)], Emit(s, value'[s]),
           UNCHANGED <<host, asked, appVars, posted>>
    PROVE  HostStateInv'
<1>. DEFINE v == value'[s]
<1>0. HostStateTypeOK /\ OffIsTrue /\ (~posted => NoPostSeen \/ OffIsKnown)
  BY DEF HostStateInv
<1>1. /\ UNCHANGED <<host, asked, powerState, biosDone, osState, hostState, posted>>
      /\ value' \in [Services -> BOOLEAN] /\ v \in BOOLEAN
      /\ \A r \in Services \ {s} : value'[r] = value[r]
  BY <1>0 DEF HostStateTypeOK, appVars, Reflects
<1>2. /\ s = "power" => (v <=> host # "off")
      /\ s # "power" => (v <=> host = "done")
  BY <1>0 DEF HostStateTypeOK, Reflects
<1>3. /\ inbox' \in [Services -> Seq(BOOLEAN)]
      /\ \A r \in Services \ {s} : inbox'[r] = inbox[r]
      /\ Len(inbox'[s]) = Len(inbox[s]) + 1 /\ Len(inbox[s]) \in Nat
      /\ \A k \in 1..Len(inbox[s]) : inbox'[s][k] = inbox[s][k]
      /\ inbox'[s][Len(inbox[s]) + 1] = v
      /\ \A w \in BOOLEAN : Said(s, w)' <=> Said(s, w) \/ w = v
  BY <1>0, <1>1, AfterEmit
<1>4. \A r \in Services \ {s}, w \in BOOLEAN : Said(r, w)' <=> Said(r, w)
  BY <1>3 DEF Said
<1>. HIDE DEF v
<1>5. HostStateTypeOK'
  BY <1>0, <1>1, <1>3 DEF HostStateTypeOK
<1>6. OffIsTrue'
  <2>1. CASE s = "power"
    <3>1. Said("power", FALSE)' => host' = "off" /\ ~value'["power"]
      BY <1>0, <1>1, <1>2, <1>3, <2>1 DEF OffIsTrue, v
    <3>2. asked' # {} /\ ~value'["power"] => host' = "off"
      BY <1>1, <1>2, <2>1 DEF v
    <3>3. ASSUME NEW j \in 1..Len(inbox'["power"]), NEW k \in 1..Len(inbox'["power"]),
                 j < k, ~inbox'["power"][j]
          PROVE  ~inbox'["power"][k]
      <4>1. j \in 1..Len(inbox["power"]) /\ ~inbox["power"][j]
        BY <1>3, <2>1, <3>3
      <4>2. Said("power", FALSE)
        <5>1. inbox["power"][j] = FALSE
          BY <1>0, <4>1, ServiceNames DEF HostStateTypeOK
        <5>. QED
          BY <4>1, <5>1 DEF Said
      <4>3. ~v
        BY <1>0, <1>2, <2>1, <4>2 DEF OffIsTrue
      <4>4. k \in 1..Len(inbox["power"]) \/ k = Len(inbox["power"]) + 1
        BY <1>3, <2>1
      <4>. QED
        BY <1>0, <1>3, <2>1, <3>3, <4>1, <4>3, <4>4 DEF OffIsTrue
    <3>. QED
      BY <3>1, <3>2, <3>3 DEF OffIsTrue
  <2>2. CASE s # "power"
    <3>1. /\ inbox'["power"] = inbox["power"] /\ value'["power"] = value["power"]
          /\ Said("power", FALSE)' <=> Said("power", FALSE)
      BY <1>1, <1>3, <1>4, <2>2, ServiceNames
    <3>. QED
      BY <1>0, <1>1, <3>1 DEF OffIsTrue
  <2>. QED
    BY <2>1, <2>2
<1>7. ASSUME ~posted' PROVE (NoPostSeen \/ OffIsKnown)'
  <2>1. CASE NoPostSeen
    <3>1. ASSUME NEW r \in {"bios", "os"}
          PROVE  ~Said(r, TRUE)' /\ (r \in asked' => ~value'[r])
      <4>1. CASE r = s
        BY <1>1, <1>2, <1>3, <2>1, <4>1 DEF NoPostSeen, v
      <4>2. CASE r # s
        BY <1>1, <1>4, <2>1, <4>2, ServiceNames DEF NoPostSeen
      <4>. QED
        BY <4>1, <4>2
    <3>. QED
      BY <1>1, <2>1, <3>1 DEF NoPostSeen
  <2>2. CASE OffIsKnown
    <3>1. ~Said("power", TRUE)' /\ ~value'["power"]
      <4>1. CASE s = "power"
        BY <1>2, <1>3, <2>2, <4>1 DEF OffIsKnown, v
      <4>2. CASE s # "power"
        BY <1>1, <1>4, <2>2, <4>2, ServiceNames DEF OffIsKnown
      <4>. QED
        BY <4>1, <4>2
    <3>. QED
      BY <1>1, <2>2, <3>1 DEF OffIsKnown
  <2>. QED
    BY <1>0, <1>1, <1>7, <2>1, <2>2
<1>. QED
  BY <1>5, <1>6, <1>7 DEF HostStateInv

\* getProperty is answered with the value that the service has, which it may not have
\* brought up to date.
LEMMA AnswerInv ==
    ASSUME HostStateInv, NEW s \in Services, Answer(s)
    PROVE  HostStateInv'
<1>. DEFINE v == value[s]
<1>0. HostStateTypeOK /\ OffIsTrue /\ (~posted => NoPostSeen \/ OffIsKnown)
  BY DEF HostStateInv
<1>1. /\ UNCHANGED <<host, up, value, powerState, biosDone, osState, hostState, posted>>
      /\ s \in asked /\ asked' = asked \ {s} /\ v \in BOOLEAN
  BY <1>0 DEF Answer, appVars, HostStateTypeOK
<1>2. CASE inbox' = inbox
  <2>1. \A r \in Services, w \in BOOLEAN : Said(r, w)' <=> Said(r, w)
    BY <1>2 DEF Said
  <2>2. HostStateTypeOK'
    BY <1>0, <1>1, <1>2 DEF HostStateTypeOK
  <2>3. OffIsTrue'
    BY <1>0, <1>1, <1>2, <2>1, ServiceNames DEF OffIsTrue
  <2>4. NoPostSeen => NoPostSeen'
    BY <1>1, <2>1, ServiceNames DEF NoPostSeen
  <2>5. OffIsKnown => OffIsKnown'
    BY <1>1, <2>1, ServiceNames DEF OffIsKnown
  <2>. QED
    BY <1>0, <1>1, <2>2, <2>3, <2>4, <2>5 DEF HostStateInv
<1>3. CASE Emit(s, v)
  <2>1. /\ inbox' \in [Services -> Seq(BOOLEAN)]
        /\ \A r \in Services \ {s} : inbox'[r] = inbox[r]
        /\ Len(inbox'[s]) = Len(inbox[s]) + 1 /\ Len(inbox[s]) \in Nat
        /\ \A k \in 1..Len(inbox[s]) : inbox'[s][k] = inbox[s][k]
        /\ inbox'[s][Len(inbox[s]) + 1] = v
        /\ \A w \in BOOLEAN : Said(s, w)' <=> Said(s, w) \/ w = v
    BY <1>0, <1>1, <1>3, AfterEmit
  <2>2. \A r \in Services \ {s}, w \in BOOLEAN : Said(r, w)' <=> Said(r, w)
    BY <2>1 DEF Said
  <2>3. HostStateTypeOK'
    BY <1>0, <1>1, <2>1 DEF HostStateTypeOK
  <2>4. OffIsTrue'
    <3>1. CASE s = "power"
      <4>1. ~v => host = "off"
        BY <1>0, <1>1, <3>1 DEF OffIsTrue
      <4>2. Said("power", FALSE)' => host' = "off" /\ ~value'["power"]
        BY <1>0, <1>1, <2>1, <3>1, <4>1 DEF OffIsTrue
      <4>3. asked' # {} /\ ~value'["power"] => host' = "off"
        BY <1>1, <3>1, <4>1
      <4>4. ASSUME NEW j \in 1..Len(inbox'["power"]), NEW k \in 1..Len(inbox'["power"]),
                   j < k, ~inbox'["power"][j]
            PROVE  ~inbox'["power"][k]
        <5>1. j \in 1..Len(inbox["power"]) /\ ~inbox["power"][j]
          BY <2>1, <3>1, <4>4
        <5>2. Said("power", FALSE)
          <6>1. inbox["power"][j] = FALSE
            BY <1>0, <5>1, ServiceNames DEF HostStateTypeOK
          <6>. QED
            BY <5>1, <6>1 DEF Said
        <5>3. ~v
          BY <1>0, <3>1, <5>2 DEF OffIsTrue
        <5>4. k \in 1..Len(inbox["power"]) \/ k = Len(inbox["power"]) + 1
          BY <2>1, <3>1
        <5>. QED
          BY <1>0, <2>1, <3>1, <4>4, <5>1, <5>3, <5>4 DEF OffIsTrue
      <4>. QED
        BY <4>2, <4>3, <4>4 DEF OffIsTrue
    <3>2. CASE s # "power"
      <4>1. inbox'["power"] = inbox["power"] /\ (Said("power", FALSE)' <=> Said("power", FALSE))
        BY <2>1, <2>2, <3>2, ServiceNames
      <4>. QED
        BY <1>0, <1>1, <4>1 DEF OffIsTrue
    <3>. QED
      BY <3>1, <3>2
  <2>5. NoPostSeen => NoPostSeen'
    <3>1. ASSUME NoPostSeen, NEW r \in {"bios", "os"} PROVE ~Said(r, TRUE)'
      <4>1. CASE r = s
        BY <1>1, <2>1, <3>1, <4>1 DEF NoPostSeen
      <4>2. CASE r # s
        BY <2>2, <3>1, <4>2, ServiceNames DEF NoPostSeen
      <4>. QED
        BY <4>1, <4>2
    <3>. QED
      BY <1>1, <3>1 DEF NoPostSeen
  <2>6. OffIsKnown => OffIsKnown'
    <3>1. ASSUME OffIsKnown PROVE ~Said("power", TRUE)'
      <4>1. CASE s = "power"
        BY <2>1, <3>1, <4>1 DEF OffIsKnown
      <4>2. CASE s # "power"
        BY <2>2, <3>1, <4>2, ServiceNames DEF OffIsKnown
      <4>. QED
        BY <4>1, <4>2
    <3>. QED
      BY <1>1, <3>1 DEF OffIsKnown
  <2>. QED
    BY <1>0, <1>1, <2>3, <2>4, <2>5, <2>6 DEF HostStateInv
<1>. QED
  BY <1>2, <1>3 DEF Answer

\* The host goes on; it is powered up when the off has been handled.
LEMMA HostMovesInv ==
    ASSUME HostStateInv, NEW h \in HostPhase, HostMoves(h)
    PROVE  HostStateInv'
<1>0. HostStateTypeOK /\ OffIsTrue /\ (~posted => NoPostSeen \/ OffIsKnown)
  BY DEF HostStateInv
<1>1. /\ UNCHANGED <<up, value, asked, inbox, powerState, biosDone, osState, hostState>>
      /\ host' = h /\ posted' = (posted \/ h = "done")
  BY DEF HostMoves, appVars
<1>2. /\ host = "off" => h = "post" /\ Quiet
      /\ host # "off" => h # host
  BY DEF HostMoves
<1>3. Quiet => asked = {} /\ \A r \in Services, w \in BOOLEAN : ~Said(r, w)
  BY DEF Quiet, Said
<1>4. \A r \in Services, w \in BOOLEAN : Said(r, w)' <=> Said(r, w)
  BY <1>1 DEF Said
<1>5. HostStateTypeOK'
  <2>1. posted' \in BOOLEAN
    BY <1>1, Zenon
  <2>. QED
    BY <1>0, <1>1, <2>1 DEF HostStateTypeOK
<1>6. OffIsTrue'
  <2>1. Said("power", FALSE) => host # "off"
    BY <1>2, <1>3, ServiceNames
  <2>2. asked # {} => host # "off"
    BY <1>2, <1>3
  <2>. QED
    BY <1>0, <1>1, <1>4, <2>1, <2>2, ServiceNames DEF OffIsTrue
<1>7. ASSUME ~posted' PROVE (NoPostSeen \/ OffIsKnown)'
  <2>1. ~posted /\ h # "done"
    BY <1>1, <1>7
  <2>2. CASE NoPostSeen
    BY <1>1, <1>4, <2>1, <2>2, ServiceNames DEF NoPostSeen
  <2>3. CASE OffIsKnown
    <3>1. asked = {} /\ \A r \in Services : ~Said(r, TRUE)'
      BY <1>2, <1>3, <1>4, <2>3 DEF OffIsKnown
    <3>. QED
      BY <1>1, <2>1, <2>3, <3>1, ServiceNames DEF OffIsKnown, NoPostSeen
  <2>. QED
    BY <1>0, <2>1, <2>2, <2>3
<1>. QED
  BY <1>5, <1>6, <1>7 DEF HostStateInv

\* Every step keeps the invariant.
LEMMA HostStateInvStep ==
    HostStateInv /\ [HostStateNext]_hostStateVars => HostStateInv'
<1>. SUFFICES ASSUME HostStateInv, [HostStateNext]_hostStateVars
              PROVE  HostStateInv'
  OBVIOUS
<1>1. ASSUME NEW s \in Services, ServiceStarts(s) \/ ServiceFollows(s)
      PROVE  HostStateInv'
  BY <1>1, SpeaksInv DEF ServiceStarts, ServiceFollows, HostStateInv, HostStateTypeOK
<1>2. CASE /\ UNCHANGED <<host, value, asked, inbox, appVars, posted>>
           /\ up' \subseteq Services
  <2>1. \A r, w : Said(r, w)' <=> Said(r, w)
    BY <1>2 DEF Said
  <2>2. HostStateTypeOK'
    BY <1>2 DEF HostStateInv, HostStateTypeOK, appVars
  <2>3. OffIsTrue'
    BY <1>2, <2>1 DEF HostStateInv, OffIsTrue
  <2>4. ~posted' => (NoPostSeen \/ OffIsKnown)'
    BY <1>2, <2>1 DEF HostStateInv, NoPostSeen, OffIsKnown, appVars
  <2>. QED
    BY <2>2, <2>3, <2>4 DEF HostStateInv
<1>3. ASSUME NEW s \in Services, ServiceStops(s)
      PROVE  HostStateInv'
  BY <1>2, <1>3 DEF ServiceStops, HostStateInv, HostStateTypeOK
<1>4. CASE UNCHANGED hostStateVars
  BY <1>2, <1>4 DEF hostStateVars, serviceVars, HostStateInv, HostStateTypeOK
<1>. QED
  BY <1>1, <1>3, <1>4, DeliverInv, AnswerInv, HostMovesInv DEF HostStateNext

\* hostState does not jump to postComplete on what is left of an earlier POST, whatever
\* the order in which the messages of the three services are handled and whenever these
\* services are restarted.
THEOREM NeverJumpsBack == HostStateSpec => NoJumpBack
<1>1. HostStateInv /\ [HostStateNext]_hostStateVars
          => [hostState # "postComplete" /\ hostState' = "postComplete"
                  => posted]_hostStateVars
  <2>. SUFFICES ASSUME HostStateInv, HostStateNext, hostState # "postComplete",
                       hostState' = "postComplete", ~posted
                PROVE  FALSE
    OBVIOUS
  <2>1. PICK s \in Services : Deliver(s)
    BY DEF HostStateNext, Answer, ServiceStarts, ServiceStops, ServiceFollows, HostMoves,
           appVars
  <2>. DEFINE v == Head(inbox[s])
  <2>2. Said(s, v) /\ v \in BOOLEAN
    BY <2>1, AfterDeliver DEF Deliver, HostStateInv
  <2>3. /\ IF s = "power" THEN v ELSE powerState
        /\ (IF s = "bios" THEN v ELSE biosDone) \/ (IF s = "os" THEN v ELSE osState)
    BY <2>1 DEF Deliver, UpdateHostState
  <2>4. ~NoPostSeen
    BY <2>2, <2>3 DEF NoPostSeen
  <2>5. ~OffIsKnown
    BY <2>2, <2>3 DEF OffIsKnown
  <2>. QED
    BY <2>4, <2>5 DEF HostStateInv
<1>. QED
  BY <1>1, HostStateInvInit, HostStateInvStep, PTL DEF HostStateSpec, NoJumpBack

(***************************************************************************)
(* The CPU property setter.                                                *)
(***************************************************************************)
\* The last of a list that was extended.
LEMMA LastAppended ==
    ASSUME NEW S, NEW s \in Seq(S), NEW v \in S
    PROVE  /\ Append(s, v) # << >>
           /\ Append(s, v)[Len(Append(s, v))] = v
<1>1. Len(Append(s, v)) = Len(s) + 1 /\ Append(s, v)[Len(s) + 1] = v /\ Len(s) \in Nat
  OBVIOUS
<1>. QED
  BY <1>1

\* The last of a concatenation.
LEMMA LastConcatenated ==
    ASSUME NEW S, NEW s \in Seq(S), NEW t \in Seq(S), t # << >>
    PROVE  s \o t # << >> /\ (s \o t)[Len(s \o t)] = t[Len(t)]
<1>1. Len(s \o t) = Len(s) + Len(t) /\ Len(s) \in Nat /\ Len(t) \in Nat \ {0}
  OBVIOUS
<1>2. (s \o t)[Len(s) + Len(t)] = t[Len(t)]
  <2>. DEFINE k == Len(s) + Len(t)
  <2>1. k \in 1..(Len(s) + Len(t)) /\ ~(k <= Len(s)) /\ k - Len(s) = Len(t)
    BY <1>1
  <2>2. (s \o t)[k] = IF k <= Len(s) THEN s[k] ELSE t[k - Len(s)]
    BY <2>1
  <2>. QED
    BY <2>1, <2>2
<1>. QED
  BY <1>1, <1>2

\* The rest of a list without its first element ends as the list does.
LEMMA LastOfTail ==
    ASSUME NEW S, NEW s \in Seq(S), s # << >>
    PROVE  /\ Tail(s) \in Seq(S) /\ Head(s) \in S /\ Head(s) = s[1]
           /\ Len(s) \in Nat \ {0}
           /\ Tail(s) = << >> => Len(s) = 1
           /\ Tail(s) # << >> => Tail(s)[Len(Tail(s))] = s[Len(s)]
<1>1. /\ Tail(s) \in Seq(S) /\ Head(s) \in S /\ Head(s) = s[1]
      /\ Len(s) \in Nat \ {0} /\ Len(Tail(s)) = Len(s) - 1
  OBVIOUS
<1>2. ASSUME Tail(s) # << >> PROVE Tail(s)[Len(Tail(s))] = s[Len(s)]
  <2>1. Len(s) - 1 \in 1..Len(Tail(s))
    BY <1>1, <1>2
  <2>2. Tail(s)[Len(s) - 1] = s[Len(s) - 1 + 1]
    BY <1>1, <2>1
  <2>3. Len(Tail(s)) = Len(s) - 1 /\ Len(s) - 1 + 1 = Len(s)
    BY <1>1
  <2>. QED
    BY <2>2, <2>3, Zenon
<1>3. Tail(s) = << >> => Len(Tail(s)) = 0
  <2>1. Len(<< >>) = 0
    OBVIOUS
  <2>. QED
    BY <2>1, Zenon
<1>4. Tail(s) = << >> => Len(s) = 1
  BY <1>1, <1>3
<1>. QED
  BY <1>1, <1>2, <1>4, Zenon

PropertiesTypeOK ==
    /\ propertiesToSet \in [Cpus -> Seq(Specs)]
    /\ cpuUpdatedMatch \subseteq Cpus
    /\ sets \in [Cpus -> Seq(Specs)]
    /\ added \in [Cpus -> Nat]
    /\ model \in [Cpus -> Specs \cup {Absent, FromTable}]

\* An object with a listed value is watched, the last Set call on its way to it has the
\* newest value, and when neither a Set nor the news of a new object is on its way, the
\* object has it.
NewestArrives(c) ==
    /\ propertiesToSet[c] # << >> => c \in cpuUpdatedMatch
    /\ sets[c] # << >> => /\ propertiesToSet[c] # << >>
                          /\ sets[c][Len(sets[c])] = Newest(c)
    /\ propertiesToSet[c] # << >> /\ sets[c] = << >> /\ added[c] = 0
           => model[c] \in {Absent, Newest(c)}

PropertiesInv == PropertiesTypeOK /\ \A c \in Cpus : NewestArrives(c)

\* What is on the way of one CPU only depends on the entries of that CPU.
LEMMA OtherCpu ==
    ASSUME NEW d \in Cpus, NewestArrives(d),
           propertiesToSet'[d] = propertiesToSet[d], sets'[d] = sets[d],
           added'[d] = added[d], model'[d] = model[d],
           d \in cpuUpdatedMatch => d \in cpuUpdatedMatch'
    PROVE  NewestArrives(d)'
BY DEF NewestArrives, Newest

\* setCpuProperty lists and sends the value.
LEMMA SetCpuPropertyInv ==
    ASSUME PropertiesInv, NEW c \in Cpus, NEW v \in Specs, SetCpuProperty(c, v)
    PROVE  PropertiesInv' /\ Newest(c)' = v
<1>1. /\ propertiesToSet' \in [Cpus -> Seq(Specs)] /\ sets' \in [Cpus -> Seq(Specs)]
      /\ cpuUpdatedMatch' = cpuUpdatedMatch \cup {c}
      /\ propertiesToSet'[c] = Append(propertiesToSet[c], v)
      /\ sets'[c] = Append(sets[c], v)
      /\ propertiesToSet[c] \in Seq(Specs) /\ sets[c] \in Seq(Specs)
      /\ \A d \in Cpus \ {c} : propertiesToSet'[d] = propertiesToSet[d] /\ sets'[d] = sets[d]
      /\ added' = added /\ model' = model
  BY DEF SetCpuProperty, CreateCpuUpdatedMatch, PropertiesInv, PropertiesTypeOK
<1>2. /\ propertiesToSet'[c] # << >> /\ sets'[c] # << >>
      /\ propertiesToSet'[c][Len(propertiesToSet'[c])] = v
      /\ sets'[c][Len(sets'[c])] = v
  BY <1>1, LastAppended
<1>3. Newest(c)' = v
  BY <1>2 DEF Newest
<1>4. NewestArrives(c)'
  BY <1>1, <1>2, <1>3 DEF NewestArrives
<1>5. \A d \in Cpus \ {c} : NewestArrives(d)'
  BY <1>1, OtherCpu DEF PropertiesInv
<1>6. PropertiesTypeOK'
  BY <1>1 DEF PropertiesInv, PropertiesTypeOK
<1>. QED
  BY <1>3, <1>4, <1>5, <1>6 DEF PropertiesInv

\* The handler of the match, smbiosmdrv2app serving a Set, and its objects coming and
\* going.
LEMMA PropertiesStepInv ==
    ASSUME PropertiesInv, NEW c \in Cpus, PropertiesStep(c)
    PROVE  PropertiesInv'
<1>1. /\ propertiesToSet[c] \in Seq(Specs) /\ sets[c] \in Seq(Specs) /\ added[c] \in Nat
      /\ model[c] \in Specs \cup {Absent, FromTable}
      /\ NewestArrives(c)
  BY DEF PropertiesInv, PropertiesTypeOK
<1>2. propertiesToSet' = propertiesToSet /\ cpuUpdatedMatch' = cpuUpdatedMatch
  BY DEF PropertiesStep, InterfacesAdded, ServeSet, TargetAdded, TargetRemoved
<1>3. Newest(c)' = Newest(c)
  BY <1>2 DEF Newest
<1>4. ASSUME InterfacesAdded(c) PROVE PropertiesTypeOK' /\ NewestArrives(c)'
  <2>1. /\ sets'[c] = sets[c] \o propertiesToSet[c]
        /\ added'[c] = added[c] - 1 /\ added[c] > 0
        /\ sets' = [sets EXCEPT ![c] = sets'[c]]
        /\ added' = [added EXCEPT ![c] = added'[c]]
        /\ model' = model
    BY <1>4 DEF InterfacesAdded, PropertiesInv, PropertiesTypeOK
  <2>2. sets'[c] \in Seq(Specs) /\ added'[c] \in Nat
    BY <1>1, <2>1
  <2>3. PropertiesTypeOK'
    BY <1>2, <2>1, <2>2 DEF PropertiesInv, PropertiesTypeOK
  <2>4. CASE propertiesToSet[c] = << >>
    <3>1. sets[c] = << >> /\ sets'[c] = << >>
      BY <1>1, <2>1, <2>4 DEF NewestArrives
    <3>. QED
      BY <1>2, <2>3, <2>4, <3>1 DEF NewestArrives
  <2>5. CASE propertiesToSet[c] # << >>
    <3>1. /\ sets'[c] # << >>
          /\ sets'[c][Len(sets'[c])] = propertiesToSet[c][Len(propertiesToSet[c])]
      <4>1. /\ sets[c] \o propertiesToSet[c] # << >>
            /\ (sets[c] \o propertiesToSet[c])[Len(sets[c] \o propertiesToSet[c])]
                   = propertiesToSet[c][Len(propertiesToSet[c])]
        BY <1>1, <2>5, LastConcatenated
      <4>2. sets'[c] = sets[c] \o propertiesToSet[c]
        BY <2>1
      <4>. QED
        BY <4>1, <4>2, Zenon
    <3>2. sets'[c][Len(sets'[c])] = Newest(c)'
      BY <1>3, <3>1 DEF Newest
    <3>3. propertiesToSet'[c] # << >> /\ c \in cpuUpdatedMatch'
      BY <1>1, <1>2, <2>5 DEF NewestArrives
    <3>. QED
      BY <2>3, <3>1, <3>2, <3>3 DEF NewestArrives
  <2>. QED
    BY <2>4, <2>5
<1>5. ASSUME ServeSet(c) PROVE PropertiesTypeOK' /\ NewestArrives(c)'
  <2>1. /\ sets[c] # << >> /\ sets'[c] = Tail(sets[c])
        /\ model'[c] = IF model[c] = Absent THEN Absent ELSE Head(sets[c])
        /\ sets' = [sets EXCEPT ![c] = sets'[c]]
        /\ model' = [model EXCEPT ![c] = model'[c]]
        /\ added' = added
    BY <1>5 DEF ServeSet, PropertiesInv, PropertiesTypeOK
  <2>2. /\ sets'[c] \in Seq(Specs) /\ Head(sets[c]) \in Specs
        /\ Len(sets[c]) \in Nat \ {0} /\ Head(sets[c]) = sets[c][1]
        /\ sets'[c] = << >> => Len(sets[c]) = 1
        /\ sets'[c] # << >> => sets'[c][Len(sets'[c])] = sets[c][Len(sets[c])]
    BY <1>1, <2>1, LastOfTail
  <2>3. PropertiesTypeOK'
    <3>1. model'[c] \in Specs \cup {Absent, FromTable}
      BY <2>1, <2>2
    <3>. QED
      BY <1>2, <2>1, <2>2, <3>1 DEF PropertiesInv, PropertiesTypeOK
  <2>4. model'[c] # Absent /\ sets'[c] = << >> => model'[c] = Newest(c)
    BY <1>1, <2>1, <2>2 DEF NewestArrives
  <2>. QED
    BY <1>1, <1>2, <1>3, <2>1, <2>2, <2>3, <2>4 DEF NewestArrives
<1>6. ASSUME TargetAdded(c) PROVE PropertiesTypeOK' /\ NewestArrives(c)'
  <2>1. /\ model' = [model EXCEPT ![c] = FromTable] /\ sets' = sets
        /\ added'[c] = IF c \in cpuUpdatedMatch THEN added[c] + 1 ELSE added[c]
        /\ added' = [added EXCEPT ![c] = added'[c]]
    BY <1>6 DEF TargetAdded, PropertiesInv, PropertiesTypeOK
  <2>2. added'[c] \in Nat /\ (c \in cpuUpdatedMatch => added'[c] # 0)
    BY <1>1, <2>1
  <2>3. PropertiesTypeOK'
    BY <1>2, <2>1, <2>2 DEF PropertiesInv, PropertiesTypeOK
  <2>. QED
    BY <1>1, <1>2, <1>3, <2>1, <2>2, <2>3 DEF NewestArrives
<1>7. ASSUME TargetRemoved(c) PROVE PropertiesTypeOK' /\ NewestArrives(c)'
  <2>1. model' = [model EXCEPT ![c] = Absent] /\ sets' = sets /\ added' = added
    BY <1>7 DEF TargetRemoved
  <2>2. PropertiesTypeOK' /\ model'[c] = Absent
    BY <1>2, <2>1 DEF PropertiesInv, PropertiesTypeOK
  <2>. QED
    BY <1>1, <1>2, <1>3, <2>1, <2>2 DEF NewestArrives
<1>8. \A d \in Cpus \ {c} : NewestArrives(d)'
  <2>1. \A d \in Cpus \ {c} :
            sets'[d] = sets[d] /\ added'[d] = added[d] /\ model'[d] = model[d]
    BY DEF PropertiesStep, InterfacesAdded, ServeSet, TargetAdded, TargetRemoved,
           PropertiesInv, PropertiesTypeOK
  <2>. QED
    BY <1>2, <2>1, OtherCpu DEF PropertiesInv
<1>. QED
  BY <1>4, <1>5, <1>6, <1>7, <1>8 DEF PropertiesStep, PropertiesInv

(***************************************************************************)
(* The SSpec and the PPIN.                                                 *)
(***************************************************************************)
\* The sSpec that a CPUInfo has is what was read last since it was made.
SpecWasSeen(c) ==
    sSpec[c] \in Specs => seen[c] # << >> /\ seen[c][Len(seen[c])] = sSpec[c]

CpuInfoInv ==
    /\ PropertiesInv
    /\ pirom \in [Cpus -> Contents \cup {NoReply}]
    /\ sSpec \in [Cpus -> Specs \cup {NoCpu, NoSpec}]
    /\ seen \in [Cpus -> Seq(Specs)]
    /\ DOMAIN ppin = Cpus
    /\ \A c \in Cpus : SpecWasSeen(c)

\* Nothing is listed, read or published when the application starts.
LEMMA CpuInfoInvInit == CpuInfoInit => CpuInfoInv
<1>. SUFFICES ASSUME CpuInfoInit PROVE CpuInfoInv
  OBVIOUS
<1>1. << >> \in Seq(Specs) /\ NoCpu \notin Specs
  BY CpuInfoAssumption
<1>2. PropertiesTypeOK
  BY <1>1 DEF CpuInfoInit, PropertiesInit, PropertiesTypeOK
<1>3. \A c \in Cpus : NewestArrives(c)
  BY DEF CpuInfoInit, PropertiesInit, NewestArrives
<1>4. \A c \in Cpus : SpecWasSeen(c)
  BY <1>1 DEF CpuInfoInit, SpecWasSeen
<1>. QED
  BY <1>1, <1>2, <1>3, <1>4 DEF CpuInfoInit, CpuInfoInv, PropertiesInv

\* tryReadSSpec of a CPUInfo whose sSpec is the last value that it has read, or none: only
\* a value that was read twice is set.
LEMMA TryReadSSpecInv ==
    ASSUME CpuInfoInv, NEW c \in Cpus, NEW cur \in Specs \cup {NoCpu, NoSpec}, NEW n,
           NEW before \in Seq(Specs), NEW fails,
           cur \in Specs => before # << >> /\ before[Len(before)] = cur,
           TryReadSSpec(c, cur, n), Reads(c, before, fails),
           pirom' = pirom, DOMAIN ppin' = Cpus
    PROVE  /\ CpuInfoInv'
           /\ \A d \in Cpus : propertiesToSet'[d] # propertiesToSet[d] =>
                  seen'[d] = <<Newest(d)', Newest(d)'>>
<1>. DEFINE r == ReadSSpec(pirom[c])
<1>1. Readable(pirom[c]) => r \in Specs
  BY SpecsAssumption DEF CpuInfoInv, Readable
<1>. HIDE DEF r
<1>2. /\ seen'[c] = IF ~Readable(pirom[c]) THEN before
                    ELSE IF before = << >> THEN <<r>> ELSE <<before[Len(before)], r>>
      /\ seen' = [seen EXCEPT ![c] = seen'[c]]
  BY DEF Reads, CpuInfoInv, r
<1>3. ASSUME Confirm(c, cur, n)
      PROVE  /\ CpuInfoInv'
             /\ \A d \in Cpus : propertiesToSet'[d] # propertiesToSet[d] =>
                    seen'[d] = <<Newest(d)', Newest(d)'>>
  <2>1. /\ Readable(pirom[c]) /\ r = cur /\ cur \in Specs
        /\ SetCpuProperty(c, cur) /\ sSpec' = [sSpec EXCEPT ![c] = cur]
    BY <1>1, <1>3 DEF Confirm, r
  <2>2. PropertiesInv' /\ Newest(c)' = cur
    BY <2>1, SetCpuPropertyInv DEF CpuInfoInv
  <2>3. seen'[c] = <<cur, cur>>
    BY <1>2, <2>1
  <2>4. /\ seen' \in [Cpus -> Seq(Specs)]
        /\ \A d \in Cpus \ {c} : seen'[d] = seen[d] /\ sSpec'[d] = sSpec[d]
        /\ sSpec'[c] = cur
    <3>1. <<cur, cur>> \in Seq(Specs)
      BY <2>1
    <3>. QED
      BY <1>2, <2>1, <2>3, <3>1 DEF CpuInfoInv
  <2>5. seen'[c] # << >> /\ seen'[c][Len(seen'[c])] = cur
    BY <2>3
  <2>6. \A d \in Cpus : SpecWasSeen(d)'
    BY <2>4, <2>5 DEF CpuInfoInv, SpecWasSeen
  <2>7. CpuInfoInv'
    BY <2>1, <2>2, <2>4, <2>6 DEF CpuInfoInv
  <2>8. \A d \in Cpus \ {c} : propertiesToSet'[d] = propertiesToSet[d]
    BY <2>1 DEF SetCpuProperty, CpuInfoInv, PropertiesInv, PropertiesTypeOK
  <2>. QED
    BY <2>2, <2>3, <2>7, <2>8
<1>4. ASSUME Remember(c, cur, n) \/ ReadFails(c, cur, n)
      PROVE  CpuInfoInv' /\ propertiesToSet' = propertiesToSet
  <2>1. propertyVars' = propertyVars
    BY <1>4 DEF Remember, ReadFails
  <2>2. PropertiesInv' /\ propertiesToSet' = propertiesToSet
    BY <2>1 DEF propertyVars, busVars, CpuInfoInv, PropertiesInv, PropertiesTypeOK,
                NewestArrives, Newest
  <2>3. /\ sSpec'[c] = IF Readable(pirom[c]) THEN r ELSE cur
        /\ sSpec' = [sSpec EXCEPT ![c] = sSpec'[c]]
    BY <1>4 DEF Remember, ReadFails, CpuInfoInv, r
  <2>4. /\ seen'[c] \in Seq(Specs)
        /\ sSpec'[c] \in Specs => seen'[c] # << >> /\ seen'[c][Len(seen'[c])] = sSpec'[c]
    <3>1. CASE ~Readable(pirom[c])
      BY <1>2, <2>3, <3>1
    <3>2. CASE Readable(pirom[c]) /\ before = << >>
      <4>1. seen'[c] = <<r>> /\ sSpec'[c] = r /\ r \in Specs
        BY <1>1, <1>2, <2>3, <3>2
      <4>. QED
        BY <4>1
    <3>3. CASE Readable(pirom[c]) /\ before # << >>
      <4>1. /\ seen'[c] = <<before[Len(before)], r>> /\ sSpec'[c] = r /\ r \in Specs
            /\ before[Len(before)] \in Specs
        BY <1>1, <1>2, <2>3, <3>3
      <4>. QED
        BY <4>1
    <3>. QED
      BY <3>1, <3>2, <3>3
  <2>5. \A d \in Cpus \ {c} : seen'[d] = seen[d] /\ sSpec'[d] = sSpec[d]
    BY <1>2, <2>3 DEF CpuInfoInv
  <2>6. \A d \in Cpus : SpecWasSeen(d)'
    BY <2>4, <2>5 DEF CpuInfoInv, SpecWasSeen
  <2>7. sSpec'[c] \in Specs \cup {NoCpu, NoSpec}
    BY <1>1, <2>3
  <2>8. /\ sSpec' \in [Cpus -> Specs \cup {NoCpu, NoSpec}]
        /\ seen' \in [Cpus -> Seq(Specs)]
    BY <1>2, <2>3, <2>4, <2>7 DEF CpuInfoInv
  <2>. QED
    BY <2>2, <2>6, <2>8 DEF CpuInfoInv
<1>. QED
  BY <1>3, <1>4 DEF TryReadSSpec

\* Every step keeps the invariant, and sets only what was confirmed.
LEMMA CpuInfoInvStep ==
    ASSUME CpuInfoInv, [CpuInfoNext]_cpuInfoVars
    PROVE  /\ CpuInfoInv'
           /\ \A d \in Cpus : propertiesToSet'[d] # propertiesToSet[d] =>
                  seen'[d] = <<Newest(d)', Newest(d)'>>
<1>1. ASSUME UNCHANGED <<propertyVars, pirom, sSpec, seen>>, DOMAIN ppin' = Cpus
      PROVE  CpuInfoInv' /\ propertiesToSet' = propertiesToSet
  BY <1>1 DEF propertyVars, busVars, CpuInfoInv, PropertiesInv, PropertiesTypeOK,
              NewestArrives, Newest, SpecWasSeen
<1>2. ASSUME NEW c \in Cpus, CpuAddressAnswered(c)
      PROVE  /\ CpuInfoInv'
             /\ \A d \in Cpus : propertiesToSet'[d] # propertiesToSet[d] =>
                    seen'[d] = <<Newest(d)', Newest(d)'>>
  <2>1. CASE UNCHANGED <<propertyVars, address, specVars, ppinVars, changes>>
    <3>1. UNCHANGED <<propertyVars, pirom, sSpec, seen>> /\ DOMAIN ppin' = Cpus
      BY <1>2, <2>1 DEF CpuAddressAnswered, specVars, ppinVars, CpuInfoInv
    <3>. QED
      BY <1>1, <3>1
  <2>2. CASE /\ TryReadSSpec(c, NewSpec(c), loops[c]) /\ Reads(c, << >>, 0)
             /\ \/ PpinLater(c, waits[c]) /\ ppin' = [ppin EXCEPT ![c] = "unread"]
                \/ PpinRead(c, "unread", waits[c])
    <3>1. /\ TryReadSSpec(c, NoSpec, loops[c]) /\ Reads(c, << >>, 0)
          /\ pirom' = pirom /\ DOMAIN ppin' = Cpus
      BY <1>2, <2>2 DEF CpuAddressAnswered, NewSpec, PpinLater, PpinRead, CpuInfoInv
    <3>2. NoSpec \notin Specs /\ << >> \in Seq(Specs)
      BY CpuInfoAssumption
    <3>. QED
      BY <3>1, <3>2, TryReadSSpecInv
  <2>. QED
    BY <1>2, <2>1, <2>2 DEF CpuAddressAnswered
<1>3. ASSUME NEW c \in Cpus, SspecTimer(c)
      PROVE  /\ CpuInfoInv'
             /\ \A d \in Cpus : propertiesToSet'[d] # propertiesToSet[d] =>
                    seen'[d] = <<Newest(d)', Newest(d)'>>
  <2>1. /\ TryReadSSpec(c, sSpec[c], loops[c] - 1) /\ Reads(c, seen[c], ownFails[c])
        /\ pirom' = pirom /\ DOMAIN ppin' = Cpus
    BY <1>3 DEF SspecTimer, ppinVars, CpuInfoInv
  <2>2. /\ sSpec[c] \in Specs \cup {NoCpu, NoSpec} /\ seen[c] \in Seq(Specs)
        /\ SpecWasSeen(c)
    BY DEF CpuInfoInv
  <2>. QED
    BY <2>1, <2>2, TryReadSSpecInv DEF SpecWasSeen
<1>4. ASSUME NEW c \in Cpus, PropertiesStep(c), UNCHANGED <<specVars, ppinVars, pirom>>
      PROVE  CpuInfoInv' /\ propertiesToSet' = propertiesToSet
  <2>1. PropertiesInv'
    BY <1>4, PropertiesStepInv DEF CpuInfoInv
  <2>2. propertiesToSet' = propertiesToSet
    BY <1>4 DEF PropertiesStep, InterfacesAdded, ServeSet, TargetAdded, TargetRemoved
  <2>. QED
    BY <1>4, <2>1, <2>2 DEF specVars, ppinVars, CpuInfoInv, SpecWasSeen
<1>5. ASSUME NEW c \in Cpus, PiromChanges(c)
      PROVE  CpuInfoInv' /\ propertiesToSet' = propertiesToSet
  <2>1. UNCHANGED <<propertyVars, specVars, ppinVars>>
    BY <1>5 DEF PiromChanges
  <2>2. pirom' \in [Cpus -> Contents \cup {NoReply}]
    BY <1>5 DEF PiromChanges, CpuInfoInv
  <2>. QED
    BY <2>1, <2>2 DEF propertyVars, busVars, specVars, ppinVars, CpuInfoInv, PropertiesInv,
                      PropertiesTypeOK, NewestArrives, Newest, SpecWasSeen
<1>6. ASSUME NEW c \in Cpus, WaitTimer(c)
      PROVE  UNCHANGED <<propertyVars, pirom, sSpec, seen>> /\ DOMAIN ppin' = Cpus
  BY <1>6 DEF WaitTimer, PpinRead, specVars, CpuInfoInv
<1>7. ASSUME \/ FilterExpires \/ MapperServes \/ MapperAnswered \/ HostChanges
             \/ \E c \in Cpus : \/ ConfigNoticed(c) \/ GetAllServed(c)
                                \/ \E conf \in Configs : Configure(c, conf)
             \/ UNCHANGED cpuInfoVars
      PROVE  UNCHANGED <<propertyVars, pirom, sSpec, seen>> /\ DOMAIN ppin' = Cpus
  BY <1>7 DEF FilterExpires, MapperServes, MapperAnswered, HostChanges, ConfigNoticed,
              GetAllServed, Configure, cpuInfoVars, specVars, ppinVars, CpuInfoInv
<1>. QED
  BY <1>1, <1>2, <1>3, <1>4, <1>5, <1>6, <1>7 DEF CpuInfoNext, Configuration

\* setCpuProperty is called only with an SSpec that two subsequent successful reads since
\* the CPUInfo was made both gave: loops that an earlier CPUInfo left behind read for the
\* CPUInfo that is there now, and never confirm what its predecessor had read.
THEOREM OnlyConfirmedModels == CpuInfoSpec => ModelWasConfirmed
<1>1. CpuInfoInv /\ [CpuInfoNext]_cpuInfoVars
          => [\A c \in Cpus : propertiesToSet'[c] # propertiesToSet[c] =>
                  seen'[c] = <<Newest(c)', Newest(c)'>>]_cpuInfoVars
  BY CpuInfoInvStep
<1>. QED
  BY <1>1, CpuInfoInvInit, CpuInfoInvStep, PTL DEF CpuInfoSpec, ModelWasConfirmed

\* An object of smbiosmdrv2app that is there, with neither
\* a Set call to it nor the news of it on its way, has the Model that was listed last,
\* however often smbiosmdrv2app dropped and made it.
NewestIsShown ==
    \A c \in Cpus :
        propertiesToSet[c] # << >> /\ sets[c] = << >> /\ added[c] = 0 =>
            model[c] \in {Absent, Newest(c)}

\* The safety part of ModelStays: what setCpuProperty has listed last is what an object
\* shows once nothing is on its way, for any number of CPUs, values and new objects.
THEOREM NewestAlwaysShown == CpuInfoSpec => []NewestIsShown
<1>1. CpuInfoInv => NewestIsShown
  BY DEF CpuInfoInv, PropertiesInv, NewestArrives, NewestIsShown
<1>. QED
  BY <1>1, CpuInfoInvInit, CpuInfoInvStep, PTL DEF CpuInfoSpec

(***************************************************************************)
(* The waits for the PPIN: beside those that were pending when the CPUInfo *)
(* was made there is at most one, and none once the PPIN was read.         *)
(***************************************************************************)
WaitsInv ==
    /\ waits \in [Cpus -> Nat]
    /\ left \in [Cpus -> Nat]
    /\ DOMAIN ppin = Cpus
    /\ \A c \in Cpus : waits[c] <= left[c] + (IF ppin[c] = "unread" THEN 1 ELSE 0)

\* Nothing waits when the application starts.
LEMMA WaitsInvInit == CpuInfoInit => WaitsInv
  BY DEF CpuInfoInit, WaitsInv

\* A wait that is over starts at most one, and none if it reads the PPIN.
LEMMA WaitsInvStep ==
    ASSUME WaitsInv, [CpuInfoNext]_cpuInfoVars
    PROVE  /\ WaitsInv'
           /\ \A c \in Cpus : ppin[c] # "unread" /\ ppin'[c] # ppin[c] =>
                  CpuAddressAnswered(c) \/ left[c] > 0
<1>1. ASSUME NEW c \in Cpus, CpuAddressAnswered(c)
      PROVE  WaitsInv' /\ \A d \in Cpus \ {c} : ppin'[d] = ppin[d]
  <2>1. CASE UNCHANGED ppinVars
    BY <2>1 DEF ppinVars, WaitsInv
  <2>2. CASE /\ left' = [left EXCEPT ![c] = waits[c]]
             /\ PpinLater(c, waits[c]) /\ ppin' = [ppin EXCEPT ![c] = "unread"]
    BY <2>2 DEF PpinLater, WaitsInv
  <2>3. CASE left' = [left EXCEPT ![c] = waits[c]] /\ PpinRead(c, "unread", waits[c])
    BY <2>3 DEF PpinRead, WaitsInv
  <2>. QED
    BY <1>1, <2>1, <2>2, <2>3 DEF CpuAddressAnswered
<1>2. ASSUME NEW c \in Cpus, WaitTimer(c)
      PROVE  /\ WaitsInv'
             /\ \A d \in Cpus \ {c} : ppin'[d] = ppin[d]
             /\ ppin[c] # "unread" => left[c] > 0
  <2>1. /\ waits[c] \in Nat \ {0} /\ left[c] \in Nat
        /\ ppin[c] # "unread" => left[c] > 0
    BY <1>2 DEF WaitTimer, WaitsInv
  <2>2. CASE PpinLater(c, waits[c] - 1) /\ UNCHANGED ppin
    BY <1>2, <2>1, <2>2 DEF WaitTimer, PpinLater, WaitsInv
  <2>3. CASE PpinRead(c, ppin[c], waits[c] - 1)
    <3>1. PICK p : ppin' = [ppin EXCEPT ![c] = p]
      BY <2>3 DEF PpinRead
    <3>2. waits' = [waits EXCEPT ![c] = waits[c] - 1] /\ left' = left
      BY <1>2, <2>3 DEF WaitTimer, PpinRead
    <3>3. waits[c] <= left[c] + 1
      BY <2>1 DEF WaitsInv
    <3>. QED
      BY <2>1, <3>1, <3>2, <3>3 DEF WaitsInv
  <2>. QED
    BY <1>2, <2>2, <2>3 DEF WaitTimer
<1>3. ASSUME ~(\E c \in Cpus : CpuAddressAnswered(c) \/ WaitTimer(c))
      PROVE  UNCHANGED ppinVars
  BY <1>3 DEF CpuInfoNext, Configuration, ConfigNoticed, FilterExpires, MapperServes,
              MapperAnswered, GetAllServed, HostChanges, SspecTimer, PiromChanges,
              Configure, cpuInfoVars
<1>4. CASE \E c \in Cpus : CpuAddressAnswered(c)
  BY <1>1, <1>4
<1>5. CASE \E c \in Cpus : WaitTimer(c)
  BY <1>2, <1>5
<1>6. CASE UNCHANGED ppinVars
  BY <1>6 DEF ppinVars, WaitsInv
<1>. QED
  BY <1>3, <1>4, <1>5, <1>6

\* What getPPIN has read for a CPUInfo stays until the CPUInfo is made anew, unless an
\* earlier CPUInfo had left a wait behind when it was made: no wait is started for a PPIN
\* that was read, however late POST completes and however often GetCPUID fails.
THEOREM PpinStays == CpuInfoSpec => PpinFinal
<1>1. WaitsInv /\ [CpuInfoNext]_cpuInfoVars
          => [\A c \in Cpus : ppin[c] # "unread" /\ ppin'[c] # ppin[c] =>
                  CpuAddressAnswered(c) \/ left[c] > 0]_cpuInfoVars
  BY WaitsInvStep
<1>. QED
  BY <1>1, WaitsInvInit, WaitsInvStep, PTL DEF CpuInfoSpec, PpinFinal
=============================================================================
