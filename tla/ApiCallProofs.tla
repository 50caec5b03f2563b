---------------------------- MODULE ApiCallProofs ----------------------------
(***************************************************************************)
(* InvoiceApi implements ApiCall: timeouts, lost answers, stopped servers, *)
(* repetitions and rivals notwithstanding, a request takes effect at most  *)
(* once, and what its client is told agrees with that.                     *)
(*                                                                         *)
(* What has to be shown is that Effects is what became of a request and    *)
(* changes only when one of its transactions is validated.  At most one    *)
(* ever is, because two transactions of a request are rivals and           *)
(* SingleWinner holds (EffectsAreOneOrNone); then each step of the servers *)
(* has its step of ApiCall (CallsBegin to SubmissionsDoNotShow), and a     *)
(* validation is TakesEffect for the request it belongs to, if any         *)
(* (TransactionsTakeEffect).                                               *)
(***************************************************************************)
EXTENDS InvoiceApiProofs

Happened(c) == \E t \in sent[c] : phase[t] = "VALID"

\* At most one of the transactions of a request is valid.
LEMMA EffectsAreOneOrNone ==
  AInv => \A c \in Clients :
            Effects(c) = IF stage[c] = "idle" \/ Happened(c) THEN 1 ELSE 0
<1> SUFFICES ASSUME AInv, NEW c \in Clients
             PROVE  Effects(c) = IF stage[c] = "idle" \/ Happened(c) THEN 1 ELSE 0
  OBVIOUS
<1> DEFINE V == {t \in sent[c] : phase[t] = "VALID"}
<1>1. ASSUME NEW t \in V, NEW u \in V PROVE t = u
  <2>1. /\ t \in Tx /\ u \in Tx /\ phase[t] = "VALID" /\ phase[u] = "VALID"
        /\ tx[t].op = tx[u].op /\ tx[t].id = tx[u].id
    BY <1>1 DEF AInv, SentOK, SentFor, MadeFrom, CallsOK
  <2> QED
    BY <2>1 DEF AInv, IInv, SingleWinner, Rivals
<1>2. CASE V = {}
  <2>1. Cardinality(V) = 0
    BY <1>2, FS_EmptySet
  <2> QED
    BY <1>2, <2>1 DEF Effects, Happened
<1>3. CASE V # {}
  <2>1. PICK t \in V : TRUE
    BY <1>3
  <2>2. V = {t}
    BY <1>1, <2>1
  <2>3. Cardinality(V) = 1
    BY <2>2, FS_Singleton
  <2> QED
    BY <2>1, <2>3 DEF Effects, Happened
<1> QED
  BY <1>2, <1>3

LEMMA NextEffectsAreOneOrNone ==
  AInv' => \A c \in Clients :
             Effects(c)' = IF stage'[c] = "idle" \/ Happened(c)' THEN 1 ELSE 0
<1>1. (AInv => \A c \in Clients :
                 Effects(c) = IF stage[c] = "idle" \/ Happened(c) THEN 1 ELSE 0)'
  BY EffectsAreOneOrNone, PTL
<1> QED
  BY <1>1

\* What a client has been told, stage by stage.
LEMMA ToldByStage ==
  CallsOK => \A c \in Clients :
    /\ stage[c] = "idle" => Told(c) = "OK"
    /\ stage[c] \in InFlight => Told(c) = "nothing"
    /\ answer[c] \in {"200", "201"} => Told(c) = "OK"
    /\ answer[c] \in Unknowns => Told(c) = "unknown"
    /\ answer[c] \in Verdicts \ {"200", "201"} => Told(c) = "refused"
<1> SUFFICES ASSUME CallsOK, NEW c \in Clients
             PROVE  /\ stage[c] = "idle" => Told(c) = "OK"
                    /\ stage[c] \in InFlight => Told(c) = "nothing"
                    /\ answer[c] \in {"200", "201"} => Told(c) = "OK"
                    /\ answer[c] \in Unknowns => Told(c) = "unknown"
                    /\ answer[c] \in Verdicts \ {"200", "201"} => Told(c) = "refused"
  OBVIOUS
<1>1. stage[c] = "answered" <=> answer[c] # "none"
  BY DEF CallsOK
<1> QED
  BY <1>1 DEF Told, InFlight, Unknowns, Verdicts

LEMMA NextToldByStage ==
  CallsOK' => \A c \in Clients :
    /\ stage'[c] = "idle" => Told(c)' = "OK"
    /\ stage'[c] \in InFlight => Told(c)' = "nothing"
    /\ answer'[c] \in {"200", "201"} => Told(c)' = "OK"
    /\ answer'[c] \in Unknowns => Told(c)' = "unknown"
    /\ answer'[c] \in Verdicts \ {"200", "201"} => Told(c)' = "refused"
<1>1. InFlight' = InFlight /\ Unknowns' = Unknowns /\ Verdicts' = Verdicts
  BY DEF InFlight, Unknowns, Verdicts
<1>2. (CallsOK => \A c \in Clients :
    /\ stage[c] = "idle" => Told(c) = "OK"
    /\ stage[c] \in InFlight => Told(c) = "nothing"
    /\ answer[c] \in {"200", "201"} => Told(c) = "OK"
    /\ answer[c] \in Unknowns => Told(c) = "unknown"
    /\ answer[c] \in Verdicts \ {"200", "201"} => Told(c) = "refused")'
  BY ToldByStage, PTL
<1> QED
  BY <1>1, <1>2

LEMMA CallsBegin ==
  ASSUME CallsOK, CallsOK', NEW c \in Clients, NEW q \in Requests, Send(c, q)
  PROVE  Atomic!Ask(c)
<1>1. Told(c) # "nothing" /\ Told(c)' = "nothing" /\ Effects(c)' = 0
  <2>1. /\ stage[c] \notin InFlight /\ stage'[c] = "handling" /\ sent'[c] = {}
    BY DEF Send, CallsOK
  <2>2. Told(c) # "nothing"
    <3>1. \/ stage[c] = "idle" \/ answer[c] \in {"200", "201"}
          \/ answer[c] \in Unknowns \/ answer[c] \in Verdicts \ {"200", "201"}
      BY <2>1 DEF CallsOK
    <3> QED
      BY <3>1, ToldByStage
  <2>3. {t \in sent'[c] : phase'[t] = "VALID"} = {}
    BY <2>1
  <2> QED
    BY <2>1, <2>2, <2>3, NextToldByStage, FS_EmptySet DEF Effects, InFlight
<1>2. \A d \in Clients \ {c} : Told(d)' = Told(d) /\ Effects(d)' = Effects(d)
  BY DEF Send, CallsOK, vars, Told, Effects
<1> QED
  BY <1>1, <1>2 DEF Atomic!Ask

LEMMA CallsAreRepeated ==
  ASSUME CallsOK, CallsOK', NEW c \in Clients, Repeat(c)
  PROVE  Atomic!Repeat(c)
<1>1. /\ stage[c] = "answered" /\ answer[c] \in Unknowns /\ stage'[c] = "handling"
  BY DEF Repeat, CallsOK, Unknowns
<1>2. Told(c) = "unknown" /\ Told(c)' = "nothing"
  BY <1>1, ToldByStage, NextToldByStage DEF InFlight
<1>3. \A d \in Clients \ {c} : Told(d)' = Told(d)
  BY DEF Repeat, CallsOK, Told
<1>4. \A d \in Clients : Effects(d)' = Effects(d)
  BY <1>1 DEF Repeat, CallsOK, vars, Effects
<1> QED
  BY <1>2, <1>3, <1>4 DEF Atomic!Repeat

LEMMA CallsEnd ==
  ASSUME AInv, AInv', NEW c \in Clients, Ends(c)
  PROVE  Atomic!Next
<1>1. /\ stage[c] \in InFlight /\ stage'[c] = "answered"
      /\ answer'[c] \in Verdicts \cup Unknowns
      /\ UNCHANGED <<vars, sent>>
      /\ \A d \in Clients \ {c} : UNCHANGED <<stage[d], answer[d]>>
  BY EndsWithACode DEF AInv, CallsOK, network
<1>2. /\ Told(c) = "nothing" /\ \A d \in Clients \ {c} : Told(d)' = Told(d)
      /\ answer'[c] \in {"200", "201"} => Told(c)' = "OK"
      /\ answer'[c] \in Unknowns => Told(c)' = "unknown"
      /\ answer'[c] \notin Unknowns \cup {"200", "201"} => Told(c)' = "refused"
  <2>1. \A d \in Clients \ {c} : Told(d)' = Told(d)
    BY <1>1 DEF Told
  <2> QED
    BY <1>1, <2>1, ToldByStage, NextToldByStage DEF AInv
<1>3. \A d \in Clients : Effects(d)' = Effects(d)
  BY <1>1 DEF vars, Effects, InFlight
<1>4. CASE answer'[c] \in {"200", "201"}
  <2>1. PICK t \in sent'[c] : view'[call'[c].org].code[t] = "VALID"
    BY <1>4 DEF AInv, SuccessIsCommitted
  <2>2. t \in Tx /\ call'[c].org \in MSPs
    BY <1>1, RequestFields DEF AInv, CallsOK
  <2>3. Happened(c)'
    BY <2>1, <2>2 DEF AInv, PeersOK, Genuine, Happened
  <2>4. Effects(c) = 1
    BY <1>3, <2>3, NextEffectsAreOneOrNone
  <2>5. Atomic!SayOK(c)
    BY <1>2, <1>3, <1>4, <2>4 DEF Atomic!SayOK
  <2> QED
    BY <2>5 DEF Atomic!Next
<1>5. CASE answer'[c] \in Unknowns
  <2>1. Atomic!LeaveUnknown({c})
    BY <1>2, <1>3, <1>5 DEF Atomic!LeaveUnknown
  <2>2. {c} \in SUBSET Clients
    OBVIOUS
  <2> QED
    BY <2>1, <2>2 DEF Atomic!Next
<1>6. CASE answer'[c] \notin Unknowns \cup {"200", "201"}
  <2>1. Atomic!Refuse(c)
    BY <1>2, <1>3, <1>6 DEF Atomic!Refuse
  <2> QED
    BY <2>1 DEF Atomic!Next
<1> QED
  BY <1>4, <1>5, <1>6

LEMMA CallsAreCutOff ==
  ASSUME CallsOK, CallsOK', NEW org \in MSPs, ServerStops(org)
  PROVE  Atomic!Next
<1> DEFINE C == {c \in Clients : stage[c] \in InFlight /\ call[c].org = org}
<1>1. /\ \A c \in C : Told(c) = "nothing" /\ Told(c)' = "unknown"
      /\ \A c \in Clients \ C : Told(c)' = Told(c)
  <2>1. \A c \in C : stage[c] \in InFlight /\ answer'[c] \in Unknowns
    BY DEF ServerStops, Unknowns
  <2>2. \A c \in Clients \ C : Told(c)' = Told(c)
    BY DEF ServerStops, Told
  <2> QED
    BY <2>1, <2>2, ToldByStage, NextToldByStage
<1>2. \A d \in Clients : Effects(d)' = Effects(d)
  BY DEF ServerStops, vars, Effects, InFlight
<1>3. C \in SUBSET Clients
  OBVIOUS
<1> HIDE DEF C
<1>4. Atomic!LeaveUnknown(C)
  BY <1>1, <1>2, <1>3 DEF Atomic!LeaveUnknown
<1> QED
  BY <1>3, <1>4 DEF Atomic!Next

LEMMA SubmissionsDoNotShow ==
  ASSUME AInv, AInv', NEW c \in Clients, Submit(c)
  PROVE  \A d \in Clients : Told(d)' = Told(d) /\ Effects(d)' = Effects(d)
<1>1. PICK t \in Tx :
        /\ phase[t] = "idle" /\ phase' = [phase EXCEPT ![t] = "endorsed"]
        /\ sent' = [sent EXCEPT ![c] = @ \cup {t}]
  BY SubmitSends DEF AInv
<1>2. /\ stage[c] = "handling" /\ stage'[c] = "waiting"
      /\ \A d \in Clients \ {c} : stage'[d] = stage[d]
      /\ answer' = answer
  BY DEF Submit, AInv, CallsOK
<1>3. \A d \in Clients : Told(d)' = Told(d)
  BY <1>2 DEF Told, InFlight
<1>4. /\ phase'[t] = "endorsed" /\ \A u \in Tx \ {t} : phase'[u] = phase[u]
      /\ sent'[c] = sent[c] \cup {t}
      /\ \A d \in Clients \ {c} : sent'[d] = sent[d]
      /\ \A d \in Clients : sent[d] \subseteq Tx
  BY <1>1 DEF AInv, IInv, TypeOK, CallsOK
<1>5. ASSUME NEW d \in Clients PROVE Happened(d)' <=> Happened(d)
  BY <1>1, <1>4 DEF Happened
<1>6. \A d \in Clients : Effects(d)' = Effects(d)
  BY <1>2, <1>5, EffectsAreOneOrNone, NextEffectsAreOneOrNone
<1> QED
  BY <1>3, <1>6

\* A transaction becomes valid: if it is one that a client has sent, then the
\* client has not been told yet, or does not know.
LEMMA TransactionsTakeEffect ==
  ASSUME AInv, AInv', NEW t \in Tx, ValidateBlock(t)
  PROVE  \/ Atomic!Next
         \/ \A d \in Clients : Told(d)' = Told(d) /\ Effects(d)' = Effects(d)
<1>1. /\ UNCHANGED <<call, stage, sent, answer>>
      /\ \A u \in Tx \ {t} : phase'[u] = phase[u]
      /\ phase[t] = "endorsed" /\ tx' = tx
  BY DEF ValidateBlock, Validate, FailEndorsement, FailMVCC, Commit, AInv, IInv, TypeOK
<1>2. \A d \in Clients : Told(d)' = Told(d) /\ sent[d] \subseteq Tx
  BY <1>1 DEF Told, AInv, CallsOK
<1>3. CASE \E c \in Clients : t \in sent[c] /\ phase'[t] = "VALID"
  <2>1. PICK c \in Clients : t \in sent[c] /\ phase'[t] = "VALID"
    BY <1>3
  <2>2. \A d \in Clients \ {c} : t \notin sent[d]
    BY <2>1 DEF AInv, SentOK
  <2>3. \A d \in Clients \ {c} : Happened(d)' <=> Happened(d)
    BY <1>1, <1>2, <2>2 DEF Happened
  <2>4. \A d \in Clients \ {c} : Effects(d)' = Effects(d)
    BY <1>1, <2>3, EffectsAreOneOrNone, NextEffectsAreOneOrNone
  <2>5. Effects(c)' = 1
    BY <1>1, <2>1, NextEffectsAreOneOrNone DEF Happened
  <2>6. ASSUME NEW s \in sent[c], NEW u \in Tx, phase[u] = "VALID", u = s \/ Rivals(s, u)
        PROVE  FALSE
    <3>1. u # t /\ phase'[u] = "VALID" /\ s \in Tx
      BY <1>1, <1>2, <2>6
    <3>2. tx[s].op = tx[t].op /\ tx[s].id = tx[t].id
      BY <2>1 DEF AInv, SentOK, SentFor, MadeFrom
    <3>3. Rivals(t, u)
      BY <2>6, <3>2 DEF Rivals
    <3>4. Rivals(t, u)'
      BY <1>1, <3>3 DEF Rivals
    <3> QED
      BY <2>1, <3>1, <3>4 DEF AInv, IInv, SingleWinner
  <2>7. stage[c] # "idle" /\ Effects(c) = 0
    <3>1. stage[c] # "idle"
      BY <2>1 DEF AInv, CallsOK
    <3>2. ~Happened(c)
      BY <1>2, <2>6 DEF Happened
    <3> QED
      BY <3>1, <3>2, EffectsAreOneOrNone
  <2>8. Told(c) \in {"nothing", "unknown"}
    <3>1. CASE stage[c] \in InFlight
      BY <3>1, ToldByStage DEF AInv
    <3>2. CASE stage[c] = "answered"
      <4>1. answer[c] \notin {"200", "201"}
        <5> SUFFICES ASSUME answer[c] \in {"200", "201"} PROVE FALSE
          OBVIOUS
        <5>1. PICK s \in sent[c] : view[call[c].org].code[s] = "VALID"
          BY DEF AInv, SuccessIsCommitted
        <5>2. s \in Tx /\ call[c].org \in MSPs
          BY <1>2, <2>7, RequestFields DEF AInv, CallsOK
        <5>3. phase[s] = "VALID"
          BY <5>1, <5>2 DEF AInv, PeersOK, Genuine
        <5> QED
          BY <2>6, <5>2, <5>3
      <4>2. answer[c] \notin Verdicts \ {"200", "201"}
        <5> SUFFICES ASSUME answer[c] \in Verdicts \ {"200", "201"} PROVE FALSE
          OBVIOUS
        <5>1. \E s \in sent[c], u \in Tx : phase[u] = "VALID" /\ (u = s \/ Rivals(s, u))
          BY <2>1, <3>2 DEF AInv, RepeatsAreResolved
        <5> QED
          BY <2>6, <5>1
      <4>3. answer[c] \in Unknowns
        BY <3>2, <4>1, <4>2 DEF AInv, CallsOK
      <4> QED
        BY <4>3, ToldByStage DEF AInv
    <3> QED
      BY <2>7, <3>1, <3>2 DEF AInv, CallsOK
  <2>9. Atomic!TakeEffect(c)
    BY <1>2, <2>4, <2>5, <2>7, <2>8 DEF Atomic!TakeEffect
  <2> QED
    BY <2>9 DEF Atomic!Next
<1>4. CASE ~\E c \in Clients : t \in sent[c] /\ phase'[t] = "VALID"
  <2>1. \A d \in Clients : Happened(d)' <=> Happened(d)
    BY <1>1, <1>2, <1>4 DEF Happened
  <2>2. \A d \in Clients : Effects(d)' = Effects(d)
    BY <1>1, <2>1, EffectsAreOneOrNone, NextEffectsAreOneOrNone
  <2> QED
    BY <1>2, <2>2
<1> QED
  BY <1>3, <1>4

(***************************************************************************)
(* Timeouts, lost answers, stopped servers, repetitions and races          *)
(* notwithstanding, the servers implement the atomic requests of ApiCall:  *)
(* no request takes effect twice, no 2xx precedes the effect, and after a  *)
(* 4xx there is none to come.                                              *)
(***************************************************************************)
THEOREM ImplementsTheCalls == ApiSpec => ImplementsCalls
<1> DEFINE book == <<[c \in Clients |-> Told(c)], [c \in Clients |-> Effects(c)]>>
<1>1. ApiInit => Atomic!Init
  BY InitAInv, ToldByStage DEF AInv, ApiInit, Atomic!Init, Effects
<1>2. AInv /\ [ApiNext]_apiVars => [Atomic!Next]_book
  <2> SUFFICES ASSUME AInv, [ApiNext]_apiVars PROVE [Atomic!Next]_book
    OBVIOUS
  <2>1. AInv' /\ CallsOK /\ CallsOK'
    BY NextAInv DEF AInv
  <2>2. ASSUME \A d \in Clients : Told(d)' = Told(d) /\ Effects(d)' = Effects(d)
        PROVE  UNCHANGED book
    BY <2>2
  <2>3. ASSUME NEW c \in Clients, NEW q \in Requests, Send(c, q) PROVE Atomic!Next
    BY <2>1, <2>3, CallsBegin DEF Atomic!Next
  <2>4. ASSUME NEW c \in Clients, Repeat(c) PROVE Atomic!Next
    BY <2>1, <2>4, CallsAreRepeated DEF Atomic!Next
  <2>5. ASSUME NEW c \in Clients, Ends(c) PROVE Atomic!Next
    BY <2>1, <2>5, CallsEnd
  <2>6. ASSUME NEW org \in MSPs, ServerStops(org) PROVE Atomic!Next
    BY <2>1, <2>6, CallsAreCutOff
  <2>7. ASSUME NEW c \in Clients, Submit(c) PROVE UNCHANGED book
    BY <2>1, <2>2, <2>7, SubmissionsDoNotShow
  <2>8. ASSUME NEW t \in Tx, ValidateBlock(t) PROVE Atomic!Next \/ UNCHANGED book
    BY <2>1, <2>2, <2>8, TransactionsTakeEffect
  <2>9. ASSUME UNCHANGED <<phase, stage, sent, answer>> PROVE UNCHANGED book
    BY <2>2, <2>9 DEF Told, Effects
  <2>10. ASSUME NEW b \in SUBSET Tx, Order(b) PROVE UNCHANGED <<phase, stage, sent, answer>>
    BY <2>10 DEF Order, CutBlock, apiState
  <2>11. ASSUME NEW m \in MSPs, PeerCommits(m) PROVE UNCHANGED <<phase, stage, sent, answer>>
    BY <2>11 DEF PeerCommits, vars
  <2>12. CASE UNCHANGED apiVars
    BY <2>9, <2>12 DEF apiVars, apiState, vars
  <2> HIDE DEF book
  <2> QED
    BY <2>3, <2>4, <2>5, <2>6, <2>7, <2>8, <2>9, <2>10, <2>11, <2>12
       DEF ApiNext, Serve, Ends
<1> QED
  BY <1>1, <1>2, ApiInvariance, PTL DEF ApiSpec, ImplementsCalls, Atomic!Spec
=============================================================================
