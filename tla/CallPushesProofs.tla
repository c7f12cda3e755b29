---------------------------- MODULE CallPushesProofs ----------------------------
(***************************************************************************)
(* Theorems about CallPushes, for any agents, devices and push services,   *)
(* any number of notifications, attempts and extras.                       *)
(***************************************************************************)
EXTENDS CallPushes, TLAPS

USE DevicesAssumption, HomeAssumption, BoundsAssumption

-----------------------------------------------------------------------------
(* The records.                                                            *)

(* A device whose app renews its token.                                    *)
LEMMA Renewed ==
    ASSUME NEW p \in Phones, p.token + 1 \in Token
    PROVE  LET f == [p EXCEPT !.token = @ + 1, !.due = TRUE]
           IN  f \in Phones /\ f.user = p.user /\ f.token = p.token + 1 /\ f.due /\ (f.ring <=> p.ring)
  BY DEF Phones

(* A device on which another agent signs in.                               *)
LEMMA SignedIn ==
    ASSUME NEW p \in Phones, NEW a \in Agents
    PROVE  LET f == [p EXCEPT !.user = a, !.due = TRUE]
           IN  f \in Phones /\ f.user = a /\ f.token = p.token /\ f.due /\ (f.ring <=> p.ring)
  BY DEF Phones

(* A device on which its agent signs out.                                  *)
LEMMA SignedOut ==
    ASSUME NEW p \in Phones
    PROVE  LET f == [p EXCEPT !.user = None, !.due = FALSE]
           IN  f \in Phones /\ f.user = None /\ f.token = p.token /\ ~f.due /\ (f.ring <=> p.ring)
  BY DEF Phones

(* A device whose registration is due, or no longer so.                    *)
LEMMA Due ==
    ASSUME NEW p \in Phones, NEW b \in BOOLEAN
    PROVE  LET f == [p EXCEPT !.due = b]
           IN  f \in Phones /\ f.user = p.user /\ f.token = p.token /\ (f.due <=> b)
               /\ (f.ring <=> p.ring)
  BY DEF Phones

(* A device that rings, or no longer does.                                 *)
LEMMA Ringing ==
    ASSUME NEW p \in Phones, NEW b \in BOOLEAN
    PROVE  LET f == [p EXCEPT !.ring = b]
           IN  f \in Phones /\ f.user = p.user /\ f.token = p.token /\ (f.due <=> p.due)
               /\ (f.ring <=> b)
  BY DEF Phones

-----------------------------------------------------------------------------
(* What a step may leave as it is.                                         *)

(* No device changes its agent, its token or its registration.             *)
SameDevices == \A d \in Devices :
    /\ phone'[d].user = phone[d].user /\ phone'[d].token = phone[d].token
    /\ phone'[d].due <=> phone[d].due

(* A step of the call or of a push leaves the register as it is, but for   *)
(* what it asks to be deleted.                                             *)
LEMMA RegisterRests ==
    ASSUME IInv, SameDevices, row' = row, storing' = storing,
           sends' \subseteq Pushes, \A s \in sends' : s.token <= phone[s.device].token,
           removing' \subseteq [device : Devices, token : Token],
           \A t \in removing' : t.token < phone[t.device].token,
           extras' \in Nat, extras <= extras', round' <= extras' + 1
    PROVE  TokensInv' /\ RegisterInv'
  <1>1. \A s \in storing : s.device \in Devices
    BY DEF IInv, TypeOK, Registrations
  <1>2. \A s \in sends' : s.device \in Devices
    BY DEF Pushes
  <1>3. TokensInv'
    <2>1. \A d \in Devices : phone'[d].token \in 1 .. extras' + 1
      BY DEF IInv, TypeOK, TokensInv, SameDevices
    <2>2. \A a \in Agents, d \in Devices : row'[a][d] <= phone'[d].token
      BY DEF IInv, TokensInv, SameDevices
    <2>3. \A s \in storing' : s.token # 0 /\ s.token <= phone'[s.device].token
      BY <1>1 DEF IInv, TokensInv, SameDevices
    <2>4. \A s \in sends' : s.token <= phone'[s.device].token
      BY <1>2 DEF SameDevices
    <2>5. \A t \in removing' : t.token < phone'[t.device].token
      BY DEF SameDevices
    <2> QED
      BY <2>1, <2>2, <2>3, <2>4, <2>5 DEF TokensInv
  <1>4. RegisterInv'
    <2>1. \A d \in Devices : phone'[d].due => phone'[d].user # None
      BY DEF IInv, RegisterInv, SameDevices
    <2>2. \A d \in Devices : \A a, b \in Agents :
              row'[a][d] = phone'[d].token /\ row'[b][d] = phone'[d].token => a = b
      BY DEF IInv, RegisterInv, SameDevices
    <2>3. \A s \in storing' : \A b \in Agents :
              s.token = phone'[s.device].token /\ row'[b][s.device] = s.token => b = s.agent
      BY <1>1 DEF IInv, RegisterInv, SameDevices
    <2>4. \A s \in storing' : ~phone'[s.device].due =>
              s.agent = phone'[s.device].user /\ s.token = phone'[s.device].token
      BY <1>1 DEF IInv, RegisterInv, SameDevices
    <2>5. \A d \in Devices : phone'[d].user # None /\ ~phone'[d].due =>
              row'[phone'[d].user][d] = phone'[d].token \/ \E s \in storing' : s.device = d
      BY DEF IInv, RegisterInv, SameDevices
    <2>6. \A s, t \in storing' : s.device = t.device => s = t
      BY DEF IInv, RegisterInv
    <2> QED
      BY <2>1, <2>2, <2>3, <2>4, <2>5, <2>6 DEF RegisterInv
  <1> QED
    BY <1>3, <1>4

(* A step of a push sends nothing new for the answer.                      *)
LEMMA AnswerRests ==
    ASSUME IInv, SameDevices, call' = call, row' = row, storing' = storing, notices' \subseteq notices,
           \A s \in sends' : s.why \in Answering =>
               \E r \in sends : r.why = s.why /\ r.device = s.device /\ r.token = s.token
    PROVE  AnswerInv'
  <1>1. call.status \in {"waiting", "ringing"} => \A m \in (notices \cup sends)' : m.why \notin Answering
    BY DEF IInv, AnswerInv
  <1>2. call.status = "answered" =>
            /\ call.agent \in Agents /\ call.on \in Devices /\ phone'[call.on].user = call.agent
            /\ \A n \in notices' : /\ n.why = "resolved" => n.but = call.on
                                   /\ n.why = "taken" => call.agent \notin n.ids
    BY DEF IInv, AnswerInv, SameDevices
  <1>3. ASSUME call.status = "answered", call.known
        PROVE  /\ \A b \in Agents : row'[b][call.on] = phone'[call.on].token => b = call.agent
               /\ \A s \in storing' :
                      s.device = call.on /\ s.token = phone'[call.on].token => s.agent = call.agent
               /\ \A s \in sends' : s.why \in Answering /\ s.device = call.on
                                       => s.token # phone'[call.on].token
    <2>1. phone'[call.on].token = phone[call.on].token
      BY <1>2, <1>3 DEF SameDevices
    <2> QED
      BY <1>3, <2>1 DEF IInv, AnswerInv
  <1> QED
    BY <1>1, <1>2, <1>3 DEF AnswerInv

(* A device that rings on is still to be stopped.                          *)
RingsOn(d) ==
    /\ d \notin untold /\ phone'[d].user = phone[d].user
    /\ row'[Home[d]][d] # 0 /\ \A t \in removing' : t.device # d

(* A step of a device leaves the rings as they are.                        *)
LEMMA RingRests ==
    ASSUME IInv, UNCHANGED <<call, notices, sends>>,
           \A d \in Devices : phone'[d].ring <=> phone[d].ring,
           \A d \in Devices \ untold' : RingsOn(d)
    PROVE  RingInv'
  <1>1. \A d \in Devices : Stopping(d) => Stopping(d)'
    BY DEF Stopping
  <1>2. ASSUME NEW d \in Devices \ untold'
        PROVE  /\ d \notin Web /\ phone'[d].user = Home[d] /\ row'[Home[d]][d] # 0
               /\ \A t \in removing' : t.device # d
               /\ phone'[d].ring => Home[d] \in call'.offered \/ Stopping(d)'
    <2>1. d \in Devices /\ d \notin untold /\ RingsOn(d)
      BY DEF RingsOn
    <2>2. d \notin Web /\ phone[d].user = Home[d] /\ (phone[d].ring => Home[d] \in call.offered \/ Stopping(d))
      BY <2>1 DEF IInv, RingInv
    <2> QED
      BY <1>1, <2>1, <2>2 DEF RingsOn
  <1>3. (call.status # "ringing" => call.offered = {})' /\ (call.agent # None => call.offered \subseteq {call.agent})'
    BY DEF IInv, RingInv
  <1> QED
    BY <1>2, <1>3 DEF RingInv

-----------------------------------------------------------------------------
(* The register of tokens.                                                 *)

(* One more of the extras.                                                 *)
LEMMA ExtraCounts == IInv /\ Extra => /\ extras' \in 0 .. MaxExtras /\ extras' = extras + 1
                                     /\ extras < MaxExtras /\ extras \in Nat
  BY DEF IInv, TypeOK, Extra

(* The app renews its token.                                               *)
LEMMA RenewTokenStep ==
    ASSUME IInv, NEW d \in Devices, RenewToken(d) PROVE IInv'
  <1>1. /\ UNCHANGED <<call, round, row, storing, removing, notices, sends, untold>>
        /\ extras' \in 0 .. MaxExtras /\ extras' = extras + 1 /\ extras < MaxExtras
        /\ phone[d].user # None
    BY ExtraCounts DEF RenewToken, Move, registry
  <1>2. /\ phone \in [Devices -> Phones] /\ phone[d].token \in 1 .. extras + 1 /\ extras \in Nat
    BY DEF IInv, TypeOK, TokensInv
  <1>3. phone[d].token + 1 \in Token
    BY <1>1, <1>2 DEF Token
  <1>4. PICK f \in Phones : /\ f.user = phone[d].user /\ f.token = phone[d].token + 1 /\ f.due
                            /\ (f.ring <=> phone[d].ring) /\ phone' = [phone EXCEPT ![d] = f]
    BY <1>2, <1>3, Renewed DEF RenewToken, Move
  <1>5. \A e \in Devices : e # d => phone'[e] = phone[e]
    BY <1>2, <1>4
  <1>6. phone'[d] = f /\ phone' \in [Devices -> Phones]
    BY <1>2, <1>4
  <1>7. TypeOK'
    BY <1>1, <1>6 DEF IInv, TypeOK
  <1>8. /\ \A s \in storing : s.device \in Devices
        /\ \A s \in sends : s.device \in Devices
        /\ \A t \in removing : t.device \in Devices /\ t.token \in Nat
        /\ \A e \in Devices : phone[e].token \in Nat /\ \A a \in Agents : row[a][e] \in Nat
        /\ \A s \in storing \cup sends : s.token \in Nat
    BY DEF IInv, TypeOK, Registrations, Pushes, Phones, Token
  <1>9. TokensInv'
    <2>1. \A e \in Devices : phone'[e].token \in 1 .. extras' + 1 /\ phone[e].token <= phone'[e].token
      BY <1>1, <1>2, <1>4, <1>5, <1>6 DEF IInv, TokensInv
    <2>2. round' <= extras' + 1
      BY <1>1, <1>2 DEF IInv, TokensInv, TypeOK
    <2>3. \A a \in Agents, e \in Devices : row[a][e] <= phone'[e].token
      BY <1>8, <2>1 DEF IInv, TokensInv
    <2>4. \A s \in storing : s.token # 0 /\ s.token <= phone'[s.device].token
      BY <1>8, <2>1 DEF IInv, TokensInv
    <2>5. \A s \in sends : s.token <= phone'[s.device].token
      BY <1>8, <2>1 DEF IInv, TokensInv
    <2>6. \A t \in removing : t.token < phone'[t.device].token
      BY <1>8, <2>1 DEF IInv, TokensInv
    <2> QED
      BY <1>1, <2>1, <2>2, <2>3, <2>4, <2>5, <2>6 DEF TokensInv
  <1>10. /\ \A a \in Agents : row[a][d] # phone'[d].token
         /\ \A s \in storing \cup sends : s.device = d => s.token # phone'[d].token
    BY <1>2, <1>4, <1>6, <1>8 DEF IInv, TokensInv
  <1>11. RegisterInv'
    BY <1>1, <1>4, <1>5, <1>6, <1>8, <1>10 DEF IInv, RegisterInv
  <1>12. AnswerInv'
    BY <1>1, <1>4, <1>5, <1>6, <1>10 DEF IInv, AnswerInv
  <1>13. RingInv'
    <2>1. \A e \in Devices : phone'[e].ring <=> phone[e].ring
      BY <1>4, <1>5, <1>6
    <2>2. \A e \in Devices \ untold' : RingsOn(e)
      BY <1>1, <1>4, <1>5, <1>6 DEF RingsOn, IInv, RingInv
    <2> QED
      BY <1>1, <2>1, <2>2, RingRests
  <1> QED
    BY <1>7, <1>9, <1>11, <1>12, <1>13 DEF IInv

(* Another agent signs in.                                                 *)
LEMMA SignInStep ==
    ASSUME IInv, NEW d \in Devices, NEW a \in Agents, SignIn(d, a) PROVE IInv'
  <1>1. /\ UNCHANGED <<call, round, row, storing, removing, notices, sends>>
        /\ extras' \in 0 .. MaxExtras /\ extras' = extras + 1 /\ call.on # d
        /\ untold' = untold \cup {d}
    BY ExtraCounts DEF SignIn, Move, registry
  <1>2. phone \in [Devices -> Phones] /\ extras \in Nat /\ round <= extras + 1 /\ round \in Nat
    BY DEF IInv, TypeOK, TokensInv
  <1>3. PICK f \in Phones : /\ f.user = a /\ f.token = phone[d].token /\ f.due
                            /\ (f.ring <=> phone[d].ring) /\ phone' = [phone EXCEPT ![d] = f]
    <2>1. phone[d] \in Phones
      BY <1>2
    <2>2. phone' = [phone EXCEPT ![d] = [phone[d] EXCEPT !.user = a, !.due = TRUE]]
      BY DEF SignIn, Move
    <2>3. LET f == [phone[d] EXCEPT !.user = a, !.due = TRUE]
          IN  f \in Phones /\ f.user = a /\ f.token = phone[d].token /\ f.due
              /\ (f.ring <=> phone[d].ring)
      BY <2>1, SignedIn
    <2> QED
      BY <2>2, <2>3
  <1>4. /\ \A e \in Devices : e # d => phone'[e] = phone[e]
        /\ phone'[d] = f /\ phone' \in [Devices -> Phones]
    BY <1>2, <1>3
  <1>5. TypeOK'
    BY <1>1, <1>4 DEF IInv, TypeOK
  <1>6. /\ \A s \in storing : s.device \in Devices
        /\ \A s \in sends : s.device \in Devices
        /\ \A t \in removing : t.device \in Devices
    BY DEF IInv, TypeOK, Registrations, Pushes
  <1>7. \A e \in Devices : phone'[e].token = phone[e].token /\ phone[e].token \in 1 .. extras' + 1
    BY <1>1, <1>2, <1>3, <1>4 DEF IInv, TokensInv
  <1>8. TokensInv'
    BY <1>1, <1>2, <1>6, <1>7 DEF IInv, TokensInv
  <1>9. RegisterInv'
    BY <1>1, <1>3, <1>4, <1>6, <1>7 DEF IInv, RegisterInv
  <1>10. AnswerInv'
    BY <1>1, <1>4 DEF IInv, AnswerInv
  <1>11. RingInv'
    <2>1. \A e \in Devices : phone'[e].ring <=> phone[e].ring
      BY <1>3, <1>4
    <2>2. \A e \in Devices \ untold' : RingsOn(e)
      BY <1>1, <1>4 DEF RingsOn, IInv, RingInv
    <2> QED
      BY <1>1, <2>1, <2>2, RingRests
  <1> QED
    BY <1>5, <1>8, <1>9, <1>10, <1>11 DEF IInv

(* One cell of the register changes.                                       *)
LEMMA OneCell ==
    ASSUME row \in [Agents -> [Devices -> Token]], NEW a \in Agents, NEW d \in Devices,
           NEW v \in Token, row' = [row EXCEPT ![a][d] = v]
    PROVE  /\ row' \in [Agents -> [Devices -> Token]] /\ row'[a][d] = v
           /\ \A b \in Agents, e \in Devices : b # a \/ e # d => row'[b][e] = row[b][e]
  OBVIOUS

(* The agent signs out, and the device's row goes.                         *)
LEMMA UnregisterDeviceStep ==
    ASSUME IInv, NEW d \in Devices, UnregisterDevice(d) PROVE IInv'
  <1>1. /\ UNCHANGED <<call, round, storing, removing, notices, sends>>
        /\ extras' \in 0 .. MaxExtras /\ extras' = extras + 1 /\ call.on # d
        /\ untold' = untold \cup {d} /\ phone[d].user # None /\ \A s \in storing : s.device # d
    BY ExtraCounts DEF UnregisterDevice, Move
  <1>2. phone \in [Devices -> Phones] /\ extras \in Nat /\ round <= extras + 1 /\ round \in Nat
    BY DEF IInv, TypeOK, TokensInv
  <1>3. PICK f \in Phones : /\ f.user = None /\ f.token = phone[d].token /\ ~f.due
                            /\ (f.ring <=> phone[d].ring) /\ phone' = [phone EXCEPT ![d] = f]
    <2>1. phone[d] \in Phones
      BY <1>2
    <2>2. phone' = [phone EXCEPT ![d] = [phone[d] EXCEPT !.user = None, !.due = FALSE]]
      BY DEF UnregisterDevice, Move
    <2>3. LET f == [phone[d] EXCEPT !.user = None, !.due = FALSE]
          IN  f \in Phones /\ f.user = None /\ f.token = phone[d].token /\ ~f.due
              /\ (f.ring <=> phone[d].ring)
      BY <2>1, SignedOut
    <2> QED
      BY <2>2, <2>3
  <1>4. /\ \A e \in Devices : e # d => phone'[e] = phone[e]
        /\ phone'[d] = f /\ phone' \in [Devices -> Phones]
    BY <1>2, <1>3
  <1>5. PICK u \in Agents : u = phone[d].user
    BY <1>1, <1>2 DEF Phones
  <1>6. /\ row' \in [Agents -> [Devices -> Token]] /\ row'[u][d] = 0
        /\ \A b \in Agents, e \in Devices : b # u \/ e # d => row'[b][e] = row[b][e]
    <2>1. 0 \in Token /\ row \in [Agents -> [Devices -> Token]] /\ row' = [row EXCEPT ![u][d] = 0]
      BY <1>5 DEF UnregisterDevice, Token, IInv, TypeOK
    <2> QED
      BY <2>1, OneCell
  <1>7. TypeOK'
    BY <1>1, <1>4, <1>6 DEF IInv, TypeOK
  <1>8. /\ \A s \in storing : s.device \in Devices /\ s.device # d
        /\ \A s \in sends : s.device \in Devices
        /\ \A t \in removing : t.device \in Devices
    BY <1>1 DEF IInv, TypeOK, Registrations, Pushes
  <1>9. /\ \A e \in Devices : phone'[e].token = phone[e].token /\ phone[e].token \in 1 .. extras' + 1
        /\ \A e \in Devices : phone[e].token # 0 /\ 0 <= phone[e].token
    BY <1>1, <1>2, <1>3, <1>4 DEF IInv, TokensInv
  <1>10. TokensInv'
    <2>1. \A a \in Agents, e \in Devices : row'[a][e] <= phone[e].token
      BY <1>6, <1>9 DEF IInv, TokensInv
    <2> QED
      BY <1>1, <1>2, <1>8, <1>9, <2>1 DEF IInv, TokensInv
  <1>11. RegisterInv'
    <2>1. \A e \in Devices : phone'[e].due => phone'[e].user # None
      BY <1>3, <1>4 DEF IInv, RegisterInv
    <2>2. \A e \in Devices : \A a, b \in Agents :
              row'[a][e] = phone'[e].token /\ row'[b][e] = phone'[e].token => a = b
      BY <1>6, <1>9 DEF IInv, RegisterInv
    <2>3. ASSUME NEW s \in storing, NEW b \in Agents
          PROVE  s.token = phone'[s.device].token /\ row'[b][s.device] = s.token => b = s.agent
      <3>1. s.device \in Devices /\ s.device # d
        BY <1>8
      <3>2. phone'[s.device] = phone[s.device] /\ row'[b][s.device] = row[b][s.device]
        BY <1>4, <1>6, <3>1
      <3>3. s.token = phone[s.device].token /\ row[b][s.device] = s.token => b = s.agent
        BY DEF IInv, RegisterInv
      <3> QED
        BY <3>2, <3>3
    <2>4. \A s \in storing : ~phone'[s.device].due =>
              s.agent = phone'[s.device].user /\ s.token = phone'[s.device].token
      BY <1>4, <1>8 DEF IInv, RegisterInv
    <2>5. ASSUME NEW e \in Devices, phone'[e].user # None, ~phone'[e].due
          PROVE  row'[phone'[e].user][e] = phone'[e].token \/ \E s \in storing : s.device = e
      <3>1. e # d /\ phone'[e] = phone[e] /\ phone[e].user \in Agents
        BY <1>2, <1>3, <1>4, <2>5 DEF Phones
      <3> QED
        BY <1>6, <2>5, <3>1 DEF IInv, RegisterInv
    <2>6. \A s, t \in storing' : s.device = t.device => s = t
      BY <1>1 DEF IInv, RegisterInv
    <2> QED
      BY <1>1, <2>1, <2>2, <2>3, <2>4, <2>5, <2>6 DEF RegisterInv
  <1>12. AnswerInv'
    BY <1>1, <1>4, <1>6 DEF IInv, AnswerInv
  <1>13. RingInv'
    <2>1. \A e \in Devices : phone'[e].ring <=> phone[e].ring
      BY <1>3, <1>4
    <2>2. \A e \in Devices \ untold' : RingsOn(e)
      BY <1>1, <1>4, <1>6 DEF RingsOn, IInv, RingInv
    <2> QED
      BY <1>1, <2>1, <2>2, RingRests
  <1> QED
    BY <1>7, <1>10, <1>11, <1>12, <1>13 DEF IInv

(* The token leaves every other row.                                       *)
LEMMA RegisterStep ==
    ASSUME IInv, NEW d \in Devices, Register(d) PROVE IInv'
  <1>1. /\ UNCHANGED <<call, round, removing, notices, sends, untold, extras>>
        /\ phone[d].due /\ \A s \in storing : s.device # d
        /\ row' = Displaced(phone[d].user, d)
    BY DEF Register
  <1>2. /\ phone \in [Devices -> Phones] /\ phone[d].user \in Agents
        /\ row \in [Agents -> [Devices -> Token]] /\ storing \subseteq Registrations
    BY <1>1 DEF IInv, TypeOK, RegisterInv, Phones
  <1>3. PICK f \in Phones : /\ f.user = phone[d].user /\ f.token = phone[d].token /\ ~f.due
                            /\ (f.ring <=> phone[d].ring) /\ phone' = [phone EXCEPT ![d] = f]
    <2>1. phone[d] \in Phones
      BY <1>2
    <2>2. phone' = [phone EXCEPT ![d] = [phone[d] EXCEPT !.due = FALSE]]
      BY <1>2 DEF Register
    <2>3. LET f == [phone[d] EXCEPT !.due = FALSE]
          IN  f \in Phones /\ f.user = phone[d].user /\ f.token = phone[d].token /\ ~f.due
              /\ (f.ring <=> phone[d].ring)
      BY <2>1, Due
    <2> QED
      BY <2>2, <2>3
  <1>4. /\ \A e \in Devices : e # d => phone'[e] = phone[e]
        /\ phone'[d] = f /\ phone' \in [Devices -> Phones]
    BY <1>2, <1>3
  <1>5. PICK s \in Registrations : /\ s.agent = phone[d].user /\ s.device = d
                                   /\ s.token = phone[d].token /\ storing' = storing \cup {s}
    BY <1>2 DEF Register, Registrations, Phones
  <1>6. /\ \A b \in Agents, e \in Devices : row'[b][e] \in {row[b][e], 0}
        /\ \A b \in Agents, e \in Devices : e # d \/ b = s.agent => row'[b][e] = row[b][e]
        /\ \A b \in Agents : b # s.agent /\ row[b][d] = phone[d].token => row'[b][d] = 0
        /\ \A b \in Agents, e \in Devices : row[b][e] # 0 /\ row'[b][e] = 0 =>
               e = d /\ b # s.agent
    BY <1>1, <1>5 DEF Displaced
  <1>7. row' \in [Agents -> [Devices -> Token]]
    <2>1. 0 \in Token
      BY DEF Token
    <2> QED
      BY <1>1, <1>2, <2>1 DEF Displaced
  <1>8. TypeOK'
    BY <1>1, <1>2, <1>4, <1>5, <1>7 DEF IInv, TypeOK
  <1>9. /\ \A r \in storing : r.device \in Devices /\ r.device # d
        /\ \A r \in sends : r.device \in Devices
        /\ \A t \in removing : t.device \in Devices
    BY <1>1 DEF IInv, TypeOK, Registrations, Pushes
  <1>10. /\ \A e \in Devices : phone'[e].token = phone[e].token /\ phone'[e].user = phone[e].user
         /\ \A e \in Devices : phone[e].token \in 1 .. extras + 1 /\ extras \in Nat
         /\ \A e \in Devices : phone[e].token # 0 /\ 0 <= phone[e].token
         /\ \A e \in Devices : phone'[e].ring <=> phone[e].ring
    BY <1>3, <1>4 DEF IInv, TypeOK, TokensInv
  <1>11. \A b \in Agents : row'[b][d] = phone[d].token => b = s.agent
    BY <1>6, <1>10
  <1>12. TokensInv'
    <2>1. \A a \in Agents, e \in Devices : row'[a][e] <= phone[e].token
      BY <1>6, <1>10 DEF IInv, TokensInv
    <2>2. \A r \in storing' : r.token # 0 /\ r.token <= phone'[r.device].token
      BY <1>5, <1>9, <1>10 DEF IInv, TokensInv
    <2> QED
      BY <1>1, <1>9, <1>10, <2>1, <2>2 DEF IInv, TokensInv
  <1>13. RegisterInv'
    <2>1. \A e \in Devices : phone'[e].due => phone'[e].user # None
      BY <1>3, <1>4 DEF IInv, RegisterInv
    <2>2. \A e \in Devices : \A a, b \in Agents :
              row'[a][e] = phone'[e].token /\ row'[b][e] = phone'[e].token => a = b
      BY <1>6, <1>10, <1>11 DEF IInv, RegisterInv
    <2>3. \A r \in storing' : \A b \in Agents :
              r.token = phone'[r.device].token /\ row'[b][r.device] = r.token => b = r.agent
      BY <1>5, <1>6, <1>9, <1>10, <1>11 DEF IInv, RegisterInv
    <2>4. \A r \in storing' : ~phone'[r.device].due =>
              r.agent = phone'[r.device].user /\ r.token = phone'[r.device].token
      BY <1>4, <1>5, <1>9, <1>10 DEF IInv, RegisterInv
    <2>5. ASSUME NEW e \in Devices, phone'[e].user # None, ~phone'[e].due
          PROVE  row'[phone'[e].user][e] = phone'[e].token \/ \E r \in storing' : r.device = e
      <3>1. CASE e = d
        BY <1>5, <3>1
      <3>2. CASE e # d
        <4>1. phone'[e] = phone[e] /\ phone[e].user \in Agents
          BY <1>2, <1>4, <2>5, <3>2 DEF Phones
        <4> QED
          BY <1>5, <1>6, <2>5, <3>2, <4>1 DEF IInv, RegisterInv
      <3> QED
        BY <3>1, <3>2
    <2>6. \A r, t \in storing' : r.device = t.device => r = t
      BY <1>5, <1>9 DEF IInv, RegisterInv
    <2> QED
      BY <2>1, <2>2, <2>3, <2>4, <2>5, <2>6 DEF RegisterInv
  <1>14. AnswerInv'
    <2>1. call.status = "answered" =>
              call.agent \in Agents /\ call.on \in Devices /\ phone'[call.on].user = call.agent
      BY <1>10 DEF IInv, AnswerInv
    <2>2. ASSUME call.status = "answered", call.known
          PROVE  /\ \A b \in Agents : row'[b][call.on] = phone'[call.on].token => b = call.agent
                 /\ \A r \in storing' :
                        r.device = call.on /\ r.token = phone'[call.on].token => r.agent = call.agent
                 /\ \A r \in sends : r.why \in Answering /\ r.device = call.on
                                         => r.token # phone'[call.on].token
      BY <1>5, <1>6, <1>10, <2>1, <2>2 DEF IInv, AnswerInv
    <2> QED
      BY <1>1, <2>1, <2>2 DEF IInv, AnswerInv
  <1>15. RingInv'
    <2>1. \A e \in Devices \ untold' : RingsOn(e)
      BY <1>1, <1>5, <1>6, <1>10 DEF RingsOn, IInv, RingInv
    <2> QED
      BY <1>1, <1>10, <2>1, RingRests
  <1> QED
    BY <1>8, <1>12, <1>13, <1>14, <1>15 DEF IInv

(* And gets its own.                                                       *)
LEMMA InsertTokenStep ==
    ASSUME IInv, NEW s \in storing, InsertToken(s) PROVE IInv'
  <1>1. /\ UNCHANGED <<call, round, phone, removing, notices, sends, untold, extras>>
        /\ row' = [row EXCEPT ![s.agent][s.device] = s.token] /\ storing' = storing \ {s}
    BY DEF InsertToken
  <1>2. /\ s.agent \in Agents /\ s.device \in Devices /\ s.token \in Token /\ s.token # 0
        /\ s.token <= phone[s.device].token
        /\ row \in [Agents -> [Devices -> Token]]
    BY DEF IInv, TypeOK, TokensInv, Registrations
  <1>3. /\ row' \in [Agents -> [Devices -> Token]] /\ row'[s.agent][s.device] = s.token
        /\ \A b \in Agents, e \in Devices : b # s.agent \/ e # s.device => row'[b][e] = row[b][e]
    BY <1>1, <1>2, OneCell
  <1>4. /\ \A r \in storing : r.device \in Devices
        /\ \A r \in storing' : r \in storing /\ r.device # s.device
    BY <1>1 DEF IInv, TypeOK, Registrations, RegisterInv
  <1>5. TypeOK'
    BY <1>1, <1>3 DEF IInv, TypeOK
  <1>6. TokensInv'
    <2>1. \A a \in Agents, e \in Devices : row'[a][e] <= phone[e].token
      BY <1>2, <1>3 DEF IInv, TokensInv
    <2> QED
      BY <1>1, <1>4, <2>1 DEF IInv, TokensInv
  <1>7. RegisterInv'
    <2>1. \A e \in Devices : phone'[e].due => phone'[e].user # None
      BY <1>1 DEF IInv, RegisterInv
    <2>2. ASSUME NEW e \in Devices, NEW a \in Agents, NEW b \in Agents,
                 row'[a][e] = phone[e].token, row'[b][e] = phone[e].token
          PROVE  a = b
      <3>1. CASE e # s.device
        BY <1>3, <2>2, <3>1 DEF IInv, RegisterInv
      <3>2. CASE e = s.device /\ s.token = phone[e].token
        <4>1. \A c \in Agents : row[c][e] = phone[e].token => c = s.agent
          BY <3>2 DEF IInv, RegisterInv
        <4> QED
          BY <1>3, <2>2, <3>2, <4>1
      <3>3. CASE e = s.device /\ s.token # phone[e].token
        BY <1>3, <2>2, <3>3 DEF IInv, RegisterInv
      <3> QED
        BY <3>1, <3>2, <3>3
    <2>3. \A r \in storing' : \A b \in Agents :
              r.token = phone[r.device].token /\ row'[b][r.device] = r.token => b = r.agent
      BY <1>3, <1>4 DEF IInv, RegisterInv
    <2>4. \A r \in storing' : ~phone[r.device].due =>
              r.agent = phone[r.device].user /\ r.token = phone[r.device].token
      BY <1>4 DEF IInv, RegisterInv
    <2>5. ASSUME NEW e \in Devices, phone[e].user # None, ~phone[e].due
          PROVE  row'[phone[e].user][e] = phone[e].token \/ \E r \in storing' : r.device = e
      <3>1. CASE e = s.device
        BY <1>3, <2>5, <3>1 DEF IInv, RegisterInv
      <3>2. CASE e # s.device
        <4>1. phone[e].user \in Agents
          BY <2>5 DEF IInv, TypeOK, Phones
        <4>2. row'[phone[e].user][e] = row[phone[e].user][e]
          BY <1>3, <3>2, <4>1
        <4> QED
          BY <1>1, <2>5, <3>2, <4>2 DEF IInv, RegisterInv
      <3> QED
        BY <3>1, <3>2
    <2>6. \A r, t \in storing' : r.device = t.device => r = t
      BY <1>4 DEF IInv, RegisterInv
    <2> QED
      BY <1>1, <2>1, <2>2, <2>3, <2>4, <2>5, <2>6 DEF RegisterInv
  <1>8. AnswerInv'
    <2>1. call.status = "answered" => call.agent \in Agents /\ call.on \in Devices
      BY DEF IInv, AnswerInv
    <2>2. ASSUME call.status = "answered", call.known, NEW b \in Agents,
                 row'[b][call.on] = phone[call.on].token
          PROVE  b = call.agent
      <3>1. CASE b = s.agent /\ call.on = s.device
        BY <1>3, <2>2, <3>1 DEF IInv, AnswerInv
      <3>2. CASE b # s.agent \/ call.on # s.device
        BY <1>3, <2>1, <2>2, <3>2 DEF IInv, AnswerInv
      <3> QED
        BY <3>1, <3>2
    <2> QED
      BY <1>1, <1>4, <2>2 DEF IInv, AnswerInv
  <1>9. RingInv'
    <2>1. \A e \in Devices \ untold' : RingsOn(e)
      BY <1>1, <1>2, <1>3 DEF RingsOn, IInv, RingInv
    <2> QED
      BY <1>1, <2>1, RingRests
  <1> QED
    BY <1>5, <1>6, <1>7, <1>8, <1>9 DEF IInv

(* The registration fails, and is due again.                               *)
LEMMA RegisterFailsStep ==
    ASSUME IInv, NEW s \in storing, RegisterFails(s) PROVE IInv'
  <1>1. /\ UNCHANGED <<call, round, row, removing, notices, sends>>
        /\ extras' \in 0 .. MaxExtras /\ extras' = extras + 1 /\ storing' = storing \ {s}
        /\ untold' = untold \cup {s.device}
    BY ExtraCounts DEF RegisterFails
  <1>2. /\ phone \in [Devices -> Phones] /\ s.device \in Devices
        /\ extras \in Nat /\ round <= extras + 1 /\ round \in Nat
    BY DEF IInv, TypeOK, TokensInv, Registrations
  <1>3. PICK f \in Phones : /\ f.user = phone[s.device].user /\ f.token = phone[s.device].token
                            /\ (f.due <=> phone[s.device].user # None)
                            /\ (f.ring <=> phone[s.device].ring)
                            /\ phone' = [phone EXCEPT ![s.device] = f]
    <2>1. PICK b \in BOOLEAN : b = (phone[s.device].user # None)
      OBVIOUS
    <2>2. phone' = [phone EXCEPT ![s.device] = [phone[s.device] EXCEPT !.due = b]]
      BY <1>2, <2>1 DEF RegisterFails
    <2>3. LET f == [phone[s.device] EXCEPT !.due = b]
          IN  f \in Phones /\ f.user = phone[s.device].user /\ f.token = phone[s.device].token
              /\ (f.due <=> b) /\ (f.ring <=> phone[s.device].ring)
      BY <1>2, <2>1, Due
    <2> QED
      BY <2>1, <2>2, <2>3
  <1>4. /\ \A e \in Devices : e # s.device => phone'[e] = phone[e]
        /\ phone'[s.device] = f /\ phone' \in [Devices -> Phones]
    BY <1>2, <1>3
  <1>5. TypeOK'
    BY <1>1, <1>2, <1>4 DEF IInv, TypeOK
  <1>6. /\ \A r \in storing' : r \in storing /\ r.device \in Devices /\ r.device # s.device
        /\ \A r \in sends : r.device \in Devices
        /\ \A t \in removing : t.device \in Devices
    BY <1>1 DEF IInv, TypeOK, Registrations, Pushes, RegisterInv
  <1>7. /\ \A e \in Devices : phone'[e].token = phone[e].token /\ phone'[e].user = phone[e].user
        /\ \A e \in Devices : phone[e].token \in 1 .. extras' + 1
        /\ \A e \in Devices : phone'[e].ring <=> phone[e].ring
    BY <1>1, <1>2, <1>3, <1>4 DEF IInv, TokensInv
  <1>8. TokensInv'
    BY <1>1, <1>2, <1>6, <1>7 DEF IInv, TokensInv
  <1>9. RegisterInv'
    <2>1. \A e \in Devices : phone'[e].due => phone'[e].user # None
      BY <1>3, <1>4 DEF IInv, RegisterInv
    <2>2. \A e \in Devices : \A a, b \in Agents :
              row'[a][e] = phone'[e].token /\ row'[b][e] = phone'[e].token => a = b
      BY <1>1, <1>7 DEF IInv, RegisterInv
    <2>3. \A r \in storing' : \A b \in Agents :
              r.token = phone'[r.device].token /\ row'[b][r.device] = r.token => b = r.agent
      BY <1>1, <1>6, <1>7 DEF IInv, RegisterInv
    <2>4. \A r \in storing' : ~phone'[r.device].due =>
              r.agent = phone'[r.device].user /\ r.token = phone'[r.device].token
      BY <1>4, <1>6 DEF IInv, RegisterInv
    <2>5. ASSUME NEW e \in Devices, phone'[e].user # None, ~phone'[e].due
          PROVE  row'[phone'[e].user][e] = phone'[e].token \/ \E r \in storing' : r.device = e
      <3>1. e # s.device /\ phone'[e] = phone[e]
        BY <1>3, <1>4, <2>5
      <3> QED
        BY <1>1, <2>5, <3>1 DEF IInv, RegisterInv
    <2>6. \A r, t \in storing' : r.device = t.device => r = t
      BY <1>6 DEF IInv, RegisterInv
    <2> QED
      BY <2>1, <2>2, <2>3, <2>4, <2>5, <2>6 DEF RegisterInv
  <1>10. AnswerInv'
    BY <1>1, <1>6, <1>7 DEF IInv, AnswerInv
  <1>11. RingInv'
    <2>1. \A e \in Devices \ untold' : RingsOn(e)
      BY <1>1, <1>7 DEF RingsOn, IInv, RingInv
    <2> QED
      BY <1>1, <1>7, <2>1, RingRests
  <1> QED
    BY <1>5, <1>8, <1>9, <1>10, <1>11 DEF IInv

(* An invalid token goes: it is an old one.                                *)
LEMMA RemoveTokenStep ==
    ASSUME IInv, NEW t \in removing, RemoveToken(t) PROVE IInv'
  <1>1. /\ UNCHANGED <<call, round, phone, storing, notices, sends, untold, extras>>
        /\ removing' = removing \ {t} /\ row' = Pruned(t)
    BY DEF RemoveToken
  <1>2. /\ t.device \in Devices /\ t.token < phone[t.device].token /\ t.token \in Nat
        /\ row \in [Agents -> [Devices -> Token]] /\ extras \in Nat
        /\ \A e \in Devices : phone[e].token \in 1 .. extras + 1
    BY DEF IInv, TypeOK, TokensInv, Token
  <1>3. /\ \A b \in Agents, e \in Devices : row'[b][e] \in {row[b][e], 0}
        /\ \A b \in Agents, e \in Devices : e # t.device => row'[b][e] = row[b][e]
        /\ \A b \in Agents : row[b][t.device] # t.token => row'[b][t.device] = row[b][t.device]
    BY <1>1, <1>2 DEF Pruned
  <1>4. row' \in [Agents -> [Devices -> Token]]
    <2>1. 0 \in Token
      BY DEF Token
    <2> QED
      BY <1>1, <1>2, <2>1 DEF Pruned
  <1>5. \A b \in Agents, e \in Devices : row'[b][e] = phone[e].token <=> row[b][e] = phone[e].token
    BY <1>2, <1>3
  <1>6. TypeOK'
    BY <1>1, <1>4 DEF IInv, TypeOK
  <1>7. TokensInv'
    <2>1. \A a \in Agents, e \in Devices : row'[a][e] <= phone[e].token
      BY <1>2, <1>3 DEF IInv, TokensInv
    <2> QED
      BY <1>1, <2>1 DEF IInv, TokensInv
  <1>8. RegisterInv'
    <2>1. \A s \in storing : s.device \in Devices
      BY DEF IInv, TypeOK, Registrations
    <2>2. \A e \in Devices : \A a, b \in Agents :
              row'[a][e] = phone[e].token /\ row'[b][e] = phone[e].token => a = b
      BY <1>5 DEF IInv, RegisterInv
    <2>3. \A s \in storing : \A b \in Agents :
              s.token = phone[s.device].token /\ row'[b][s.device] = s.token => b = s.agent
      BY <1>5, <2>1 DEF IInv, RegisterInv
    <2>4. ASSUME NEW e \in Devices, phone[e].user # None, ~phone[e].due
          PROVE  row'[phone[e].user][e] = phone[e].token \/ \E s \in storing : s.device = e
      <3>1. phone[e].user \in Agents
        BY <2>4 DEF IInv, TypeOK, Phones
      <3> QED
        BY <1>5, <2>4, <3>1 DEF IInv, RegisterInv
    <2> QED
      BY <1>1, <2>2, <2>3, <2>4 DEF IInv, RegisterInv
  <1>9. AnswerInv'
    BY <1>1, <1>5 DEF IInv, AnswerInv
  <1>10. RingInv'
    <2>1. \A e \in Devices \ untold' : RingsOn(e)
      BY <1>1, <1>3 DEF RingsOn, IInv, RingInv
    <2> QED
      BY <1>1, <2>1, RingRests
  <1> QED
    BY <1>6, <1>7, <1>8, <1>9, <1>10 DEF IInv

-----------------------------------------------------------------------------
(* The call's events.                                                      *)

(* What a notification says.                                               *)
LEMMA Noticed ==
    ASSUME round' \in 0 .. MaxExtras + 1, NEW why \in Cancelling \cup {"offered"},
           NEW ids \in SUBSET Agents, NEW but \in Devices \cup {None}
    PROVE  LET n == Notice(why, ids, but)
           IN  n \in Notifications /\ n.why = why /\ n.ids = ids /\ n.but = but
  BY DEF Notice, Notifications

(* The notifications that begin join those under way.                      *)
LEMMA Begins ==
    ASSUME IInv, NEW ns \in SUBSET Notifications, Begin(ns)
    PROVE  /\ notices \subseteq notices' /\ notices' \subseteq notices \cup ns
           /\ notices' \subseteq Notifications
           /\ \A n \in ns : n.ids # {} => n \in notices'
  BY DEF Begin, IInv, TypeOK

(* An event of the call leaves the register as it is.                      *)
LEMMA EventRests ==
    ASSUME IInv, SameDevices, UNCHANGED <<row, storing, removing, sends, untold>>,
           phone' \in [Devices -> Phones], call' \in Calls, notices' \subseteq Notifications,
           round' \in 0 .. MaxExtras + 1, extras' \in 0 .. MaxExtras, extras <= extras',
           round' <= extras' + 1
    PROVE  TypeOK' /\ TokensInv' /\ RegisterInv'
  <1>1. TypeOK'
    BY DEF IInv, TypeOK
  <1>2. /\ row' = row /\ storing' = storing /\ sends' \subseteq Pushes
        /\ \A s \in sends' : s.token <= phone[s.device].token
        /\ removing' \subseteq [device : Devices, token : Token]
        /\ \A t \in removing' : t.token < phone[t.device].token
        /\ extras' \in Nat
    BY DEF IInv, TypeOK, TokensInv
  <1>3. TokensInv' /\ RegisterInv'
    BY <1>2, RegisterRests
  <1> QED
    BY <1>1, <1>3

(* While nobody has answered, the answer has set off nothing.              *)
LEMMA UnansweredRests ==
    ASSUME IInv, call.status \in {"waiting", "ringing"}, call'.status \in {"waiting", "ringing"},
           UNCHANGED sends, \A n \in notices' : n \notin notices => n.why \notin Answering
    PROVE  AnswerInv'
  <1>1. \A m \in notices \cup sends : m.why \notin Answering
    BY DEF IInv, AnswerInv
  <1> QED
    BY <1>1 DEF AnswerInv

(* An event that takes the offer back has the device told.                 *)
LEMMA RingEnds ==
    ASSUME IInv, UNCHANGED <<row, removing, untold, sends>>, notices \subseteq notices',
           \A d \in Devices : phone'[d].user = phone[d].user /\ (phone'[d].ring => phone[d].ring),
           call'.status # "ringing" => call'.offered = {},
           call'.agent # None => call'.offered \subseteq {call'.agent},
           \A d \in Devices \ untold : phone'[d].ring /\ Home[d] \in call.offered
               => Home[d] \in call'.offered \/ Stopping(d)'
    PROVE  RingInv'
  <1>1. \A d \in Devices : Stopping(d) => Stopping(d)'
    BY DEF Stopping
  <1>2. ASSUME NEW d \in Devices \ untold'
        PROVE  /\ d \notin Web /\ phone'[d].user = Home[d] /\ row'[Home[d]][d] # 0
               /\ \A t \in removing' : t.device # d
               /\ phone'[d].ring => Home[d] \in call'.offered \/ Stopping(d)'
    <2>1. d \in Devices \ untold
      OBVIOUS
    <2>2. /\ d \notin Web /\ phone[d].user = Home[d] /\ row[Home[d]][d] # 0
          /\ \A t \in removing : t.device # d
          /\ phone[d].ring => Home[d] \in call.offered \/ Stopping(d)
      BY <2>1 DEF IInv, RingInv
    <2> QED
      BY <1>1, <2>1, <2>2
  <1> QED
    BY <1>2 DEF RingInv

(* A notification to all the agents of an offer stops its rings.           *)
LEMMA TellingStops ==
    ASSUME NEW d \in Devices, NEW n \in notices', n.why \in Cancelling, Home[d] \in n.ids, n.but # d
    PROVE  Stopping(d)'
  BY DEF Stopping

(* The call is offered.                                                    *)
LEMMA OfferStep == ASSUME IInv, Offer PROVE IInv'
  <1>1. /\ UNCHANGED <<row, storing, removing, phone, sends, untold>>
        /\ call.status = "waiting" /\ round' = round + 1
        /\ IF round = 0 THEN UNCHANGED extras ELSE Extra
    BY DEF Offer, registry
  <1>2. /\ call \in Calls /\ round \in Nat /\ extras \in 0 .. MaxExtras /\ round <= extras + 1
        /\ phone \in [Devices -> Phones] /\ MaxExtras \in Nat
    BY DEF IInv, TypeOK, TokensInv
  <1>3. /\ extras' \in 0 .. MaxExtras /\ extras <= extras' /\ round' <= extras' + 1
        /\ round' \in 0 .. MaxExtras + 1
    <2>1. CASE round = 0
      BY <1>1, <1>2, <2>1
    <2>2. CASE round # 0
      BY <1>1, <1>2, <2>2 DEF Extra
    <2> QED
      BY <2>1, <2>2
  <1>4. PICK ids \in {{a} : a \in Alone} \cup {Agents} :
            /\ call' = [call EXCEPT !.status = "ringing", !.offered = ids,
                          !.agent = IF ids = Agents THEN None ELSE CHOOSE a \in ids : TRUE]
            /\ Begin({Notice("offered", ids, None)})
    BY DEF Offer
  <1>5. ids \in SUBSET Agents
    BY <1>4
  <1>6. PICK g \in Agents \cup {None} :
            /\ g = (IF ids = Agents THEN None ELSE CHOOSE a \in ids : TRUE)
            /\ g # None => ids \subseteq {g}
    BY <1>4
  <1>7. call' = [call EXCEPT !.status = "ringing", !.offered = ids, !.agent = g]
    BY <1>4, <1>6
  <1>8. call' \in Calls /\ call'.status = "ringing" /\ call'.offered = ids /\ call'.agent = g
    BY <1>2, <1>5, <1>7 DEF Calls
  <1>9. PICK n \in Notifications : n.why = "offered" /\ Begin({n})
    BY <1>3, <1>4, <1>5, Noticed DEF Cancelling
  <1>10. notices \subseteq notices' /\ notices' \subseteq notices \cup {n} /\ notices' \subseteq Notifications
    BY <1>9, Begins
  <1>11. SameDevices
    BY <1>1 DEF SameDevices
  <1>12. TypeOK' /\ TokensInv' /\ RegisterInv'
    BY <1>1, <1>2, <1>3, <1>8, <1>10, <1>11, EventRests
  <1>13. AnswerInv'
    BY <1>1, <1>8, <1>9, <1>10, UnansweredRests DEF Answering
  <1>14. RingInv'
    <2>1. \A d \in Devices : Home[d] \notin call.offered
      BY <1>1 DEF IInv, RingInv
    <2> QED
      BY <1>1, <1>6, <1>8, <1>10, <2>1, RingEnds
  <1> QED
    BY <1>12, <1>13, <1>14 DEF IInv

(* An offer concerns all whom it rings.                                    *)
LEMMA ConcernedAgents ==
    ASSUME IInv
    PROVE  /\ Concerned \in SUBSET Agents
           /\ \A d \in Devices : Home[d] \in call.offered => Home[d] \in Concerned
  BY DEF Concerned, IInv, TypeOK, RingInv, Calls

(* The offer is taken back.                                                *)
LEMMA WithdrawStep == ASSUME IInv, Withdraw PROVE IInv'
  <1>1. /\ UNCHANGED <<row, storing, removing, phone, sends, untold, extras, round>>
        /\ call.status = "ringing"
        /\ call' = [call EXCEPT !.status = "waiting", !.offered = {}, !.agent = None]
    BY DEF Withdraw, registry
  <1>2. /\ call \in Calls /\ round \in 0 .. MaxExtras + 1 /\ extras \in 0 .. MaxExtras
        /\ round <= extras + 1 /\ phone \in [Devices -> Phones]
    BY DEF IInv, TypeOK, TokensInv
  <1>3. call' \in Calls /\ call'.status = "waiting" /\ call'.offered = {} /\ call'.agent = None
    BY <1>1, <1>2 DEF Calls
  <1>4. PICK n \in Notifications : n.why = "withdrawn" /\ n.ids = Concerned /\ n.but = None /\ Begin({n})
    <2>1. PICK ids \in SUBSET Agents : ids = Concerned
      BY ConcernedAgents
    <2>2. Begin({Notice("withdrawn", ids, None)})
      BY <2>1 DEF Withdraw
    <2>3. round' \in 0 .. MaxExtras + 1 /\ "withdrawn" \in Cancelling \cup {"offered"}
      BY <1>1, <1>2 DEF Cancelling
    <2>4. LET n == Notice("withdrawn", ids, None)
          IN  n \in Notifications /\ n.why = "withdrawn" /\ n.ids = ids /\ n.but = None
      BY <2>3, Noticed
    <2> QED
      BY <2>1, <2>2, <2>4
  <1>5. /\ notices \subseteq notices' /\ notices' \subseteq notices \cup {n} /\ notices' \subseteq Notifications
        /\ n.ids # {} => n \in notices'
    BY <1>4, Begins
  <1>6. SameDevices
    BY <1>1 DEF SameDevices
  <1>7. TypeOK' /\ TokensInv' /\ RegisterInv'
    BY <1>1, <1>2, <1>3, <1>5, <1>6, EventRests
  <1>8. AnswerInv'
    BY <1>1, <1>3, <1>4, <1>5, UnansweredRests DEF Answering
  <1>9. RingInv'
    <2>1. ASSUME NEW d \in Devices, Home[d] \in call.offered PROVE Stopping(d)'
      <3>1. Home[d] \in n.ids /\ n.but # d
        BY <1>4, <2>1, ConcernedAgents
      <3> QED
        BY <1>4, <1>5, <3>1, TellingStops DEF Cancelling
    <2> QED
      BY <1>1, <1>3, <1>5, <2>1, RingEnds
  <1> QED
    BY <1>7, <1>8, <1>9 DEF IInv

(* The call ends.                                                          *)
LEMMA EndCallStep == ASSUME IInv, EndCall PROVE IInv'
  <1>1. /\ UNCHANGED <<row, storing, removing, phone, sends, untold, extras, round>>
        /\ call' = [call EXCEPT !.status = "over", !.offered = {}, !.on = None]
    BY DEF EndCall, registry
  <1>2. /\ call \in Calls /\ round \in 0 .. MaxExtras + 1 /\ extras \in 0 .. MaxExtras
        /\ round <= extras + 1 /\ phone \in [Devices -> Phones]
    BY DEF IInv, TypeOK, TokensInv
  <1>3. call' \in Calls /\ call'.status = "over" /\ call'.offered = {}
    BY <1>1, <1>2 DEF Calls
  <1>4. PICK n \in Notifications : n.why = "ended" /\ n.ids = Concerned /\ n.but = None /\ Begin({n})
    <2>1. PICK ids \in SUBSET Agents : ids = Concerned
      BY ConcernedAgents
    <2>2. Begin({Notice("ended", ids, None)})
      BY <2>1 DEF EndCall
    <2>3. round' \in 0 .. MaxExtras + 1 /\ "ended" \in Cancelling \cup {"offered"}
      BY <1>1, <1>2 DEF Cancelling
    <2>4. LET n == Notice("ended", ids, None)
          IN  n \in Notifications /\ n.why = "ended" /\ n.ids = ids /\ n.but = None
      BY <2>3, Noticed
    <2> QED
      BY <2>1, <2>2, <2>4
  <1>5. /\ notices \subseteq notices' /\ notices' \subseteq Notifications
        /\ n.ids # {} => n \in notices'
    BY <1>4, Begins
  <1>6. SameDevices
    BY <1>1 DEF SameDevices
  <1>7. TypeOK' /\ TokensInv' /\ RegisterInv'
    BY <1>1, <1>2, <1>3, <1>5, <1>6, EventRests
  <1>8. AnswerInv'
    BY <1>3 DEF AnswerInv
  <1>9. RingInv'
    <2>1. ASSUME NEW d \in Devices, Home[d] \in call.offered PROVE Stopping(d)'
      <3>1. Home[d] \in n.ids /\ n.but # d
        BY <1>4, <2>1, ConcernedAgents
      <3> QED
        BY <1>4, <1>5, <3>1, TellingStops DEF Cancelling
    <2> QED
      BY <1>1, <1>3, <1>5, <2>1, RingEnds
  <1> QED
    BY <1>7, <1>8, <1>9 DEF IInv

(* A member declines, and is told to stop.                                 *)
LEMMA DeclineStep == ASSUME IInv, NEW a \in Agents, Decline(a) PROVE IInv'
  <1>1. /\ UNCHANGED <<row, storing, removing, phone, sends, untold, round>>
        /\ extras' \in 0 .. MaxExtras /\ extras' = extras + 1 /\ extras \in Nat
        /\ call.status = "ringing" /\ call' = [call EXCEPT !.offered = @ \ {a}]
    BY ExtraCounts DEF Decline, registry
  <1>2. /\ call \in Calls /\ round \in 0 .. MaxExtras + 1 /\ round <= extras + 1
        /\ phone \in [Devices -> Phones]
    BY DEF IInv, TypeOK, TokensInv
  <1>3. /\ call' \in Calls /\ call'.status = "ringing" /\ call'.offered = call.offered \ {a}
        /\ call'.agent = call.agent
    BY <1>1, <1>2 DEF Calls
  <1>4. PICK n \in Notifications : n.why = "declined" /\ n.ids = {a} /\ n.but = None /\ Begin({n})
    <2>1. Begin({Notice("declined", {a}, None)})
      BY DEF Decline
    <2>2. round' \in 0 .. MaxExtras + 1 /\ "declined" \in Cancelling \cup {"offered"}
      BY <1>1, <1>2 DEF Cancelling
    <2>3. LET n == Notice("declined", {a}, None)
          IN  n \in Notifications /\ n.why = "declined" /\ n.ids = {a} /\ n.but = None
      BY <2>2, Noticed
    <2> QED
      BY <2>1, <2>3
  <1>5. /\ notices \subseteq notices' /\ notices' \subseteq notices \cup {n} /\ notices' \subseteq Notifications
        /\ n \in notices'
    BY <1>4, Begins
  <1>6. SameDevices
    BY <1>1 DEF SameDevices
  <1>7. TypeOK' /\ TokensInv' /\ RegisterInv'
    <2>1. extras <= extras' /\ round' <= extras' + 1
      BY <1>1, <1>2
    <2> QED
      BY <1>1, <1>2, <1>3, <1>5, <1>6, <2>1, EventRests
  <1>8. AnswerInv'
    BY <1>1, <1>3, <1>4, <1>5, UnansweredRests DEF Answering
  <1>9. RingInv'
    <2>1. ASSUME NEW d \in Devices, Home[d] \in call.offered
          PROVE  Home[d] \in call'.offered \/ Stopping(d)'
      <3>1. CASE Home[d] = a
        <4>1. Home[d] \in n.ids /\ n.but # d
          BY <1>4, <3>1
        <4> QED
          BY <1>4, <1>5, <4>1, TellingStops DEF Cancelling
      <3>2. CASE Home[d] # a
        BY <1>3, <2>1, <3>2
      <3> QED
        BY <3>1, <3>2
    <2>2. call'.agent # None => call'.offered \subseteq {call'.agent}
      BY <1>3 DEF IInv, RingInv
    <2> QED
      BY <1>1, <1>3, <1>5, <2>1, <2>2, RingEnds
  <1> QED
    BY <1>7, <1>8, <1>9 DEF IInv

(* An agent answers on a device: all other devices that ring are told.     *)
LEMMA AcceptStep == ASSUME IInv, NEW a \in Agents, NEW d \in Devices, Accept(a, d) PROVE IInv'
  <1>1. /\ UNCHANGED <<row, storing, removing, sends, untold, extras, round>>
        /\ call.status = "ringing" /\ (RingAll \/ call.agent = a) /\ phone[d].user = a
    BY DEF Accept, registry
  <1>2. /\ call \in Calls /\ round \in 0 .. MaxExtras + 1 /\ extras \in 0 .. MaxExtras
        /\ round <= extras + 1 /\ phone \in [Devices -> Phones]
    BY DEF IInv, TypeOK, TokensInv
  <1>3. PICK f \in Phones : /\ f.user = a /\ f.token = phone[d].token /\ (f.due <=> phone[d].due)
                            /\ ~f.ring /\ phone' = [phone EXCEPT ![d] = f]
    <2>1. phone[d] \in Phones /\ FALSE \in BOOLEAN
      BY <1>2
    <2>2. phone' = [phone EXCEPT ![d] = [phone[d] EXCEPT !.ring = FALSE]]
      BY DEF Accept
    <2>3. LET f == [phone[d] EXCEPT !.ring = FALSE]
          IN  f \in Phones /\ f.user = phone[d].user /\ f.token = phone[d].token
              /\ (f.due <=> phone[d].due) /\ (f.ring <=> FALSE)
      BY <2>1, Ringing
    <2> QED
      BY <1>1, <2>2, <2>3
  <1>4. /\ phone' \in [Devices -> Phones] /\ phone'[d] = f
        /\ \A e \in Devices : e # d => phone'[e] = phone[e]
    BY <1>2, <1>3
  <1>5. PICK k \in BOOLEAN : k = (row[a][d] = phone[d].token)
    OBVIOUS
  <1>6. call' = [call EXCEPT !.status = "answered", !.agent = a, !.on = d, !.offered = {}, !.known = k]
    BY <1>5 DEF Accept
  <1>7. /\ call' \in Calls /\ call'.status = "answered" /\ call'.agent = a /\ call'.on = d
        /\ call'.offered = {} /\ call'.known = k
    BY <1>2, <1>6 DEF Calls
  <1>8. PICK r \in Notifications : /\ r.why = "resolved" /\ r.ids = {a} /\ r.but = d
                                   /\ r = Notice("resolved", {a}, d)
    BY <1>1, <1>2, Noticed DEF Cancelling
  <1>9. PICK t \in Notifications : /\ t.why = "taken" /\ t.ids = Agents \ {a} /\ t.but = None
                                   /\ t = Notice("taken", Agents \ {a}, None)
    BY <1>1, <1>2, Noticed DEF Cancelling
  <1>10. PICK ns \in SUBSET Notifications :
             ns \subseteq {r, t} /\ r \in ns /\ (RingAll => t \in ns) /\ Begin(ns)
    <2>1. Resolution(a, d) = {r} \cup (IF RingAll THEN {t} ELSE {})
      BY <1>8, <1>9 DEF Resolution
    <2>2. Begin(Resolution(a, d))
      BY DEF Accept
    <2> QED
      BY <2>1, <2>2
  <1>11. /\ notices \subseteq notices' /\ notices' \subseteq notices \cup {r, t}
         /\ notices' \subseteq Notifications
         /\ r \in notices' /\ (RingAll /\ t.ids # {} => t \in notices')
    BY <1>8, <1>10, Begins
  <1>12. SameDevices
    BY <1>1, <1>3, <1>4 DEF SameDevices
  <1>13. TypeOK' /\ TokensInv' /\ RegisterInv'
    BY <1>1, <1>2, <1>4, <1>7, <1>11, <1>12, EventRests
  <1>14. \A m \in notices \cup sends : m.why \notin Answering
    BY <1>1 DEF IInv, AnswerInv
  <1>15. AnswerInv'
    <2>1. \A n \in notices' : /\ n.why = "resolved" => n.but = d
                              /\ n.why = "taken" => a \notin n.ids
      BY <1>8, <1>9, <1>11, <1>14 DEF Answering
    <2>2. \A s \in sends' : s.why \notin Answering
      BY <1>1, <1>14
    <2>3. phone'[d].token = phone[d].token
      BY <1>3, <1>4
    <2>4. ASSUME k, NEW b \in Agents, row'[b][d] = phone'[d].token PROVE b = a
      <3>1. row[a][d] = phone[d].token /\ row[b][d] = phone[d].token
        BY <1>1, <1>5, <2>3, <2>4
      <3> QED
        BY <3>1 DEF IInv, RegisterInv
    <2>5. ASSUME k, NEW s \in storing', s.device = d, s.token = phone'[d].token PROVE s.agent = a
      <3>1. s \in storing /\ s.token = phone[s.device].token /\ row[a][s.device] = s.token
        BY <1>1, <1>5, <2>3, <2>5
      <3> QED
        BY <3>1 DEF IInv, RegisterInv
    <2> QED
      BY <1>3, <1>4, <1>7, <2>1, <2>2, <2>4, <2>5 DEF AnswerInv
  <1>16. RingInv'
    <2>1. ASSUME NEW e \in Devices, phone'[e].ring, Home[e] \in call.offered PROVE Stopping(e)'
      <3>1. e # d
        BY <1>3, <1>4, <2>1
      <3>2. CASE Home[e] = a
        <4>1. Home[e] \in r.ids /\ r.but # e
          BY <1>8, <3>1, <3>2
        <4> QED
          BY <1>8, <1>11, <4>1, TellingStops DEF Cancelling
      <3>3. CASE Home[e] # a
        <4>1. RingAll
          BY <1>1, <2>1, <3>3 DEF IInv, RingInv, RingAll
        <4>2. Home[e] \in t.ids /\ t.but # e /\ t \in notices'
          BY <1>9, <1>11, <3>3, <4>1
        <4> QED
          BY <1>9, <4>2, TellingStops DEF Cancelling
      <3> QED
        BY <3>2, <3>3
    <2>2. \A e \in Devices : phone'[e].user = phone[e].user /\ (phone'[e].ring => phone[e].ring)
      BY <1>1, <1>3, <1>4
    <2> QED
      BY <1>1, <1>7, <1>11, <2>1, <2>2, RingEnds
  <1> QED
    BY <1>13, <1>15, <1>16 DEF IInv

-----------------------------------------------------------------------------
(* A notification on its way.                                              *)

(* One more extra leaves room for one more round.                          *)
LEMMA Within ==
    ASSUME NEW m \in Nat, NEW e \in Nat, NEW r \in Nat, e <= m, r <= e + 1 PROVE r <= m + 1
  OBVIOUS

(* A step of a push leaves the call and the register as they are.          *)
LEMMA PushRests ==
    ASSUME IInv, SameDevices, UNCHANGED <<call, round, row, storing>>,
           phone' \in [Devices -> Phones], notices' \subseteq notices,
           sends' \subseteq Pushes, \A s \in sends' : s.token <= phone[s.device].token,
           removing' \subseteq [device : Devices, token : Token],
           \A t \in removing' : t.token < phone[t.device].token,
           untold' \subseteq Devices, extras' \in 0 .. MaxExtras, extras <= extras'
    PROVE  TypeOK' /\ TokensInv' /\ RegisterInv'
  <1>1. TypeOK'
    <2>1. TypeOK
      BY DEF IInv
    <2>2. notices' \subseteq Notifications /\ call' \in Calls /\ round' \in 0 .. MaxExtras + 1
      BY <2>1 DEF TypeOK
    <2>3. row' \in [Agents -> [Devices -> Token]] /\ storing' \subseteq Registrations
      BY <2>1 DEF TypeOK
    <2> QED
      BY <2>2, <2>3 DEF TypeOK
  <1>2. row' = row /\ storing' = storing /\ extras' \in Nat /\ round' <= extras' + 1
    <2>1. round <= extras + 1 /\ round \in Nat /\ extras \in Nat
      BY DEF IInv, TypeOK, TokensInv
    <2>2. PICK m \in Nat, e \in Nat, r \in Nat : m = extras' /\ e = extras /\ r = round /\ e <= m /\ r <= e + 1
      BY <2>1
    <2>3. r <= m + 1
      BY <2>2, Within
    <2>4. row' = row /\ storing' = storing /\ round' = round
      OBVIOUS
    <2> QED
      BY <2>2, <2>3, <2>4
  <1>3. TokensInv' /\ RegisterInv'
    BY <1>2, RegisterRests
  <1> QED
    BY <1>1, <1>3

(* A device rings on for its own offer alone, and what is to stop it stays *)
(* on its way.                                                             *)
LEMMA PushRings ==
    ASSUME IInv, SameDevices, UNCHANGED <<call, row>>, untold \subseteq untold',
           \A d \in Devices \ untold' : \A t \in removing' : t.device # d,
           \A d \in Devices \ untold' : phone'[d].ring => phone[d].ring \/ Home[d] \in call.offered,
           \A d \in Devices \ untold' : phone'[d].ring /\ Stopping(d)
               => Stopping(d)' \/ Home[d] \in call.offered
    PROVE  RingInv'
  <1>1. ASSUME NEW d \in Devices \ untold'
        PROVE  /\ d \notin Web /\ phone'[d].user = Home[d] /\ row'[Home[d]][d] # 0
               /\ \A t \in removing' : t.device # d
               /\ phone'[d].ring => Home[d] \in call'.offered \/ Stopping(d)'
    <2>1. d \in Devices \ untold
      OBVIOUS
    <2>2. /\ d \notin Web /\ phone[d].user = Home[d] /\ row[Home[d]][d] # 0
          /\ phone[d].ring => Home[d] \in call.offered \/ Stopping(d)
      BY <2>1 DEF IInv, RingInv
    <2>3. phone'[d].user = phone[d].user
      BY <2>1 DEF SameDevices
    <2> QED
      BY <2>1, <2>2, <2>3
  <1>2. (call.status # "ringing" => call.offered = {})' /\ (call.agent # None => call.offered \subseteq {call.agent})'
    BY DEF IInv, RingInv
  <1> QED
    BY <1>1, <1>2 DEF RingInv

(* What the state knows of a push.                                         *)
LEMMA PushFacts ==
    ASSUME IInv
    PROVE  /\ \A s \in sends : s \in Pushes /\ s.device \in Devices /\ s.token <= phone[s.device].token
           /\ sends \subseteq Pushes /\ removing \subseteq [device : Devices, token : Token]
           /\ \A t \in removing : t.token < phone[t.device].token
           /\ \A d \in Devices \ untold : \A t \in removing : t.device # d
           /\ untold \subseteq Devices /\ extras \in 0 .. MaxExtras /\ extras <= extras
           /\ phone \in [Devices -> Phones]
  BY DEF IInv, TypeOK, TokensInv, RingInv, Pushes

(* The offer of a second call is not delivered.                            *)
LEMMA SuppressStep == ASSUME IInv, NEW n \in notices, Suppress(n) PROVE IInv'
  <1>1. /\ UNCHANGED <<call, round, row, storing, removing, phone, sends, untold, extras>>
        /\ n.why = "offered" /\ notices' = notices \ {n}
    BY DEF Suppress, registry
  <1>2. SameDevices
    BY <1>1 DEF SameDevices
  <1>3. TypeOK' /\ TokensInv' /\ RegisterInv'
    BY <1>1, <1>2, PushFacts, PushRests
  <1>4. AnswerInv'
    BY <1>1, <1>2, AnswerRests
  <1>5. RingInv'
    <2>1. \A d \in Devices : Stopping(d) => Stopping(d)'
      BY <1>1 DEF Stopping, Cancelling
    <2> QED
      BY <1>1, <1>2, <2>1, PushFacts, PushRings
  <1> QED
    BY <1>3, <1>4, <1>5 DEF IInv

(* The tokens of a notification's agents are read.                         *)
LEMMA ReadTokensStep == ASSUME IInv, NEW n \in notices, ReadTokens(n) PROVE IInv'
  <1>1. /\ UNCHANGED <<call, round, row, storing, removing, phone, untold, extras>>
        /\ notices' = notices \ {n}
    BY DEF ReadTokens, registry
  <1>2. /\ n \in Notifications /\ row \in [Agents -> [Devices -> Token]]
        /\ \A a \in Agents, d \in Devices : row[a][d] <= phone[d].token
    BY DEF IInv, TypeOK, TokensInv
  <1>3. SameDevices
    BY <1>1 DEF SameDevices
  <1>4. \A s \in sends' : s \in sends \/ \E a \in n.ids, d \in Devices :
            /\ s \in Pushes /\ s.why = n.why /\ s.device = d /\ s.token = row[a][d]
            /\ d # n.but
    <2>1. ASSUME NEW x \in Targets(n)
          PROVE  /\ x[1] \in n.ids /\ x[2] \in Devices /\ x[2] # n.but
                 /\ [why |-> n.why, device |-> x[2], token |-> row[x[1]][x[2]], tries |-> 1,
                     round |-> n.round] \in Pushes
      <3>1. x[1] \in n.ids /\ x[2] \in Devices /\ x[2] # n.but
        BY DEF Targets
      <3>2. 1 \in 1 .. MaxAttempts /\ n.ids \subseteq Agents /\ n.round \in 0 .. MaxExtras + 1
            /\ n.why \in Cancelling \cup {"offered"}
        BY <1>2 DEF Notifications
      <3>3. row[x[1]][x[2]] \in Token
        BY <1>2, <3>1, <3>2
      <3> QED
        BY <3>1, <3>2, <3>3 DEF Pushes
    <2>2. sends' = sends \cup {[why |-> n.why, device |-> x[2], token |-> row[x[1]][x[2]], tries |-> 1,
                                round |-> n.round] : x \in Targets(n)}
      BY DEF ReadTokens
    <2> QED
      BY <2>1, <2>2
  <1>5. TypeOK' /\ TokensInv' /\ RegisterInv'
    <2>1. n.ids \subseteq Agents
      BY <1>2 DEF Notifications
    <2>2. sends' \subseteq Pushes /\ \A s \in sends' : s.token <= phone[s.device].token
      BY <1>2, <1>4, <2>1, PushFacts
    <2> QED
      BY <1>1, <1>3, <2>2, PushFacts, PushRests
  <1>6. AnswerInv'
    <2>1. n.ids \subseteq Agents
      BY <1>2 DEF Notifications
    <2>2. call.status \in {"waiting", "ringing"} => \A m \in notices' \cup sends' : m.why \notin Answering
      BY <1>1, <1>4 DEF IInv, AnswerInv
    <2>3. call.status = "answered" =>
              /\ call.agent \in Agents /\ call.on \in Devices /\ phone[call.on].user = call.agent
              /\ \A m \in notices : /\ m.why = "resolved" => m.but = call.on
                                    /\ m.why = "taken" => call.agent \notin m.ids
      BY DEF IInv, AnswerInv
    <2>4. ASSUME call.status = "answered", call.known, NEW s \in sends', s.why \in Answering,
                 s.device = call.on
          PROVE  s.token # phone[call.on].token
      <3>1. CASE s \in sends
        BY <2>4, <3>1 DEF IInv, AnswerInv
      <3>2. CASE s \notin sends
        <4>1. PICK a \in n.ids : n.why = s.why /\ s.token = row[a][call.on] /\ call.on # n.but
          BY <1>4, <2>4, <3>2
        <4>2. n.why = "taken" /\ a # call.agent /\ a \in Agents
          BY <2>1, <2>3, <2>4, <4>1 DEF Answering
        <4>3. \A b \in Agents : row[b][call.on] = phone[call.on].token => b = call.agent
          BY <2>4 DEF IInv, AnswerInv
        <4> QED
          BY <4>1, <4>2, <4>3
      <3> QED
        BY <3>1, <3>2
    <2>5. call.status = "answered" /\ call.known =>
              /\ \A b \in Agents : row[b][call.on] = phone[call.on].token => b = call.agent
              /\ \A s \in storing :
                     s.device = call.on /\ s.token = phone[call.on].token => s.agent = call.agent
      BY DEF IInv, AnswerInv
    <2> QED
      BY <1>1, <2>2, <2>3, <2>4, <2>5 DEF AnswerInv
  <1>7. RingInv'
    <2>1. ASSUME NEW d \in Devices \ untold, Stopping(d) PROVE Stopping(d)'
      <3>1. d \notin Web /\ row[Home[d]][d] # 0
        BY DEF IInv, RingInv
      <3>2. sends \subseteq sends'
        BY DEF ReadTokens
      <3>3. CASE \E m \in notices \ {n} : m.why \in Cancelling /\ Home[d] \in m.ids /\ m.but # d
        BY <1>1, <3>3 DEF Stopping
      <3>4. CASE \E s \in sends : s.why \in Cancelling /\ s.device = d
        BY <3>2, <3>4 DEF Stopping
      <3>5. CASE n.why \in Cancelling /\ Home[d] \in n.ids /\ n.but # d
        <4>1. <<Home[d], d>> \in Targets(n)
          <5>1. d \in Devices \ ({n.but} \cup IF n.why = "offered" THEN {} ELSE Web)
            BY <3>1, <3>5 DEF Cancelling
          <5>2. PICK x \in n.ids \X (Devices \ ({n.but} \cup IF n.why = "offered" THEN {} ELSE Web)) :
                    x = <<Home[d], d>>
            BY <3>5, <5>1
          <5>3. row[x[1]][x[2]] # 0
            BY <3>1, <5>2
          <5> QED
            BY <5>2, <5>3 DEF Targets
        <4>2. PICK s \in sends' : s.why = n.why /\ s.device = d
          <5>1. PICK x \in Targets(n) : x = <<Home[d], d>>
            BY <4>1
          <5>2. x[2] = d
            BY <5>1
          <5>3. [why |-> n.why, device |-> x[2], token |-> row[x[1]][x[2]], tries |-> 1,
                 round |-> n.round] \in sends'
            BY DEF ReadTokens
          <5> QED
            BY <5>2, <5>3
        <4> QED
          BY <3>5, <4>2 DEF Stopping
      <3> QED
        BY <2>1, <3>3, <3>4, <3>5 DEF Stopping
    <2> QED
      BY <1>1, <1>3, <2>1, PushFacts, PushRings
  <1> QED
    BY <1>5, <1>6, <1>7 DEF IInv

-----------------------------------------------------------------------------
(* A push on its way.                                                      *)

(* The device takes it.                                                    *)
LEMMA Reached ==
    ASSUME IInv, NEW s \in sends, Reaches(s)
    PROVE  /\ SameDevices /\ phone' \in [Devices -> Phones]
           /\ untold \subseteq untold' /\ untold' \subseteq Devices
           /\ \A d \in Devices : d # s.device => phone'[d] = phone[d]
           /\ s.device \notin untold' /\ phone'[s.device].ring
                  => s.why = "offered" /\ phone[s.device].user \in call.offered
  <1>1. s.device \in Devices /\ phone \in [Devices -> Phones] /\ phone[s.device] \in Phones
        /\ untold \subseteq Devices
    BY PushFacts
  <1>2. PICK b \in BOOLEAN : b = Rings(s)
    BY DEF Rings
  <1>3. PICK f \in Phones : /\ f.user = phone[s.device].user /\ f.token = phone[s.device].token
                            /\ (f.due <=> phone[s.device].due) /\ (f.ring <=> b)
                            /\ phone' = [phone EXCEPT ![s.device] = f]
    <2>1. phone' = [phone EXCEPT ![s.device] = [phone[s.device] EXCEPT !.ring = b]]
      BY <1>2 DEF Reaches
    <2>2. LET f == [phone[s.device] EXCEPT !.ring = b]
          IN  f \in Phones /\ f.user = phone[s.device].user /\ f.token = phone[s.device].token
              /\ (f.due <=> phone[s.device].due) /\ (f.ring <=> b)
      BY <1>1, Ringing
    <2> QED
      BY <2>1, <2>2
  <1>4. /\ phone' \in [Devices -> Phones] /\ phone'[s.device] = f
        /\ \A d \in Devices : d # s.device => phone'[d] = phone[d]
    BY <1>1, <1>3
  <1>5. SameDevices
    BY <1>3, <1>4 DEF SameDevices
  <1>6. untold' = untold \cup {d \in {s.device} : Ghost(s)}
    BY DEF Reaches
  <1>7. s.device \notin untold' /\ phone'[s.device].ring
            => s.why = "offered" /\ phone[s.device].user \in call.offered
    BY <1>2, <1>3, <1>4, <1>6 DEF Rings, Ghost
  <1> QED
    BY <1>1, <1>4, <1>5, <1>6, <1>7

(* A device that is reached rings for its own offer alone.                 *)
LEMMA ReachedRings ==
    ASSUME IInv, NEW s \in sends, Reaches(s), UNCHANGED <<call, row, notices, removing>>,
           \A r \in sends : r # s => r \in sends'
    PROVE  RingInv'
  <1>1. /\ SameDevices /\ untold \subseteq untold'
        /\ \A d \in Devices : d # s.device => phone'[d] = phone[d]
        /\ s.device \notin untold' /\ phone'[s.device].ring => phone[s.device].user \in call.offered
    BY Reached
  <1>2. \A d \in Devices \ untold' : \A t \in removing' : t.device # d
    BY <1>1, PushFacts
  <1>3. ASSUME NEW d \in Devices \ untold', phone'[d].ring, d = s.device PROVE Home[d] \in call.offered
    BY <1>1, <1>3 DEF IInv, RingInv
  <1>4. ASSUME NEW d \in Devices, d # s.device, Stopping(d) PROVE Stopping(d)'
    BY <1>4 DEF Stopping
  <1>5. \A d \in Devices \ untold' : phone'[d].ring => phone[d].ring \/ Home[d] \in call.offered
    BY <1>1, <1>3
  <1>6. \A d \in Devices \ untold' : phone'[d].ring /\ Stopping(d)
            => Stopping(d)' \/ Home[d] \in call.offered
    BY <1>3, <1>4
  <1> QED
    BY <1>1, <1>2, <1>5, <1>6, PushRings

(* A push arrives.                                                         *)
LEMMA ArrivesStep == ASSUME IInv, NEW s \in sends, Arrives(s) PROVE IInv'
  <1>1. /\ UNCHANGED <<call, round, row, storing, removing, notices, extras>>
        /\ sends' = sends \ {s} /\ Reaches(s)
    BY DEF Arrives, registry
  <1>2. /\ SameDevices /\ phone' \in [Devices -> Phones] /\ untold' \subseteq Devices
    BY <1>1, Reached
  <1>3. TypeOK' /\ TokensInv' /\ RegisterInv'
    BY <1>1, <1>2, PushFacts, PushRests
  <1>4. AnswerInv'
    BY <1>1, <1>2, AnswerRests
  <1>5. RingInv'
    BY <1>1, ReachedRings
  <1> QED
    BY <1>3, <1>4, <1>5 DEF IInv

(* One more attempt.                                                       *)
LEMMA Again ==
    ASSUME NEW p \in Pushes, p.tries < MaxAttempts
    PROVE  LET q == [p EXCEPT !.tries = @ + 1]
           IN  q \in Pushes /\ q.why = p.why /\ q.device = p.device /\ q.token = p.token
  BY DEF Pushes

(* A push is tried again, delivered or not.                                *)
LEMMA RetryStep == ASSUME IInv, NEW s \in sends, Retry(s) PROVE IInv'
  <1>1. /\ UNCHANGED <<call, round, row, storing, removing, notices>>
        /\ extras' \in 0 .. MaxExtras /\ extras' = extras + 1 /\ extras \in Nat
        /\ s.tries < MaxAttempts /\ (Reaches(s) \/ UNCHANGED <<phone, untold>>)
    BY ExtraCounts DEF Retry, registry
  <1>2. PICK q \in Pushes : /\ q.why = s.why /\ q.device = s.device /\ q.token = s.token
                            /\ sends' = (sends \ {s}) \cup {q}
    <2>1. s \in Pushes
      BY PushFacts
    <2>2. LET q == [s EXCEPT !.tries = @ + 1]
          IN  q \in Pushes /\ q.why = s.why /\ q.device = s.device /\ q.token = s.token
      BY <1>1, <2>1, Again
    <2>3. sends' = (sends \ {s}) \cup {[s EXCEPT !.tries = @ + 1]}
      BY DEF Retry
    <2> QED
      BY <2>2, <2>3
  <1>3. SameDevices /\ phone' \in [Devices -> Phones] /\ untold' \subseteq Devices
    <2>1. CASE Reaches(s)
      BY <2>1, Reached
    <2>2. CASE UNCHANGED <<phone, untold>>
      BY <2>2, PushFacts DEF SameDevices
    <2> QED
      BY <1>1, <2>1, <2>2
  <1>4. TypeOK' /\ TokensInv' /\ RegisterInv'
    <2>1. sends' \subseteq Pushes /\ \A r \in sends' : r.token <= phone[r.device].token
      BY <1>2, PushFacts
    <2>2. extras <= extras' /\ notices' \subseteq notices
      BY <1>1
    <2> QED
      BY <1>1, <1>3, <2>1, <2>2, PushFacts, PushRests
  <1>5. AnswerInv'
    <2>1. \A r \in sends' : \E p \in sends : p.why = r.why /\ p.device = r.device /\ p.token = r.token
      BY <1>2
    <2> QED
      BY <1>1, <1>3, <2>1, AnswerRests
  <1>6. RingInv'
    <2>1. CASE Reaches(s)
      BY <1>1, <1>2, <2>1, ReachedRings
    <2>2. CASE UNCHANGED <<phone, untold>>
      <3>1. \A d \in Devices : Stopping(d) => Stopping(d)'
        BY <1>1, <1>2 DEF Stopping
      <3> QED
        BY <1>1, <1>3, <2>2, <3>1, PushFacts, PushRings
    <2> QED
      BY <1>1, <2>1, <2>2
  <1> QED
    BY <1>4, <1>5, <1>6 DEF IInv

(* What a push stops that goes without having arrived, if its own device   *)
(* is given up.                                                            *)
LEMMA GivenUp ==
    ASSUME IInv, NEW s \in sends, UNCHANGED <<call, row, phone, notices>>,
           sends' = sends \ {s}, untold' = untold \cup {s.device},
           \A t \in removing' : t \in removing \/ t.device = s.device
    PROVE  RingInv'
  <1>1. SameDevices
    BY DEF SameDevices
  <1>2. \A d \in Devices \ untold' : \A t \in removing' : t.device # d
    BY PushFacts
  <1>3. \A d \in Devices \ untold' : Stopping(d) => Stopping(d)'
    BY DEF Stopping
  <1> QED
    BY <1>1, <1>2, <1>3, PushRings

(* A push is lost.                                                         *)
LEMMA LostStep == ASSUME IInv, NEW s \in sends, Lost(s) PROVE IInv'
  <1>1. /\ UNCHANGED <<call, round, row, storing, removing, phone, notices>>
        /\ extras' \in 0 .. MaxExtras /\ extras' = extras + 1 /\ extras \in Nat
        /\ sends' = sends \ {s} /\ untold' = untold \cup {s.device}
    BY ExtraCounts DEF Lost, registry
  <1>2. SameDevices
    BY <1>1 DEF SameDevices
  <1>3. TypeOK' /\ TokensInv' /\ RegisterInv'
    <2>1. /\ extras <= extras' /\ untold' \subseteq Devices
          /\ sends' \subseteq Pushes /\ \A r \in sends' : r.token <= phone[r.device].token
      BY <1>1, PushFacts
    <2> QED
      BY <1>1, <1>2, <2>1, PushFacts, PushRests
  <1>4. AnswerInv'
    BY <1>1, <1>2, AnswerRests
  <1>5. RingInv'
    BY <1>1, GivenUp
  <1> QED
    BY <1>3, <1>4, <1>5 DEF IInv

(* A push finds that its token is no longer the device's.                  *)
LEMMA InvalidStep == ASSUME IInv, NEW s \in sends, Invalid(s) PROVE IInv'
  <1>1. /\ UNCHANGED <<call, round, row, storing, phone, notices, extras>>
        /\ s.token # phone[s.device].token
        /\ removing' = removing \cup {[device |-> s.device, token |-> s.token]}
        /\ sends' = sends \ {s} /\ untold' = untold \cup {s.device}
    BY DEF Invalid
  <1>2. SameDevices
    BY <1>1 DEF SameDevices
  <1>3. TypeOK' /\ TokensInv' /\ RegisterInv'
    <2>1. s.device \in Devices /\ s.token \in Token /\ phone[s.device].token \in Nat
          /\ s.token <= phone[s.device].token
      BY PushFacts DEF Pushes, Phones, Token
    <2>2. s.token < phone[s.device].token
      BY <1>1, <2>1 DEF Token
    <2>3. PICK t \in [device : Devices, token : Token] :
              t.device = s.device /\ t.token = s.token /\ removing' = removing \cup {t}
      BY <1>1, <2>1
    <2>4. /\ removing' \subseteq [device : Devices, token : Token]
          /\ \A r \in removing' : r.token < phone[r.device].token
      BY <2>2, <2>3, PushFacts
    <2>5. /\ untold' \subseteq Devices
          /\ sends' \subseteq Pushes /\ \A r \in sends' : r.token <= phone[r.device].token
      BY <1>1, PushFacts
    <2> QED
      BY <1>1, <1>2, <2>4, <2>5, PushFacts, PushRests
  <1>4. AnswerInv'
    BY <1>1, <1>2, AnswerRests
  <1>5. RingInv'
    BY <1>1, GivenUp
  <1> QED
    BY <1>3, <1>4, <1>5 DEF IInv

-----------------------------------------------------------------------------
(* The specification.                                                      *)

(* Nothing is under way at the start.                                      *)
LEMMA InitStep == Init => IInv
  <1> SUFFICES ASSUME Init PROVE IInv
    OBVIOUS
  <1>1. 0 \in Token /\ 1 \in Token /\ MaxExtras \in Nat
    BY DEF Token
  <1>2. /\ row \in [Agents -> [Devices -> Token]]
        /\ \A a \in Agents, d \in Devices : row[a][d] = IF Home[d] = a THEN 1 ELSE 0
    BY <1>1 DEF Init
  <1>3. /\ phone \in [Devices -> Phones]
        /\ \A d \in Devices : /\ phone[d].user = Home[d] /\ phone[d].token = 1
                              /\ ~phone[d].due /\ ~phone[d].ring
    BY <1>1 DEF Init, Phones
  <1>4. TypeOK
    <2>1. call \in Calls
      BY DEF Init, Calls
    <2>2. round \in 0 .. MaxExtras + 1 /\ extras \in 0 .. MaxExtras /\ untold \subseteq Devices
      BY <1>1 DEF Init
    <2> QED
      BY <1>2, <1>3, <2>1, <2>2 DEF Init, TypeOK
  <1>5. TokensInv
    BY <1>2, <1>3 DEF Init, TokensInv
  <1>6. RegisterInv
    BY <1>2, <1>3 DEF Init, RegisterInv
  <1>7. AnswerInv
    BY DEF Init, AnswerInv
  <1>8. RingInv
    BY <1>2, <1>3 DEF Init, RingInv
  <1> QED
    BY <1>4, <1>5, <1>6, <1>7, <1>8 DEF IInv

(* Nothing happens.                                                        *)
LEMMA StutterStep == ASSUME IInv, UNCHANGED vars PROVE IInv'
  <1>1. TypeOK'
    BY DEF IInv, TypeOK, vars, registry
  <1>2. TokensInv'
    BY DEF IInv, TokensInv, vars, registry
  <1>3. RegisterInv'
    BY DEF IInv, RegisterInv, vars, registry
  <1>4. AnswerInv'
    BY DEF IInv, AnswerInv, vars, registry
  <1>5. RingInv'
    BY DEF IInv, RingInv, Stopping, vars, registry
  <1> QED
    BY <1>1, <1>2, <1>3, <1>4, <1>5 DEF IInv

(* Every step keeps the invariant.                                         *)
LEMMA NextStep == ASSUME IInv, [Next]_vars PROVE IInv'
  <1>1. CASE DeviceStep
    BY <1>1, RenewTokenStep, UnregisterDeviceStep, RegisterStep, SignInStep, InsertTokenStep,
       RegisterFailsStep, RemoveTokenStep DEF DeviceStep
  <1>2. CASE CallStep
    BY <1>2, OfferStep, WithdrawStep, EndCallStep, DeclineStep, AcceptStep DEF CallStep
  <1>3. CASE PushStep
    BY <1>3, SuppressStep, ReadTokensStep, ArrivesStep, RetryStep, LostStep, InvalidStep DEF PushStep
  <1>4. CASE UNCHANGED vars
    BY <1>4, StutterStep
  <1> QED
    BY <1>1, <1>2, <1>3, <1>4 DEF Next

(* The inductive invariant holds in every reachable state.                 *)
THEOREM Invariance == Spec => []IInv
  BY InitStep, NextStep, PTL DEF Spec

(* Every variable keeps its type, and nothing under way is newer than its  *)
(* device.                                                                 *)
THEOREM TypeCorrect == Spec => []TypeOK
  <1>1. IInv => TypeOK
    BY DEF IInv
  <1> QED
    BY <1>1, Invariance, PTL

(* What the answer sets off never goes to the device that holds the call   *)
(* (CallPushNotifier.notifyCallResolved), in whatever order devices renew  *)
(* and register their tokens, members decline and notifications are read.  *)
THEOREM AnsweredDevicesAreSpared == Spec => []AnsweredDeviceIsSpared
  <1>1. IInv => AnsweredDeviceIsSpared
    BY DEF IInv, AnswerInv, AnsweredDeviceIsSpared, Answering
  <1> QED
    BY <1>1, Invariance, PTL

(* Every ring that can be stopped is (notifyCancelled, notifyCallEnded),   *)
(* however often the call was offered and whoever declined it.             *)
THEOREM StoppedRings == Spec => []RingsAreStopped
  <1>1. IInv => RingsAreStopped
    BY DEF IInv, RingInv, RingsAreStopped, Stopping
  <1> QED
    BY <1>1, Invariance, PTL

(* A device that signed in is registered with its newest token and for its *)
(* agent alone (PushTokenRepository.register, removeToken).                *)
THEOREM SignedInReached == Spec => []SignedInDevicesAreReached
  <1>1. ASSUME IInv PROVE SignedInDevicesAreReached
    <2>1. ASSUME NEW d \in Devices, phone[d].user # None, ~phone[d].due,
                 \A s \in storing : s.device # d, NEW a \in Agents
          PROVE  row[a][d] = phone[d].token <=> a = phone[d].user
      <3>1. phone[d].user \in Agents
        BY <1>1, <2>1 DEF IInv, TypeOK, Phones
      <3>2. row[phone[d].user][d] = phone[d].token
        BY <1>1, <2>1 DEF IInv, RegisterInv
      <3>3. \A b \in Agents : row[a][d] = phone[d].token /\ row[b][d] = phone[d].token => a = b
        BY <1>1 DEF IInv, RegisterInv
      <3> QED
        BY <3>1, <3>2, <3>3
    <2> QED
      BY <2>1 DEF SignedInDevicesAreReached
  <1> QED
    BY <1>1, Invariance, PTL

=============================================================================
