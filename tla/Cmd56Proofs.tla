---------------------------- MODULE Cmd56Proofs ----------------------------
(***************************************************************************)
(* Proofs about Cmd56, for every set of cards, every number of runs and    *)
(* every number of faults.                                                 *)
(***************************************************************************)
EXTENDS Cmd56, TLAPS

USE DEF PROTOTYPE_KEY_ID1

-----------------------------------------------------------------------------
(* Types of the data *)

(* The zeroed values the code starts from have their types. *)
LEMMA ZeroTypes ==
    /\ ZeroNonce \in Nonce
    /\ ZeroSession \in Session
    /\ cmd56_response_start \in Response
    /\ gc_cmd56_init \in CardState
    /\ vita_cmd56_init \in VitaState
<1>1. ZeroNonce \in Nonce
    BY DEF ZeroNonce, Nonce
<1>2. ZeroSession \in Session
    BY DEF ZeroSession, Session, KeyIds, DerivableIds
<1>3. cmd56_response_start \in Response
    BY <1>1, <1>2 DEF cmd56_response_start, Response, Kinds, LockStatus, Owner
<1>4. gc_cmd56_init \in CardState
    BY <1>1, <1>2, <1>3 DEF gc_cmd56_init, CardState, LockStatus
<1>5. vita_cmd56_init \in VitaState
    BY <1>1, <1>2 DEF vita_cmd56_init, VitaState, LockStatus, KeyIds, Owner
<1> QED BY <1>1, <1>2, <1>3, <1>4, <1>5

(* Setting the top bit keeps a nonce a nonce and does not change its bytes
   from 1 on. *)
LEMMA OrType ==
    ASSUME NEW n \in Nonce
    PROVE  or_w_80(n) \in Nonce /\ or_w_80(n).id = n.id
BY DEF or_w_80, Nonce

(* A random challenge is a nonce. *)
LEMMA FreshType ==
    ASSUME NEW id \in Nat
    PROVE  Fresh80(id) \in Nonce /\ Fresh80(id).id = id
BY DEF Fresh80, Nonce

(* A zeroed request is a request. *)
LEMMA RequestType ==
    ASSUME NEW cmd \in Commands
    PROVE  /\ cmd56_request_start(cmd) \in Request
           /\ cmd56_request_start(cmd).cmd = cmd
BY ZeroTypes DEF cmd56_request_start, Request

(* An error answer is an answer, and carries no key. *)
LEMMA ErrorType ==
    ASSUME NEW code \in Nat
    PROVE  /\ cmd56_response_error(code) \in Response
           /\ cmd56_response_error(code).kind = "ff"
           /\ cmd56_response_error(code).key = 0
BY ZeroTypes DEF cmd56_response_error, cmd56_response_start, Response, Kinds

-----------------------------------------------------------------------------
(* What the card's handlers do *)

(* handle_request, whatever the command: the card's secondary key changes only
   by an exchange under its session key, an answer that carries a key carries
   the card's own and is sealed with its secondary key, and the session key
   binds the card's own key id. *)
LEMMA HandleRequest ==
    ASSUME NEW c \in Carts, NEW s \in CardState, NEW q \in Request, NEW id \in Nat,
           NEW t, t = handle_request(c, s, q, id)
    PROVE  /\ t \in CardState
           /\ t.out.key = 0 \/ (t.out.key = t.secondary /\ q.cmd # "SECONDARY")
           /\ Sealed(t.out) => t.out.owner = c /\ t.out.key = t.secondary
           /\ q.cmd # "SECONDARY" => t.secondary = s.secondary
           /\ q.cmd = "SECONDARY" =>
                /\ ~Sealed(t.out)
                /\ t.secondary = 0 \/ (t.secondary = q.secondary /\ q.session = s.session)
           /\ t.session = s.session \/ t.session.key_id = CardKeyId[c]
           /\ (s.lock # "UNLOCKED" /\ t.lock = "UNLOCKED") =>
                /\ q.cmd = "SECONDARY" /\ q.session = s.session
                /\ q.cpart = s.cpart /\ t.secondary = q.secondary
<1> USE ZeroTypes
<1>0. CardKeyId[c] \in KeyIds
    BY KeyIdAssumption DEF KeyIds, CardIds
<1>1. CASE q.cmd = "START"
    BY <1>1 DEF handle_request, handle_cmd_start, cmd56_response_start, Sealed,
                CardState, LockStatus, Request
<1>2. CASE q.cmd = "STATUS"
    BY <1>2 DEF handle_request, handle_cmd_status, cmd56_response_start, Sealed,
                CardState, LockStatus, Request, Response, Kinds
<1>3. CASE q.cmd = "SESSION"
    BY <1>3, <1>0 DEF handle_request, handle_generate_session_key,
                cmd56_response_start, Sealed, CardState, LockStatus, Request,
                Response, Kinds, Session
<1>a. /\ or_w_80(q.vpart) \in Nonce /\ q.vpart \in Nonce /\ q.cpart \in Nonce
      /\ Fresh80(id) \in Nonce /\ q.secondary \in Nat /\ q.session \in Session
    BY OrType, FreshType DEF Request
<1>b. /\ s.session \in Session /\ s.secondary \in Nat /\ s.lock \in LockStatus
      /\ s.random \in Nat
    BY DEF CardState
<1>4. CASE q.cmd = "SHARED"
  <2> DEFINE o == [cmd56_response_start EXCEPT !.kind = "sharedE",
                       !.session = s.session,
                       !.vpart = or_w_80(q.vpart), !.cpart = Fresh80(id)]
  <2>1. o \in Response /\ o.kind = "sharedE" /\ o.key = 0
    BY <1>a, <1>b DEF Response, Kinds, cmd56_response_start
  <2>2. t = handle_exchange_shared_random(c, s, q, id)
    BY <1>4 DEF handle_request
  <2>3. CASE q.session.key_id = CardKeyId[c]
    <3>1. t = [s EXCEPT !.vpart = or_w_80(q.vpart), !.cpart = Fresh80(id), !.out = o]
      BY <2>2, <2>3 DEF handle_exchange_shared_random
    <3> HIDE DEF o
    <3> QED BY <3>1, <2>1, <1>4, <1>a DEF CardState, Sealed
  <2>4. CASE q.session.key_id # CardKeyId[c]
    <3>1. t = [s EXCEPT !.out = cmd56_response_error(17)]
      BY <2>2, <2>4 DEF handle_exchange_shared_random
    <3> QED BY <3>1, <1>4, ErrorType DEF CardState, Sealed
  <2> QED BY <2>3, <2>4
<1>5. CASE q.cmd = "SECONDARY"
  <2> DEFINE mine == q.session = s.session
             key  == IF mine THEN q.secondary ELSE 0
  <2>1. key \in Nat /\ (key = 0 \/ (mine /\ key = q.secondary)) /\ (mine => key = q.secondary)
    BY <1>a
  <2>2. t = handle_exchange_secondary_key(s, q)
    BY <1>5 DEF handle_request
  <2>3. CASE mine /\ q.vpart = s.vpart /\ q.cpart = s.cpart
    <3>1. t = [s EXCEPT !.secondary = key, !.lock = "UNLOCKED",
                        !.out = cmd56_response_start]
      BY <2>2, <2>3 DEF handle_exchange_secondary_key
    <3>2. ~Sealed(cmd56_response_start) /\ cmd56_response_start.key = 0
      BY DEF Sealed, cmd56_response_start
    <3> HIDE DEF key
    <3> QED BY <3>1, <3>2, <2>1, <2>3, <1>5, <1>b DEF CardState, LockStatus
  <2>4. CASE ~(mine /\ q.vpart = s.vpart /\ q.cpart = s.cpart)
    <3>1. t = [s EXCEPT !.secondary = key, !.lock = "LOCKED",
                        !.out = cmd56_response_error(241)]
      BY <2>2, <2>4 DEF handle_exchange_secondary_key
    <3>2. /\ ~Sealed(cmd56_response_error(241)) /\ cmd56_response_error(241).key = 0
          /\ cmd56_response_error(241) \in Response
      BY ErrorType DEF Sealed
    <3> DEFINE o == cmd56_response_error(241)
    <3> HIDE DEF key, o
    <3>3. t = [s EXCEPT !.secondary = key, !.lock = "LOCKED", !.out = o]
      BY <3>1 DEF o
    <3>4. ~Sealed(o) /\ o.key = 0 /\ o \in Response
      BY <3>2 DEF o
    <3>5. /\ t.secondary = key /\ t.lock = "LOCKED" /\ t.out = o
          /\ t.session = s.session /\ t \in CardState
      BY <3>3, <3>4, <2>1, <1>b DEF CardState, LockStatus
    <3> QED BY <3>4, <3>5, <2>1, <1>5
  <2> QED BY <2>3, <2>4
<1>6. CASE q.cmd = "VERIFY"
  <2> DEFINE o == [cmd56_response_start EXCEPT !.kind = "verifyE",
                       !.key = s.secondary, !.vpart = or_w_80(q.vpart),
                       !.session.random = s.random]
  <2>1. o \in Response /\ o.kind = "verifyE" /\ o.key = s.secondary
    BY <1>a, <1>b DEF Response, Kinds, cmd56_response_start, Session, ZeroSession
  <2>2. t = [s EXCEPT !.out = o]
    BY <1>6 DEF handle_request, handle_verify_secondary_key
  <2> HIDE DEF o
  <2> QED BY <2>1, <2>2, <1>6 DEF CardState, Sealed
<1>7. CASE q.cmd = "P18"
  <2> DEFINE o == [cmd56_response_start EXCEPT !.kind = "p18E",
                       !.key = s.secondary, !.vpart = q.vpart, !.owner = c]
  <2>1. o \in Response /\ o.key = s.secondary /\ o.owner = c
    BY <1>a, <1>b DEF Response, Kinds, cmd56_response_start, Owner
  <2>2. \/ t = [s EXCEPT !.out = cmd56_response_error(244)]
        \/ t = [s EXCEPT !.out = cmd56_response_error(17)]
        \/ t = [s EXCEPT !.out = o]
    BY <1>7 DEF handle_request, handle_p18key_and_cmac_signature
  <2> HIDE DEF o
  <2>3. CASE t = [s EXCEPT !.out = o]
    BY <2>1, <2>3, <1>7 DEF CardState, Sealed
  <2>4. CASE \E e \in Nat : t = [s EXCEPT !.out = cmd56_response_error(e)]
    BY <2>4, <1>7, ErrorType DEF CardState, Sealed
  <2> QED BY <2>2, <2>3, <2>4
<1>8. CASE q.cmd = "P20"
    BY <1>8, OrType DEF handle_request, handle_p20key_and_cmac_signature,
                cmd56_response_start, Sealed, CardState, LockStatus, Request,
                Response, Kinds, Owner
<1> QED BY <1>1, <1>2, <1>3, <1>4, <1>5, <1>6, <1>7, <1>8 DEF Request, Commands

-----------------------------------------------------------------------------
(* The two halves of an exchange *)

(* Which command each of the ten requests carries, and which of the console's
   values it is filled with. *)
Asks(n, q, v, ch) ==
    /\ v.random = vita.random
    /\ n = 1 => q.cmd = "START"
    /\ n \in {2, 6} => q.cmd = "STATUS"
    /\ n = 3 => q.cmd = "SESSION"
    /\ n = 4 => /\ q.cmd = "SHARED" /\ q.session.key_id = vita.key_id
                /\ q.vpart.id = fresh /\ v.vpart = q.vpart
    /\ n = 5 => /\ q.cmd = "SECONDARY" /\ q.vpart = or_w_80(vita.vpart)
                /\ q.cpart = or_w_80(vita.cpart)
    /\ n # 4 /\ n # 5 => v.vpart = vita.vpart
    /\ n # 5 => q.vpart.id \in {0, fresh}
    /\ n = 7 => q.cmd = "VERIFY"
    /\ n \in {8, 9} => q.cmd = "P18" /\ q.key = vita.secondary
    /\ n = 10 => q.cmd = "P20"
    /\ n >= 7 => q.vpart = Fresh80(fresh) /\ ch = Fresh80(fresh)

(* What every request has in common; only the fifth carries a new secondary
   key, and it carries it under the session key. *)
SendFacts(n, q, v, ch) ==
    /\ n \in 1..10 /\ q \in Request /\ v \in VitaState /\ ch \in Nonce
    /\ Send(n, q, v, ch)
    /\ v.key_id = vita.key_id /\ v.session = vita.session
    /\ v.p18 = vita.p18 /\ v.p20 = vita.p20
    /\ n # 5 => q.cmd # "SECONDARY" /\ v.secondary = vita.secondary
    /\ n = 5 => /\ q.secondary = fresh /\ v.secondary = fresh
                /\ q.session = vita.session /\ q.cpart.id = vita.cpart.id
    /\ Asks(n, q, v, ch)

(* The answer a command takes: what it leaves of it in the buffer and in the
   console's state, what the fourth command compares, and that an answer that
   is as the command expects it is accepted. *)
TakenFrom(a, code, v, r) ==
    /\ k_gc_cmd56_read(a)
    /\ r.vpart = a.vpart /\ v.vpart = vita.vpart
    /\ step # 3 => v.random = vita.random
    /\ (step = 3 /\ a.kind = "session") =>
          /\ v.session = a.session /\ v.random = a.session.random
          /\ v.key_id = a.session.key_id
    /\ (step = 4 /\ code = "OK") =>
          a.kind = "sharedE" /\ a.vpart.id = vita.vpart.id /\ v.cpart = a.cpart
    /\ (/\ Accepted(present, a)
        /\ step = 3 => /\ a.session.key_id \in DerivableIds
                       /\ a.session.key_id <= PROTOTYPE_KEY_ID1) => code = "OK"

(* What every answer has in common: which fields of the console's state it may
   touch, and what was checked when it is accepted. *)
FinishFacts(code, v, r) ==
    /\ code \in Codes /\ v \in VitaState /\ r \in Response
    /\ phase = "recv" /\ faults' \in 0..MaxFaults
    /\ Finish(code, v, r)
    /\ v.secondary = vita.secondary
    /\ step # 3 => v.key_id = vita.key_id /\ v.session = vita.session
    /\ (step = 3 /\ code = "OK") => v.key_id \in DerivableIds /\ v.session.key_id = v.key_id
    /\ step \notin {8, 9} => v.p18 = vita.p18
    /\ step # 10 => v.p20 = vita.p20
    /\ Sealed(r) => r \in ReadResults /\ step < 8
    /\ (step \in {8, 9} /\ code = "OK") =>
          \E a \in ReadResults : Sealed(a) /\ a.key = vita.secondary /\ v.p18 = a.owner
    /\ (step = 10 /\ code = "OK") =>
          \E a \in ReadResults : Sealed(a) /\ a.key = vita.secondary /\ v.p20 = a.owner
    /\ \E a \in ReadResults : TakenFrom(a, code, v, r)

HostSends ==
    \/ start_request \/ get_status \/ get_session_key \/ exchange_shared_random
    \/ generate_secondary_key_and_verify_session \/ verify_secondary_key
    \/ get_packet18_key \/ get_packet20_key
HostReads ==
    \/ start_request_answer \/ get_status_answer \/ get_session_key_answer
    \/ exchange_shared_random_answer \/ generate_secondary_key_answer
    \/ verify_secondary_key_answer \/ get_packet18_key_answer
    \/ get_packet20_key_answer

(* Every sending action of the console is a Send with the common facts. *)
LEMMA SendLemma ==
    ASSUME TypeOK, HostSends
    PROVE  \E n, q, v, ch : SendFacts(n, q, v, ch)
<1> USE DEF TypeOK
<1>v. vita \in VitaState /\ fresh \in Nat /\ chal \in Nonce
    OBVIOUS
<1>n. vita.vpart \in Nonce /\ vita.cpart \in Nonce /\ vita.session \in Session
      /\ vita.secondary \in Nat /\ vita.key_id \in KeyIds
    BY DEF VitaState
<1>f. Fresh80(fresh) \in Nonce /\ Fresh80(fresh).id = fresh
    BY FreshType
<1>r. \A cmd \in Commands : cmd56_request_start(cmd) \in Request
                            /\ cmd56_request_start(cmd).cmd = cmd
                            /\ cmd56_request_start(cmd).vpart.id = 0
    BY RequestType DEF cmd56_request_start, ZeroNonce
<1>1. CASE start_request
  <2>1. SendFacts(1, cmd56_request_start("START"), vita, chal)
    BY <1>1, <1>v, <1>r DEF start_request, SendFacts, Asks, Commands
  <2> QED BY <2>1
<1>2. CASE get_status
  <2>1. PICK n \in {2, 6} : Send(n, cmd56_request_start("STATUS"), vita, chal)
    BY <1>2 DEF get_status
  <2>2. SendFacts(n, cmd56_request_start("STATUS"), vita, chal)
    BY <2>1, <1>v, <1>r DEF SendFacts, Asks, Commands
  <2> QED BY <2>2
<1>3. CASE get_session_key
  <2>1. SendFacts(3, cmd56_request_start("SESSION"), vita, chal)
    BY <1>3, <1>v, <1>r DEF get_session_key, SendFacts, Asks, Commands
  <2> QED BY <2>1
<1>4. CASE exchange_shared_random
  <2>1. PICK hi \in BOOLEAN :
            Send(4, [cmd56_request_start("SHARED") EXCEPT
                        !.session.key_id = vita.key_id,
                        !.vpart = [id |-> fresh, hi |-> hi]],
                 [vita EXCEPT !.vpart = [id |-> fresh, hi |-> hi]], chal)
    BY <1>4 DEF exchange_shared_random
  <2> DEFINE q == [cmd56_request_start("SHARED") EXCEPT
                        !.session.key_id = vita.key_id,
                        !.vpart = [id |-> fresh, hi |-> hi]]
             v == [vita EXCEPT !.vpart = [id |-> fresh, hi |-> hi]]
  <2>2. [id |-> fresh, hi |-> hi] \in Nonce
    BY DEF Nonce
  <2>3. /\ q \in Request /\ q.cmd = "SHARED"
        /\ q.session.key_id = vita.key_id /\ q.vpart = [id |-> fresh, hi |-> hi]
    BY <2>2, <1>r, <1>n DEF Request, Session, Commands
  <2>4. /\ v \in VitaState /\ v.key_id = vita.key_id /\ v.session = vita.session
        /\ v.p18 = vita.p18 /\ v.p20 = vita.p20 /\ v.secondary = vita.secondary
        /\ v.random = vita.random /\ v.vpart = [id |-> fresh, hi |-> hi]
    BY <2>2, <1>v DEF VitaState
  <2>5. SendFacts(4, q, v, chal)
    <3> HIDE DEF q, v
    <3>1. Send(4, q, v, chal)
      BY <2>1 DEF q, v
    <3>2. Asks(4, q, v, chal)
      BY <2>3, <2>4 DEF Asks
    <3> QED BY <3>1, <3>2, <2>3, <2>4, <1>v DEF SendFacts
  <2> QED BY <2>5
<1>5. CASE generate_secondary_key_and_verify_session
  <2> DEFINE v == [vita EXCEPT !.secondary = fresh, !.vpart = or_w_80(vita.vpart),
                               !.cpart = or_w_80(vita.cpart)]
             q == [cmd56_request_start("SECONDARY") EXCEPT
                      !.session = v.session, !.secondary = fresh,
                      !.vpart = v.vpart, !.cpart = v.cpart]
  <2>1. /\ or_w_80(vita.vpart) \in Nonce /\ or_w_80(vita.cpart) \in Nonce
        /\ or_w_80(vita.cpart).id = vita.cpart.id
    BY OrType, <1>n
  <2>2. /\ v \in VitaState /\ v.key_id = vita.key_id /\ v.session = vita.session
        /\ v.p18 = vita.p18 /\ v.p20 = vita.p20 /\ v.secondary = fresh
        /\ v.vpart \in Nonce /\ v.cpart \in Nonce /\ v.cpart.id = vita.cpart.id
        /\ v.random = vita.random /\ v.vpart = or_w_80(vita.vpart)
        /\ v.cpart = or_w_80(vita.cpart)
    BY <2>1, <1>v DEF VitaState
  <2>3. Send(5, q, v, chal)
    BY <1>5 DEF generate_secondary_key_and_verify_session
  <2> HIDE DEF v
  <2>4. /\ q \in Request /\ q.secondary = fresh /\ q.session = vita.session
        /\ q.cmd = "SECONDARY" /\ q.vpart = v.vpart /\ q.cpart = v.cpart
    BY <2>2, <1>r, <1>n, <1>v DEF Request, Commands
  <2> HIDE DEF q
  <2>5. Asks(5, q, v, chal)
    BY <2>2, <2>4 DEF Asks
  <2>6. SendFacts(5, q, v, chal)
    BY <2>2, <2>3, <2>4, <2>5, <1>v DEF SendFacts
  <2> QED BY <2>6
<1>6. CASE verify_secondary_key
  <2> DEFINE q == [cmd56_request_start("VERIFY") EXCEPT !.vpart = Fresh80(fresh)]
  <2>1. q \in Request /\ q.cmd = "VERIFY" /\ q.vpart = Fresh80(fresh)
    BY <1>r, <1>f DEF Request, Commands
  <2>2. Send(7, q, vita, Fresh80(fresh))
    BY <1>6 DEF verify_secondary_key
  <2> HIDE DEF q
  <2>3. SendFacts(7, q, vita, Fresh80(fresh))
    BY <2>1, <2>2, <1>v, <1>f DEF SendFacts, Asks
  <2> QED BY <2>3
<1>7. CASE get_packet18_key
  <2>1. PICK n \in {8, 9} :
            Send(n, [cmd56_request_start("P18") EXCEPT !.key = vita.secondary,
                        !.type = n - 6, !.vpart = Fresh80(fresh)],
                 vita, Fresh80(fresh))
    BY <1>7 DEF get_packet18_key
  <2> DEFINE q == [cmd56_request_start("P18") EXCEPT !.key = vita.secondary,
                        !.type = n - 6, !.vpart = Fresh80(fresh)]
  <2>2. n - 6 \in Nat /\ n \in 1..10 /\ n # 5
    OBVIOUS
  <2>3. /\ q \in Request /\ q.cmd = "P18" /\ q.vpart = Fresh80(fresh)
        /\ q.key = vita.secondary
    BY <2>2, <1>r, <1>f, <1>n DEF Request, Commands
  <2>4. Send(n, q, vita, Fresh80(fresh))
    BY <2>1
  <2> HIDE DEF q
  <2>5. SendFacts(n, q, vita, Fresh80(fresh))
    BY <2>1, <2>2, <2>3, <2>4, <1>v, <1>f DEF SendFacts, Asks
  <2> QED BY <2>5
<1>8. CASE get_packet20_key
  <2> DEFINE q == [cmd56_request_start("P20") EXCEPT !.vpart = Fresh80(fresh)]
  <2>1. q \in Request /\ q.cmd = "P20" /\ q.vpart = Fresh80(fresh)
    BY <1>r, <1>f DEF Request, Commands
  <2>2. Send(10, q, vita, Fresh80(fresh))
    BY <1>8 DEF get_packet20_key
  <2> HIDE DEF q
  <2>3. SendFacts(10, q, vita, Fresh80(fresh))
    BY <2>1, <2>2, <1>v, <1>f DEF SendFacts, Asks
  <2> QED BY <2>3
<1> QED BY <1>1, <1>2, <1>3, <1>4, <1>5, <1>6, <1>7, <1>8 DEF HostSends

(* Whatever a read leaves in the buffer is an answer, and a failed transfer is
   counted. *)
LEMMA ReadLemma ==
    ASSUME TypeOK, NEW n, NEW r \in ReadResults, Recv(n, r)
    PROVE  /\ r \in Response /\ phase = "recv" /\ step = n
           /\ faults' \in 0..MaxFaults
<1>1. r \in Response
  <2>1. CASE r = response
    BY <2>1 DEF TypeOK
  <2>2. CASE present # NoCart /\ r = card[present].out
    BY <2>2 DEF TypeOK, Owner, CardState
  <2> QED BY <2>1, <2>2 DEF ReadResults
<1>2. faults' \in 0..MaxFaults
    BY BoundsAssumption DEF Recv, k_gc_cmd56_read, TransferFails, TypeOK
<1> QED BY <1>1, <1>2 DEF Recv

(* The codes a command can return. *)
LEMMA CodeTypes ==
    ASSUME NEW r, NEW d, NEW k, NEW n, NEW b
    PROVE  /\ GC_AUTH_RETURN_STATUS(r) \in Codes
           /\ LockCode(n, r, b) \in Codes
           /\ KeyIdCode(r, k) \in Codes
           /\ SharedCode(r, d) \in Codes
           /\ VerifyCode(d) \in Codes
           /\ P18Code(r) \in Codes
           /\ P20Code(r) \in Codes
BY DEF GC_AUTH_RETURN_STATUS, LockCode, KeyIdCode, SharedCode, VerifyCode,
       P18Code, P20Code, Codes

(* Every reading action of the console is a Finish with the common facts. *)
LEMMA FinishLemma ==
    ASSUME TypeOK, HostReads
    PROVE  \E code, v, r : FinishFacts(code, v, r)
<1>v. vita \in VitaState
    BY DEF TypeOK
<1>1. CASE start_request_answer
  <2>0. PICK r \in ReadResults : \E b \in StatusViews(r) :
            /\ Recv(1, r)
            /\ Finish(IF b = "UNLOCKED" THEN GC_AUTH_RETURN_STATUS(r)
                      ELSE "START_FAIL", vita, r)
    BY <1>1 DEF start_request_answer
  <2>1. PICK b \in StatusViews(r) :
            /\ Recv(1, r)
            /\ Finish(IF b = "UNLOCKED" THEN GC_AUTH_RETURN_STATUS(r)
                      ELSE "START_FAIL", vita, r)
    BY <2>0
  <2> DEFINE code == IF b = "UNLOCKED" THEN GC_AUTH_RETURN_STATUS(r) ELSE "START_FAIL"
  <2>2. code \in Codes
    BY CodeTypes DEF Codes
  <2>3. Finish(code, vita, r)
    BY <2>1
  <2>t. TakenFrom(r, code, vita, r)
    BY <2>1 DEF TakenFrom, Accepted, Recv, StatusViews, GC_AUTH_RETURN_STATUS
  <2> HIDE DEF code
  <2>4. FinishFacts(code, vita, r)
    BY <1>v, <2>1, <2>2, <2>3, <2>t, ReadLemma DEF FinishFacts
  <2> QED BY <2>4
<1>2. CASE get_status_answer
  <2>0. PICK n \in {2, 6}, r \in ReadResults : \E b \in StatusViews(r) :
            Recv(n, r) /\ Finish(LockCode(n, r, b), [vita EXCEPT !.lock = b], r)
    BY <1>2 DEF get_status_answer
  <2>1. PICK b \in StatusViews(r) :
            Recv(n, r) /\ Finish(LockCode(n, r, b), [vita EXCEPT !.lock = b], r)
    BY <2>0
  <2>2. r \in Response /\ phase = "recv" /\ step = n /\ faults' \in 0..MaxFaults
    BY <2>1, ReadLemma
  <2>3. b \in LockStatus
    BY <2>2 DEF StatusViews, LockStatus, Response
  <2> DEFINE v == [vita EXCEPT !.lock = b]
  <2>4. /\ v \in VitaState /\ v.key_id = vita.key_id /\ v.session = vita.session
        /\ v.p18 = vita.p18 /\ v.p20 = vita.p20 /\ v.secondary = vita.secondary
        /\ v.vpart = vita.vpart /\ v.random = vita.random
    BY <2>3, <1>v DEF VitaState
  <2>5. Finish(LockCode(n, r, b), v, r)
    BY <2>1
  <2> HIDE DEF v
  <2>t. TakenFrom(r, LockCode(n, r, b), v, r)
    BY <2>1, <2>2, <2>4 DEF TakenFrom, Accepted, Recv, StatusViews, LockCode
  <2>6. FinishFacts(LockCode(n, r, b), v, r)
    BY <2>2, <2>4, <2>5, <2>t, CodeTypes DEF FinishFacts
  <2> QED BY <2>6
<1>3. CASE get_session_key_answer
  <2>0. PICK r \in ReadResults : \E k \in KeyIdViews(r) :
            LET random == IF r.kind = "session" THEN r.session.random ELSE 0
            IN  /\ Recv(3, r)
                /\ Finish(KeyIdCode(r, k),
                      [vita EXCEPT !.key_id = k, !.random = random,
                                   !.session = [key_id |-> k, random |-> random]],
                      r)
    BY <1>3 DEF get_session_key_answer
  <2>1. PICK k \in KeyIdViews(r) :
            LET random == IF r.kind = "session" THEN r.session.random ELSE 0
            IN  /\ Recv(3, r)
                /\ Finish(KeyIdCode(r, k),
                      [vita EXCEPT !.key_id = k, !.random = random,
                                   !.session = [key_id |-> k, random |-> random]],
                      r)
    BY <2>0
  <2> DEFINE random == IF r.kind = "session" THEN r.session.random ELSE 0
             v == [vita EXCEPT !.key_id = k, !.random = random,
                               !.session = [key_id |-> k, random |-> random]]
  <2>2. r \in Response /\ phase = "recv" /\ step = 3 /\ faults' \in 0..MaxFaults
    BY <2>1, ReadLemma
  <2>3. k \in KeyIds
    BY <2>2 DEF KeyIdViews, KeyIds, Response, Session
  <2>4. random \in Nat
    BY <2>2 DEF Response, Session
  <2>r. r.kind = "session" => /\ k = r.session.key_id /\ random = r.session.random
                              /\ r.session = [key_id |-> k, random |-> random]
    BY <2>2 DEF KeyIdViews, Response, Session
  <2> HIDE DEF random
  <2>5. /\ v \in VitaState /\ v.key_id = k /\ v.session.key_id = k
        /\ v.p18 = vita.p18 /\ v.p20 = vita.p20 /\ v.secondary = vita.secondary
        /\ v.vpart = vita.vpart /\ v.random = random
        /\ v.session = [key_id |-> k, random |-> random]
    BY <2>3, <2>4, <1>v DEF VitaState, Session
  <2>6. KeyIdCode(r, k) = "OK" => k \in DerivableIds
    BY DEF KeyIdCode
  <2>7. Finish(KeyIdCode(r, k), v, r)
    BY <2>1 DEF random
  <2> HIDE DEF v
  <2>k. (/\ r.error = 0 /\ k \in DerivableIds
         /\ k <= PROTOTYPE_KEY_ID1) => KeyIdCode(r, k) = "OK"
    BY DEF KeyIdCode, GC_AUTH_RETURN_STATUS, DerivableIds
  <2>t. TakenFrom(r, KeyIdCode(r, k), v, r)
    BY <2>1, <2>2, <2>5, <2>r, <2>k DEF TakenFrom, Accepted, Recv
  <2>8. FinishFacts(KeyIdCode(r, k), v, r)
    BY <2>1, <2>2, <2>5, <2>6, <2>7, <2>t, CodeTypes DEF FinishFacts
  <2> QED BY <2>8
<1>4. CASE exchange_shared_random_answer
  <2>1. PICK r \in ReadResults :
            /\ Recv(4, r)
            /\ Finish(SharedCode(r, DecryptShared(vita.session, r)),
                      [vita EXCEPT !.cpart = DecryptShared(vita.session, r).cpart],
                      DecryptShared(vita.session, r))
    BY <1>4 DEF exchange_shared_random_answer
  <2> DEFINE d == DecryptShared(vita.session, r)
             v == [vita EXCEPT !.cpart = d.cpart]
  <2>2. r \in Response /\ phase = "recv" /\ step = 4 /\ faults' \in 0..MaxFaults
    BY <2>1, ReadLemma
  <2>3. d \in Response /\ ~Sealed(d)
    BY <2>2 DEF DecryptShared, Response, Kinds, Sealed
  <2>d. /\ d.vpart = r.vpart /\ d.cpart = r.cpart
        /\ d.kind = "shared" <=> r.kind = "sharedE" /\ r.session = vita.session
    BY <2>2 DEF DecryptShared, Response
  <2> HIDE DEF d
  <2>4. /\ v \in VitaState /\ v.key_id = vita.key_id /\ v.session = vita.session
        /\ v.p18 = vita.p18 /\ v.p20 = vita.p20 /\ v.secondary = vita.secondary
        /\ v.vpart = vita.vpart /\ v.random = vita.random /\ v.cpart = d.cpart
    BY <2>3, <1>v DEF VitaState, Response
  <2>5. Finish(SharedCode(r, d), v, d)
    BY <2>1 DEF d
  <2> HIDE DEF v
  <2>t. TakenFrom(r, SharedCode(r, d), v, d)
    BY <2>1, <2>2, <2>4, <2>d DEF TakenFrom, Accepted, Recv, SharedCode
  <2>6. FinishFacts(SharedCode(r, d), v, d)
    BY <2>2, <2>3, <2>4, <2>5, <2>t, CodeTypes DEF FinishFacts
  <2> QED BY <2>6
<1>5. CASE generate_secondary_key_answer
  <2>1. PICK r \in ReadResults :
            Recv(5, r) /\ Finish(GC_AUTH_RETURN_STATUS(r), vita, r)
    BY <1>5 DEF generate_secondary_key_answer
  <2>2. r \in Response /\ phase = "recv" /\ step = 5 /\ faults' \in 0..MaxFaults
    BY <2>1, ReadLemma
  <2>t. TakenFrom(r, GC_AUTH_RETURN_STATUS(r), vita, r)
    BY <2>1, <2>2 DEF TakenFrom, Accepted, Recv, GC_AUTH_RETURN_STATUS
  <2>3. FinishFacts(GC_AUTH_RETURN_STATUS(r), vita, r)
    BY <1>v, <2>1, <2>2, <2>t, CodeTypes DEF FinishFacts
  <2> QED BY <2>3
<1>6. CASE verify_secondary_key_answer
  <2>1. PICK r \in ReadResults :
            Recv(7, r) /\ Finish(VerifyCode(DecryptVerify(vita.secondary, r)), vita,
                                 DecryptVerify(vita.secondary, r))
    BY <1>6 DEF verify_secondary_key_answer
  <2> DEFINE d == DecryptVerify(vita.secondary, r)
  <2>2. r \in Response /\ phase = "recv" /\ step = 7 /\ faults' \in 0..MaxFaults
    BY <2>1, ReadLemma
  <2>3. d \in Response /\ ~Sealed(d)
    BY <2>2 DEF DecryptVerify, Response, Kinds, Sealed
  <2>d. /\ d.vpart = r.vpart /\ d.session = r.session /\ d.error = r.error
        /\ r.kind = "verifyE" /\ r.key = vita.secondary => d.kind = "verify"
    BY <2>2 DEF DecryptVerify, Response
  <2>4. Finish(VerifyCode(d), vita, d)
    BY <2>1
  <2> HIDE DEF d
  <2>t. TakenFrom(r, VerifyCode(d), vita, d)
    BY <2>1, <2>2, <2>d DEF TakenFrom, Accepted, Recv, VerifyCode, GC_AUTH_RETURN_STATUS
  <2>5. FinishFacts(VerifyCode(d), vita, d)
    BY <1>v, <2>1, <2>2, <2>3, <2>4, <2>t, CodeTypes DEF FinishFacts
  <2> QED BY <2>5
<1>7. CASE get_packet18_key_answer
  <2>1. PICK n \in {8, 9}, r \in ReadResults :
            /\ Recv(n, r)
            /\ Finish(P18Code(r), [vita EXCEPT !.p18 = r.owner], [r EXCEPT !.kind = "p18"])
    BY <1>7 DEF get_packet18_key_answer
  <2> DEFINE v == [vita EXCEPT !.p18 = r.owner]
             o == [r EXCEPT !.kind = "p18"]
  <2>2. r \in Response /\ phase = "recv" /\ step = n /\ faults' \in 0..MaxFaults
    BY <2>1, ReadLemma
  <2>3. o \in Response /\ ~Sealed(o)
    BY <2>2 DEF Response, Kinds, Sealed
  <2>4. /\ v \in VitaState /\ v.key_id = vita.key_id /\ v.session = vita.session
        /\ v.p18 = r.owner /\ v.p20 = vita.p20 /\ v.secondary = vita.secondary
    BY <2>2, <1>v DEF VitaState, Response
  <2>5. Finish(P18Code(r), v, o)
    BY <2>1
  <2>6. P18Code(r) = "OK" => Sealed(r) /\ r.key = vita.secondary
    BY DEF P18Code, CmacMatches, Sealed
  <2>o. o.vpart = r.vpart /\ v.vpart = vita.vpart /\ v.random = vita.random
    BY <2>2, <1>v DEF Response, VitaState
  <2> HIDE DEF v, o
  <2>t. TakenFrom(r, P18Code(r), v, o)
    BY <2>1, <2>2, <2>o DEF TakenFrom, Accepted, Recv, P18Code, CmacMatches
  <2>7. FinishFacts(P18Code(r), v, o)
    BY <2>1, <2>2, <2>3, <2>4, <2>5, <2>6, <2>t, CodeTypes DEF FinishFacts
  <2> QED BY <2>7
<1>8. CASE get_packet20_key_answer
  <2>1. PICK r \in ReadResults :
            /\ Recv(10, r)
            /\ Finish(P20Code(r), [vita EXCEPT !.p20 = r.owner], [r EXCEPT !.kind = "p20"])
    BY <1>8 DEF get_packet20_key_answer
  <2> DEFINE v == [vita EXCEPT !.p20 = r.owner]
             o == [r EXCEPT !.kind = "p20"]
  <2>2. r \in Response /\ phase = "recv" /\ step = 10 /\ faults' \in 0..MaxFaults
    BY <2>1, ReadLemma
  <2>3. o \in Response /\ ~Sealed(o)
    BY <2>2 DEF Response, Kinds, Sealed
  <2>4. /\ v \in VitaState /\ v.key_id = vita.key_id /\ v.session = vita.session
        /\ v.p18 = vita.p18 /\ v.p20 = r.owner /\ v.secondary = vita.secondary
    BY <2>2, <1>v DEF VitaState, Response
  <2>5. Finish(P20Code(r), v, o)
    BY <2>1
  <2>6. P20Code(r) = "OK" => Sealed(r) /\ r.key = vita.secondary
    BY DEF P20Code, CmacMatches, Sealed
  <2>o. o.vpart = r.vpart /\ v.vpart = vita.vpart /\ v.random = vita.random
    BY <2>2, <1>v DEF Response, VitaState
  <2> HIDE DEF v, o
  <2>t. TakenFrom(r, P20Code(r), v, o)
    BY <2>1, <2>2, <2>o DEF TakenFrom, Accepted, Recv, P20Code, CmacMatches
  <2>7. FinishFacts(P20Code(r), v, o)
    BY <2>1, <2>2, <2>3, <2>4, <2>5, <2>6, <2>t, CodeTypes DEF FinishFacts
  <2> QED BY <2>7
<1> QED BY <1>1, <1>2, <1>3, <1>4, <1>5, <1>6, <1>7, <1>8 DEF HostReads

-----------------------------------------------------------------------------
(* Type correctness *)

(* The split of Next that the proofs use. *)
LEMMA NextSplit ==
    Next => k_run_authentication \/ HostSends \/ HostReads \/ RemoveCard \/ InsertCard
BY DEF Next, HostNext, HostSends, HostReads

(* A write either leaves the cards alone or lets the card in the slot handle
   the request. *)
LEMMA WriteLemma ==
    ASSUME TypeOK, NEW q \in Request, k_gc_cmd56_write(q)
    PROVE  /\ faults' \in 0..MaxFaults
           /\ card' \in [Carts -> CardState]
           /\ \/ card' = card
              \/ /\ present \in Carts
                 /\ card' = [card EXCEPT ![present] =
                                handle_request(present, card[present], q, fresh + 1)]
<1>1. faults' \in 0..MaxFaults
    BY BoundsAssumption DEF k_gc_cmd56_write, TransferFails, TypeOK
<1>2. CASE card' = card
    BY <1>1, <1>2 DEF TypeOK
<1>3. CASE /\ present # NoCart
           /\ card' = [card EXCEPT ![present] =
                          handle_request(present, card[present], q, fresh + 1)]
  <2>1. present \in Carts /\ card[present] \in CardState /\ fresh + 1 \in Nat
    BY <1>3 DEF TypeOK, Owner
  <2>2. handle_request(present, card[present], q, fresh + 1) \in CardState
    BY <2>1, HandleRequest
  <2> QED BY <1>1, <1>3, <2>1, <2>2 DEF TypeOK
<1> QED BY <1>2, <1>3 DEF k_gc_cmd56_write

(* Sending a request keeps the state well typed. *)
LEMMA SendType ==
    ASSUME TypeOK, NEW n, NEW q, NEW v, NEW ch, SendFacts(n, q, v, ch)
    PROVE  TypeOK'
<1>1. /\ faults' \in 0..MaxFaults /\ card' \in [Carts -> CardState]
    BY WriteLemma DEF SendFacts, Send
<1> QED BY <1>1 DEF SendFacts, Send, TypeOK

(* So does taking an answer, whether it ends the run or not. *)
LEMMA FinishType ==
    ASSUME TypeOK, NEW code, NEW v, NEW r, FinishFacts(code, v, r)
    PROVE  TypeOK'
<1>1. CASE code = "OK" /\ step < 10
    BY <1>1, ZeroTypes DEF FinishFacts, Finish, TypeOK
<1>2. CASE ~(code = "OK" /\ step < 10)
  <2>1. vita' \in VitaState
    BY <1>2, ZeroTypes DEF FinishFacts, Finish
  <2>2. auth' \in BOOLEAN
    BY <1>2 DEF FinishFacts, Finish
  <2> QED BY <1>2, <2>1, <2>2, ZeroTypes DEF FinishFacts, Finish, TypeOK
<1> QED BY <1>1, <1>2

(* So does every step: of the console, of the link and of the slot. *)
LEMMA StepType == TypeOK /\ [Next]_vars => TypeOK'
<1> SUFFICES ASSUME TypeOK, [Next]_vars PROVE TypeOK'
    OBVIOUS
<1>1. CASE k_run_authentication
  <2>1. auth' \in BOOLEAN
    BY <1>1 DEF k_run_authentication
  <2>2. runs' \in 0..MaxRuns
    BY <1>1, BoundsAssumption DEF k_run_authentication, TypeOK
  <2>3. seen' \subseteq Carts
    BY <1>1 DEF k_run_authentication, TypeOK, Owner
  <2> QED BY <1>1, <2>1, <2>2, <2>3, ZeroTypes DEF k_run_authentication, TypeOK
<1>2. CASE HostSends
    BY <1>2, SendLemma, SendType
<1>3. CASE HostReads
    BY <1>3, FinishLemma, FinishType
<1>4. CASE RemoveCard
  <2>1. card' \in [Carts -> CardState]
    BY <1>4, ZeroTypes DEF RemoveCard, TypeOK
  <2> QED BY <1>4, <2>1, BoundsAssumption DEF RemoveCard, TypeOK, Owner, hostVars
<1>5. CASE InsertCard
    BY <1>5 DEF InsertCard, TypeOK, Owner, hostVars
<1>6. CASE UNCHANGED vars
    BY <1>6 DEF vars, TypeOK
<1> QED BY <1>1, <1>2, <1>3, <1>4, <1>5, <1>6, NextSplit

(* The state before the first run is well typed. *)
LEMMA InitType == Init => TypeOK
<1>1. Init => auth \in BOOLEAN
    BY DEF Init
<1>2. Init => runs \in 0..MaxRuns /\ faults \in 0..MaxFaults
    BY BoundsAssumption DEF Init
<1> QED BY <1>1, <1>2, ZeroTypes DEF Init, TypeOK

(* The buffers, the session state of both ends and the counters keep their
   types through every run, fault and card swap. *)
THEOREM TypeCorrect == Spec => []TypeOK
BY InitType, StepType, PTL DEF Spec

-----------------------------------------------------------------------------
(* One card per key pair *)

(* Sending a request: a card's knowledge grows only when it takes the fifth
   request, and then only by the secondary key in it. *)
LEMMA CardsAfterSend ==
    ASSUME TypeOK, CardInv, NEW n, NEW q, NEW v, NEW ch, SendFacts(n, q, v, ch)
    PROVE  /\ CardInv'
           /\ \A c \in Carts, k \in Nat \ {0} :
                 n # 5 /\ Knows(c, k)' => Knows(c, k)
           /\ \A c \in Carts :
                 n = 5 /\ Knows(c, vita.secondary)' => c = present /\ card[c].session = vita.session
<1> DEFINE t == handle_request(present, card[present], q, fresh + 1)
<1>f. fresh' = fresh + 2 /\ fresh \in Nat
    BY DEF SendFacts, Send, TypeOK
<1>g. n = 5 => vita'.secondary = fresh
    BY DEF SendFacts, Send
<1>1. CASE card' = card
  <2>1. \A c \in Carts : card[c].secondary \in Nat /\ card[c].out.key \in Nat
    BY DEF TypeOK, CardState, Response
  <2>2. CardInv'
    BY <1>1, <1>f, <2>1 DEF CardInv, Sealed
  <2>3. \A c \in Carts : ~Knows(c, fresh)
    BY <1>f, <2>1 DEF CardInv, Knows
  <2>4. \A c \in Carts : n = 5 => ~Knows(c, vita.secondary)'
    BY <1>1, <1>g, <2>3 DEF Knows
  <2>5. \A c \in Carts, k \in Nat \ {0} : Knows(c, k)' => Knows(c, k)
    BY <1>1 DEF Knows
  <2> QED BY <2>2, <2>4, <2>5
<1>2. CASE present \in Carts /\ card' = [card EXCEPT ![present] = t]
  <2>1. card[present] \in CardState /\ q \in Request /\ fresh + 1 \in Nat
    BY <1>2, <1>f DEF TypeOK, SendFacts
  <2>2. /\ t \in CardState
        /\ t.out.key = 0 \/ (t.out.key = t.secondary /\ q.cmd # "SECONDARY")
        /\ Sealed(t.out) => t.out.owner = present /\ t.out.key = t.secondary
        /\ q.cmd # "SECONDARY" => t.secondary = card[present].secondary
        /\ q.cmd = "SECONDARY" =>
             /\ ~Sealed(t.out)
             /\ t.secondary = 0 \/ (t.secondary = q.secondary
                                    /\ q.session = card[present].session)
        /\ t.session = card[present].session
           \/ t.session.key_id = CardKeyId[present]
    BY <1>2, <2>1, HandleRequest
  <2> HIDE DEF t
  <2>3. /\ card'[present] = t
        /\ \A c \in Carts : c # present => card'[c] = card[c]
    BY <1>2 DEF TypeOK
  <2>4. \A c \in Carts : card[c].secondary \in Nat /\ card[c].out.key \in Nat
    BY DEF TypeOK, CardState, Response
  <2>5. /\ n = 5 => q.secondary = fresh /\ q.session = vita.session
        /\ n # 5 => q.cmd # "SECONDARY"
    BY DEF SendFacts
  <2>6. t.secondary < fresh + 2 /\ t.out.key < fresh + 2
    BY <1>2, <1>f, <2>2, <2>4, <2>5 DEF CardInv, SendFacts
  <2>7. CardInv'
    BY <1>2, <1>f, <2>2, <2>3, <2>4, <2>6 DEF CardInv, Sealed
  <2>8. ASSUME NEW c \in Carts, NEW k \in Nat \ {0}, n # 5, Knows(c, k)'
        PROVE  Knows(c, k)
    BY <2>2, <2>3, <2>5, <2>8 DEF Knows, Sealed
  <2>9. ASSUME NEW c \in Carts, n = 5, Knows(c, vita.secondary)'
        PROVE  c = present /\ card[c].session = vita.session
    <3>1. ~Knows(c, fresh)
      BY <1>f, <2>4 DEF CardInv, Knows
    <3>2. c = present
      BY <2>3, <2>9, <3>1, <1>g DEF Knows, Sealed
    <3>3. t.secondary = fresh \/ (Sealed(t.out) /\ t.out.key = fresh)
      BY <2>3, <2>9, <3>2, <1>g DEF Knows, Sealed
    <3>4. t.secondary = fresh
      BY <3>3, <2>2
    <3>5. card[present].secondary # fresh /\ fresh # 0
      BY <1>2, <1>f, <2>4 DEF CardInv, TypeOK
    <3> QED BY <3>2, <3>4, <3>5, <2>2, <2>5
  <2> QED BY <2>7, <2>8, <2>9
<1>3. card' = card \/ (present \in Carts /\ card' = [card EXCEPT ![present] = t])
    BY WriteLemma DEF SendFacts, Send
<1> QED BY <1>1, <1>2, <1>3

(* Sending a request preserves the invariant. *)
LEMMA SendInv ==
    ASSUME KeyInv, NEW n, NEW q, NEW v, NEW ch, SendFacts(n, q, v, ch)
    PROVE  KeyInv'
<1> USE DEF KeyInv
<1>t. TypeOK'
    BY SendType
<1>1. /\ phase = "send" /\ phase' = "recv" /\ step = n /\ step' = step
      /\ vita' = v /\ fresh' = fresh + 2 /\ fresh \in Nat \ {0}
      /\ response' = response /\ auth' = auth /\ present' = present /\ seen' = seen
      /\ step \in 1..10 /\ response.key \in Nat
    BY DEF SendFacts, Send, TypeOK, Response
<1>2. /\ v.key_id = vita.key_id /\ v.session = vita.session /\ v.p18 = vita.p18
      /\ n # 5 => v.secondary = vita.secondary
      /\ n = 5 => v.secondary = fresh
    BY DEF SendFacts
<1>3. /\ CardInv'
      /\ \A c \in Carts, k \in Nat \ {0} : n # 5 /\ Knows(c, k)' => Knows(c, k)
      /\ \A c \in Carts : n = 5 /\ Knows(c, vita.secondary)' =>
                              c = present /\ card[c].session = vita.session
    BY CardsAfterSend
<1>4. RunInv'
    BY <1>1, <1>2 DEF RunInv, Sealed
<1>5. KeysFromOneCard'
    BY <1>1 DEF RunInv, KeysFromOneCard
<1>6. HolderInv'
  <2>1. CASE n = 5
    <3>1. ~(Sealed(response) /\ response.key = fresh)
      BY <1>1 DEF RunInv
    <3>2. ASSUME NEW c \in Carts, Knows(c, vita.secondary)'
          PROVE  SoleHolder(c)'
      <4>1. c = present /\ card[c].session = vita.session
        BY <1>3, <2>1, <3>2
      <4>2. CardKeyId[c] = vita.key_id
        BY <4>1, <1>1, <2>1 DEF CardInv, RunInv, DerivableIds
      <4>3. c \in seen
        BY <4>1, <1>1, CartsAssumption DEF RunInv
      <4>4. \A d \in Carts : Knows(d, vita.secondary)' => d = c
        BY <1>3, <2>1, <4>1
      <4> QED BY <4>2, <4>3, <4>4, <1>1, <1>2 DEF SoleHolder
    <3> QED BY <2>1, <3>1, <3>2, <1>1, <1>2 DEF HolderInv, Sealed
  <2>2. CASE n # 5
    <3> SUFFICES ASSUME vita.secondary # 0 PROVE HolderInv'
      BY <1>1, <1>2, <2>2 DEF HolderInv
    <3>1. vita.secondary \in Nat \ {0} /\ vita'.secondary = vita.secondary
          /\ vita'.key_id = vita.key_id /\ vita'.p18 = vita.p18
      BY <1>1, <1>2, <2>2 DEF TypeOK, VitaState
    <3>2. \A c \in Carts : Knows(c, vita.secondary)' => Knows(c, vita.secondary)
      BY <1>3, <2>2, <3>1 DEF Knows
    <3>3. \A c : SoleHolder(c) => SoleHolder(c)'
      BY <3>1, <3>2, <1>1 DEF SoleHolder
    <3> QED BY <1>1, <3>1, <3>2, <3>3 DEF HolderInv, Sealed
  <2> QED BY <2>1, <2>2
<1> QED BY <1>t, <1>3, <1>4, <1>5, <1>6

(* A sealed answer that a read can return under the console's secondary key
   carries a key of the one card that holds it. *)
LEMMA ReadOwner ==
    ASSUME KeyInv, phase # "idle", vita.secondary # 0,
           NEW a \in ReadResults, Sealed(a), a.key = vita.secondary
    PROVE  /\ SoleHolder(a.owner)
           /\ step >= 9 => a.owner = vita.p18
<1> USE DEF KeyInv
<1>1. CASE a = response
  <2>1. step \in 1..10
    BY DEF TypeOK
  <2> QED BY <1>1, <2>1 DEF HolderInv, RunInv
<1>2. CASE present # NoCart /\ a = card[present].out
  <2>1. present \in Carts
    BY <1>2 DEF TypeOK, Owner
  <2>2. Knows(present, vita.secondary) /\ a.owner = present
    BY <1>2, <2>1 DEF Knows, CardInv
  <2>3. SoleHolder(present)
    BY <2>1, <2>2 DEF HolderInv
  <2>4. step >= 9 => present = vita.p18
    BY <2>1, <2>2 DEF HolderInv, SoleHolder
  <2> QED BY <2>2, <2>3, <2>4
<1> QED BY <1>1, <1>2 DEF ReadResults

(* Taking an answer preserves the invariant. *)
LEMMA FinishInv ==
    ASSUME KeyInv, NEW code, NEW v, NEW r, FinishFacts(code, v, r)
    PROVE  KeyInv'
<1> USE DEF KeyInv
<1>t. TypeOK'
    BY FinishType
<1>1. /\ present' = present /\ card' = card /\ fresh' = fresh /\ seen' = seen
      /\ phase = "recv" /\ step \in 1..10 /\ fresh \in Nat \ {0}
    BY DEF FinishFacts, Finish, TypeOK
<1>2. CardInv'
    BY <1>1 DEF CardInv, Sealed
<1>3. CASE code = "OK" /\ step < 10
  <2>1. /\ vita' = v /\ response' = r /\ step' = step + 1 /\ phase' = "send"
        /\ auth' = auth
    BY <1>3 DEF FinishFacts, Finish
  <2>2. /\ v.secondary = vita.secondary
        /\ step # 3 => v.key_id = vita.key_id /\ v.session = vita.session
        /\ step = 3 => v.key_id \in DerivableIds /\ v.session.key_id = v.key_id
        /\ step \notin {8, 9} => v.p18 = vita.p18
        /\ Sealed(r) => r \in ReadResults /\ step < 8
    BY <1>3 DEF FinishFacts
  <2>3. Sealed(r) => r.key < fresh
    BY <1>1, <2>2, CartsAssumption DEF ReadResults, RunInv, CardInv, TypeOK, Owner
  <2>4. RunInv'
    BY <1>1, <2>1, <2>2, <2>3 DEF RunInv
  <2>5. KeysFromOneCard'
    BY <2>1, <1>1 DEF RunInv, KeysFromOneCard
  <2>6. HolderInv'
    <3> SUFFICES ASSUME vita.secondary # 0 PROVE HolderInv'
      BY <2>1, <2>2 DEF HolderInv
    <3>1. step >= 5 /\ v.key_id = vita.key_id
      BY <1>1, <2>2 DEF HolderInv
    <3>2. \A c \in Carts : Knows(c, vita.secondary)' => Knows(c, vita.secondary)
      BY <1>1, <2>1, <2>2 DEF Knows
    <3>3. \A c : SoleHolder(c) => SoleHolder(c)'
      BY <1>1, <2>1, <2>2, <3>1, <3>2 DEF SoleHolder
    <3>4. \A c \in Carts : Knows(c, vita.secondary)' => SoleHolder(c)'
      BY <1>1, <3>2, <3>3 DEF HolderInv
    <3>5. (Sealed(r) /\ r.key = vita.secondary) => SoleHolder(r.owner)
      BY <1>1, <2>2, ReadOwner
    <3>6. step >= 8 => SoleHolder(v.p18)
      <4>1. CASE step \in {8, 9}
        <5>1. PICK a \in ReadResults : Sealed(a) /\ a.key = vita.secondary /\ v.p18 = a.owner
          BY <4>1, <1>3 DEF FinishFacts
        <5> QED BY <5>1, <1>1, ReadOwner
      <4> QED BY <4>1, <1>1, <1>3
    <3>7. step' >= 5 /\ (step' >= 9 => step >= 8)
      BY <1>1, <2>1, <3>1
    <3> QED BY <2>1, <2>2, <3>3, <3>4, <3>5, <3>6, <3>7 DEF HolderInv, Sealed
  <2> QED BY <1>t, <1>2, <2>4, <2>5, <2>6
<1>4. CASE ~(code = "OK" /\ step < 10)
  <2>1. /\ vita' = IF code = "OK" THEN v ELSE vita_cmd56_init
        /\ auth' = (code = "OK") /\ phase' = "idle"
    BY <1>4 DEF FinishFacts, Finish
  <2>2. RunInv' /\ HolderInv'
    BY <2>1 DEF RunInv, HolderInv
  <2>3. KeysFromOneCard'
    <3>1. CASE code # "OK"
      BY <3>1, <2>1 DEF KeysFromOneCard
    <3>2. CASE code = "OK"
      <4>1. step = 10 /\ vita' = v /\ vita.secondary # 0
        BY <3>2, <1>1, <1>4, <2>1 DEF RunInv
      <4>2. /\ v.p18 = vita.p18 /\ v.key_id = vita.key_id
        BY <4>1 DEF FinishFacts
      <4>3. PICK a \in ReadResults : Sealed(a) /\ a.key = vita.secondary /\ v.p20 = a.owner
        BY <3>2, <4>1 DEF FinishFacts
      <4>4. SoleHolder(a.owner) /\ a.owner = vita.p18
        BY <4>1, <4>3, <1>1, ReadOwner
      <4> QED BY <4>1, <4>2, <4>3, <4>4, <1>1 DEF KeysFromOneCard, SoleHolder
    <3> QED BY <3>1, <3>2
  <2> QED BY <1>t, <1>2, <2>2, <2>3
<1> QED BY <1>3, <1>4

(* Every step preserves the invariant. *)
LEMMA StepInv == KeyInv /\ [Next]_vars => KeyInv'
<1> SUFFICES ASSUME KeyInv, [Next]_vars PROVE KeyInv'
    OBVIOUS
<1> USE DEF KeyInv
<1>t. TypeOK'
    BY StepType
<1>1. CASE k_run_authentication
  <2>1. /\ vita'.secondary = 0 /\ ~auth' /\ step' = 1 /\ seen' = {present}
        /\ present' = present /\ card' = card /\ fresh' = fresh
        /\ response' = cmd56_response_start
    BY <1>1 DEF k_run_authentication, vita_cmd56_init
  <2>2. ~Sealed(cmd56_response_start)
    BY DEF Sealed, cmd56_response_start
  <2>3. CardInv'
    BY <2>1 DEF CardInv, Sealed
  <2>4. RunInv' /\ HolderInv' /\ KeysFromOneCard'
    BY <2>1, <2>2 DEF RunInv, HolderInv, KeysFromOneCard
  <2> QED BY <1>t, <2>3, <2>4
<1>2. CASE HostSends
    BY <1>2, SendLemma, SendInv
<1>3. CASE HostReads
    BY <1>3, FinishLemma, FinishInv
<1>4. CASE RemoveCard
  <2>1. /\ UNCHANGED <<vita, step, phase, response, auth, fresh, seen>>
        /\ present \in Carts /\ present' = NoCart
        /\ card' = [card EXCEPT ![present] = gc_cmd56_init]
        /\ fresh \in Nat \ {0}
    BY <1>4 DEF RemoveCard, hostVars, TypeOK, Owner
  <2>2. /\ gc_cmd56_init.secondary = 0 /\ gc_cmd56_init.out.key = 0
        /\ ~Sealed(gc_cmd56_init.out) /\ gc_cmd56_init.session.key_id = 0
    BY DEF gc_cmd56_init, cmd56_response_start, ZeroSession, Sealed
  <2>3. /\ card'[present] = gc_cmd56_init
        /\ \A c \in Carts : c # present => card'[c] = card[c]
    BY <2>1 DEF TypeOK
  <2>4. CardInv'
    BY <2>1, <2>2, <2>3 DEF CardInv, Sealed
  <2>5. RunInv' /\ KeysFromOneCard'
    BY <2>1 DEF RunInv, KeysFromOneCard, Sealed
  <2>6. HolderInv'
    <3> SUFFICES ASSUME phase # "idle", vita.secondary # 0 PROVE HolderInv'
      BY <2>1 DEF HolderInv
    <3>1. \A c \in Carts : Knows(c, vita.secondary)' => Knows(c, vita.secondary)
      BY <2>1, <2>2, <2>3 DEF Knows, Sealed
    <3>2. \A c : SoleHolder(c) => SoleHolder(c)'
      BY <2>1, <3>1 DEF SoleHolder
    <3> QED BY <2>1, <3>1, <3>2 DEF HolderInv, Sealed
  <2> QED BY <1>t, <2>4, <2>5, <2>6
<1>5. CASE InsertCard
  <2>1. /\ UNCHANGED <<vita, step, phase, response, auth, fresh, card>>
        /\ present' \in seen' /\ seen \subseteq seen'
    BY <1>5 DEF InsertCard, hostVars
  <2>2. CardInv' /\ RunInv' /\ KeysFromOneCard'
    BY <2>1 DEF CardInv, RunInv, KeysFromOneCard, Sealed
  <2>3. \A c \in Carts : Knows(c, vita.secondary)' <=> Knows(c, vita.secondary)
    BY <2>1 DEF Knows
  <2>4. \A c : SoleHolder(c) => SoleHolder(c)'
    BY <2>1, <2>3 DEF SoleHolder
  <2>5. HolderInv'
    BY <2>1, <2>3, <2>4 DEF HolderInv, Sealed
  <2> QED BY <1>t, <2>2, <2>5
<1>6. CASE UNCHANGED vars
    BY <1>6, <1>t DEF vars, CardInv, RunInv, HolderInv, KeysFromOneCard, Knows,
                      SoleHolder, Sealed
<1> QED BY <1>1, <1>2, <1>3, <1>4, <1>5, <1>6, NextSplit

(* The initial state satisfies the invariant. *)
LEMMA InitInv == Init => KeyInv
<1> SUFFICES ASSUME Init PROVE KeyInv
    OBVIOUS
<1>1. TypeOK
    BY InitType
<1>2. CardInv
  <2>1. /\ gc_cmd56_init.secondary = 0 /\ gc_cmd56_init.out.key = 0
        /\ ~Sealed(gc_cmd56_init.out) /\ gc_cmd56_init.session.key_id = 0
    BY DEF gc_cmd56_init, cmd56_response_start, ZeroSession, Sealed
  <2>2. fresh = 1 /\ \A c \in Carts : card[c] = gc_cmd56_init
    BY DEF Init
  <2>3. \A c \in Carts : /\ card[c].secondary = 0 /\ card[c].out.key = 0
                         /\ ~Sealed(card[c].out) /\ card[c].session.key_id = 0
    BY <2>1, <2>2
  <2> SUFFICES ASSUME NEW c \in Carts
               PROVE  /\ card[c].secondary < fresh /\ card[c].out.key < fresh
                      /\ Sealed(card[c].out) => card[c].out.owner = c
                      /\ card[c].session.key_id \in {0, CardKeyId[c]}
    BY DEF CardInv
  <2>4. card[c].secondary < fresh /\ card[c].out.key < fresh
    BY <2>2, <2>3
  <2> QED BY <2>3, <2>4
<1>3. RunInv /\ HolderInv /\ KeysFromOneCard
    BY DEF Init, RunInv, HolderInv, KeysFromOneCard
<1> QED BY <1>1, <1>2, <1>3 DEF KeyInv

(* KeyInv, the argument itself, holds in every reachable state. *)
THEOREM KeyInvariant == Spec => []KeyInv
BY InitInv, StepInv, PTL DEF Spec

(* is_authenticated is set only with a key pair of one card that was in the
   slot during the run: for any number of cards, swaps, lost transfers and
   runs. *)
THEOREM OneCardPerKeyPair == Spec => []KeysFromOneCard
<1>1. KeyInv => KeysFromOneCard
    BY DEF KeyInv
<1> QED BY <1>1, KeyInvariant, PTL

(* handle_request unlocks only on an exchange that passes the challenge. *)
LEMMA HandleUnlock ==
    ASSUME NEW c \in Carts, NEW s \in CardState, NEW q \in Request, NEW id \in Nat,
           s.lock # "UNLOCKED", handle_request(c, s, q, id).lock = "UNLOCKED"
    PROVE  /\ q.cmd = "SECONDARY" /\ q.session = s.session
           /\ q.cpart = s.cpart /\ handle_request(c, s, q, id).secondary = q.secondary
<1> DEFINE t == handle_request(c, s, q, id)
<1>1. t = handle_request(c, s, q, id) /\ t.lock = "UNLOCKED"
    OBVIOUS
<1> HIDE DEF t
<1>2. /\ q.cmd = "SECONDARY" /\ q.session = s.session
      /\ q.cpart = s.cpart /\ t.secondary = q.secondary
    BY <1>1, HandleRequest
<1> QED BY <1>1, <1>2

(* The lock of a card opens only on a request made under its own session key,
   with its own half of the shared random, and leaves it holding the console's
   secondary key. *)
THEOREM UnlockOnlyBySession == Spec => UnlockNeedsSession
<1> DEFINE Unlock == \A c \in Carts :
              (card[c].lock # "UNLOCKED" /\ card'[c].lock = "UNLOCKED")
                 => /\ card[c].session = vita.session
                    /\ card[c].cpart.id = vita.cpart.id
                    /\ card'[c].secondary = vita'.secondary
<1>1. TypeOK /\ [Next]_vars => [Unlock]_vars
  <2> SUFFICES ASSUME TypeOK, Next, NEW c \in Carts,
                      card[c].lock # "UNLOCKED", card'[c].lock = "UNLOCKED"
               PROVE  /\ card[c].session = vita.session
                      /\ card[c].cpart.id = vita.cpart.id
                      /\ card'[c].secondary = vita'.secondary
    OBVIOUS
  <2>1. CASE HostSends
    <3>1. PICK n, q, v, ch : SendFacts(n, q, v, ch)
      BY <2>1, SendLemma
    <3> DEFINE t == handle_request(present, card[present], q, fresh + 1)
    <3>2. present \in Carts /\ card' = [card EXCEPT ![present] = t] /\ vita' = v
      BY <3>1, WriteLemma DEF SendFacts, Send
    <3>3. card[present] \in CardState /\ q \in Request /\ fresh + 1 \in Nat
      BY <3>1, <3>2 DEF TypeOK, SendFacts
    <3>4. c = present /\ card'[c] = t
      BY <3>2 DEF TypeOK
    <3>5. (card[present].lock # "UNLOCKED" /\ t.lock = "UNLOCKED") =>
                /\ q.cmd = "SECONDARY" /\ q.session = card[present].session
                /\ q.cpart = card[present].cpart /\ t.secondary = q.secondary
      BY <3>2, <3>3, HandleUnlock
    <3> HIDE DEF t
    <3>6. n = 5
      BY <3>1, <3>4, <3>5 DEF SendFacts
    <3> QED BY <3>1, <3>2, <3>4, <3>5, <3>6 DEF SendFacts
  <2>2. CASE RemoveCard
    BY <2>2 DEF RemoveCard, TypeOK, gc_cmd56_init
  <2>3. CASE HostReads
    BY <2>3, FinishLemma DEF FinishFacts, Finish
  <2>4. CASE k_run_authentication \/ InsertCard
    BY <2>4 DEF k_run_authentication, InsertCard
  <2> QED BY <2>1, <2>2, <2>3, <2>4, NextSplit
<1> QED BY <1>1, TypeCorrect, PTL DEF Spec, UnlockNeedsSession

-----------------------------------------------------------------------------
(* The handshake implements CardAuth *)

(* k_run_authentication is atomic to its callers: a run publishes both keys of
   one card that was in the slot, or no key at all. *)
THEOREM AuthRefinement == Spec => ImplementsCardAuth
<1> DEFINE keys == IF phase = "idle" THEN <<vita.p18, vita.p20>> ELSE <<NoCart, NoCart>>
           avars == <<phase # "idle", keys, present, seen>>
<1>1. Init => Auth!Init
    BY DEF Init, Auth!Init, Auth!NoKeys, vita_cmd56_init, Owner
<1>2. KeyInv /\ KeyInv' /\ [Next]_vars => [Auth!Next]_avars
  <2> SUFFICES ASSUME KeyInv, KeyInv', [Next]_vars PROVE Auth!Next \/ UNCHANGED avars
    OBVIOUS
  <2>1. CASE k_run_authentication
    <3>1. Auth!Start
      BY <2>1 DEF k_run_authentication, Auth!Start, Auth!NoKeys, KeyInv, TypeOK, Owner
    <3> QED BY <3>1 DEF Auth!Next
  <2>2. CASE HostSends
    <3>1. PICK n, q, v, ch : SendFacts(n, q, v, ch)
      BY <2>2, SendLemma DEF KeyInv
    <3> QED BY <3>1 DEF SendFacts, Send
  <2>3. CASE HostReads
    <3>1. PICK code, v, r : FinishFacts(code, v, r)
      BY <2>3, FinishLemma DEF KeyInv
    <3>2. CASE code = "OK" /\ step < 10
      BY <3>1, <3>2 DEF FinishFacts, Finish
    <3>3. CASE ~(code = "OK" /\ step < 10)
      <4>1. /\ phase = "recv" /\ phase' = "idle" /\ present' = present /\ seen' = seen
            /\ vita' = IF code = "OK" THEN v ELSE vita_cmd56_init
            /\ auth' = (code = "OK")
        BY <3>1, <3>3 DEF FinishFacts, Finish
      <4>2. CASE code = "OK"
        <5>1. vita'.p18 \in seen /\ vita'.p20 = vita'.p18
          BY <4>1, <4>2 DEF KeyInv, KeysFromOneCard
        <5>2. Auth!Succeed
          BY <4>1, <5>1 DEF Auth!Succeed
        <5> QED BY <5>2 DEF Auth!Next
      <4>3. CASE code # "OK"
        <5>1. vita'.p18 = NoCart /\ vita'.p20 = NoCart
          BY <4>1, <4>3 DEF vita_cmd56_init
        <5>2. Auth!Fail
          BY <4>1, <5>1 DEF Auth!Fail, Auth!NoKeys
        <5> QED BY <5>2 DEF Auth!Next
      <4> QED BY <4>2, <4>3
    <3> QED BY <3>2, <3>3
  <2>4. CASE RemoveCard
    <3>1. Auth!Remove
      BY <2>4 DEF RemoveCard, hostVars, Auth!Remove, KeyInv, TypeOK, Owner
    <3> QED BY <3>1 DEF Auth!Next
  <2>5. CASE InsertCard
    <3>1. Auth!Insert
      BY <2>5 DEF InsertCard, hostVars, Auth!Insert
    <3> QED BY <3>1 DEF Auth!Next
  <2>6. CASE UNCHANGED vars
    BY <2>6 DEF vars
  <2> QED BY <2>1, <2>2, <2>3, <2>4, <2>5, <2>6, NextSplit
<1> QED BY <1>1, <1>2, KeyInvariant, PTL DEF Spec, ImplementsCardAuth, Auth!Spec
=============================================================================
