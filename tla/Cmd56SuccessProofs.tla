------------------------ MODULE Cmd56SuccessProofs ------------------------
(***************************************************************************)
(* What a success and a failure of the handshake mean: a success leaves    *)
(* the card unlocked, and without a fault there is no failure.             *)
(***************************************************************************)
EXTENDS Cmd56Proofs

-----------------------------------------------------------------------------
(* What the card answers, command by command *)

(* The answer and the new state of a card whose request passes the card's own
   checks. *)
Answers(c, s, q, id, t) ==
    /\ q.cmd = "START" => t.lock = "LOCKED" /\ t.out.kind = "zero" /\ t.out.error = 0
    /\ q.cmd = "STATUS" =>
          t.out.kind = "status" /\ t.out.status = s.lock /\ t.out.error = 0
    /\ q.cmd = "SESSION" =>
          /\ t.out.kind = "session" /\ t.out.error = 0 /\ t.random = id
          /\ t.session = [key_id |-> CardKeyId[c], random |-> id]
          /\ t.out.session = t.session
    /\ (q.cmd = "SHARED" /\ q.session.key_id = CardKeyId[c]) =>
          /\ t.out.kind = "sharedE" /\ t.out.error = 0
          /\ t.out.session = s.session /\ t.out.vpart.id = q.vpart.id
    /\ (/\ q.cmd = "SECONDARY" /\ q.session = s.session
        /\ q.vpart = s.vpart /\ q.cpart = s.cpart) =>
          t.secondary = q.secondary /\ t.lock = "UNLOCKED" /\ t.out.error = 0
    /\ q.cmd = "VERIFY" =>
          /\ t.out.kind = "verifyE" /\ t.out.error = 0 /\ t.out.key = s.secondary
          /\ t.out.vpart.id = q.vpart.id /\ t.out.session.random = s.random
    /\ (q.cmd = "P18" /\ q.key = s.secondary /\ q.vpart.hi) =>
          /\ t.out.kind = "p18E" /\ t.out.error = 0 /\ t.out.key = s.secondary
          /\ t.out.vpart.id = q.vpart.id
    /\ q.cmd = "P20" =>
          /\ t.out.kind = "p20E" /\ t.out.error = 0 /\ t.out.key = s.secondary
          /\ t.out.vpart.id = q.vpart.id

(* What no command does to a card: move the lock except at the start and at the
   exchange of the secondary key, touch the session except to draw a new one,
   or answer with halves of the shared random it did not store. *)
Keeps(s, q, t) ==
    /\ t.out.vpart.id = 0 \/ (t.out.vpart.id = q.vpart.id /\ q.cmd # "SECONDARY")
    /\ q.cmd \notin {"START", "SECONDARY"} => t.lock = s.lock
    /\ q.cmd # "SESSION" => t.session = s.session /\ t.random = s.random
    /\ q.cmd # "SECONDARY" => t.secondary = s.secondary
    /\ q.cmd = "SECONDARY" =>
          \/ t.secondary = 0
          \/ t.secondary = q.secondary /\ q.session = s.session
    /\ t.out.kind = "sharedE" =>
          /\ t.out.vpart = t.vpart /\ t.vpart.hi
          /\ t.out.cpart = t.cpart /\ t.cpart.hi

(* Both hold of handle_request, whatever the command. *)
LEMMA HandleAnswer ==
    ASSUME NEW c \in Carts, NEW s \in CardState, NEW q \in Request, NEW id \in Nat,
           NEW t, t = handle_request(c, s, q, id)
    PROVE  Answers(c, s, q, id, t) /\ Keeps(s, q, t)
<1>s. /\ s.session \in Session /\ s.secondary \in Nat /\ s.lock \in LockStatus
      /\ s.random \in Nat
    BY DEF CardState
<1>q. /\ q.vpart \in Nonce /\ q.cpart \in Nonce /\ q.secondary \in Nat
      /\ or_w_80(q.vpart).id = q.vpart.id /\ or_w_80(q.vpart).hi = TRUE
      /\ q.vpart.hi => or_w_80(q.vpart) = q.vpart
    BY OrType DEF Request, or_w_80, Nonce
<1>f. Fresh80(id).hi = TRUE
    BY DEF Fresh80
<1>z. /\ cmd56_response_start.kind = "zero" /\ cmd56_response_start.error = 0
      /\ cmd56_response_start.vpart.id = 0
    BY DEF cmd56_response_start, ZeroNonce
<1>e. ASSUME NEW code \in Nat
      PROVE  cmd56_response_error(code).kind = "ff" /\ cmd56_response_error(code).vpart.id = 0
    BY DEF cmd56_response_error, cmd56_response_start, ZeroNonce
<1>1. CASE q.cmd = "START"
  <2>1. t = handle_cmd_start(s)
    BY <1>1 DEF handle_request
  <2>2. t = [s EXCEPT !.lock = "LOCKED", !.out = cmd56_response_start]
    BY <2>1 DEF handle_cmd_start
  <2>3. /\ t.lock = "LOCKED" /\ t.out = cmd56_response_start /\ t.session = s.session
        /\ t.random = s.random /\ t.secondary = s.secondary
    BY <2>2 DEF CardState
  <2> QED BY <1>1, <1>z, <2>3 DEF Answers, Keeps
<1>2. CASE q.cmd = "STATUS"
  <2> DEFINE o == [cmd56_response_start EXCEPT !.kind = "status", !.status = s.lock]
  <2>1. t = [s EXCEPT !.out = o]
    BY <1>2 DEF handle_request, handle_cmd_status
  <2>2. o.kind = "status" /\ o.status = s.lock /\ o.error = 0 /\ o.vpart.id = 0
    BY DEF cmd56_response_start, ZeroNonce
  <2> HIDE DEF o
  <2>3. /\ t.lock = s.lock /\ t.out = o /\ t.session = s.session
        /\ t.random = s.random /\ t.secondary = s.secondary
    BY <2>1 DEF CardState
  <2> QED BY <1>2, <2>2, <2>3 DEF Answers, Keeps
<1>3. CASE q.cmd = "SESSION"
  <2> DEFINE key == [key_id |-> CardKeyId[c], random |-> id]
             o   == [cmd56_response_start EXCEPT !.kind = "session", !.session = key]
  <2>1. t = [s EXCEPT !.random = id, !.session = key, !.out = o]
    BY <1>3 DEF handle_request, handle_generate_session_key
  <2>2. o.kind = "session" /\ o.session = key /\ o.error = 0 /\ o.vpart.id = 0
    BY DEF cmd56_response_start, ZeroNonce
  <2> HIDE DEF o
  <2>3. /\ t.lock = s.lock /\ t.out = o /\ t.session = key
        /\ t.random = id /\ t.secondary = s.secondary
    BY <2>1 DEF CardState
  <2> QED BY <1>3, <2>2, <2>3 DEF Answers, Keeps
<1>4. CASE q.cmd = "SHARED"
  <2>0. t = handle_exchange_shared_random(c, s, q, id)
    BY <1>4 DEF handle_request
  <2>1. CASE q.session.key_id = CardKeyId[c]
    <3> DEFINE vp == or_w_80(q.vpart)
               cp == Fresh80(id)
               o  == [cmd56_response_start EXCEPT !.kind = "sharedE",
                         !.session = s.session, !.vpart = vp, !.cpart = cp]
    <3>1. t = [s EXCEPT !.vpart = vp, !.cpart = cp, !.out = o]
      BY <2>0, <2>1 DEF handle_exchange_shared_random
    <3> HIDE DEF vp, cp
    <3>2. /\ o.kind = "sharedE" /\ o.session = s.session /\ o.error = 0
          /\ o.vpart = vp /\ o.cpart = cp
      BY DEF cmd56_response_start
    <3> HIDE DEF o
    <3>3. /\ t.lock = s.lock /\ t.out = o /\ t.session = s.session
          /\ t.random = s.random /\ t.secondary = s.secondary
          /\ t.vpart = vp /\ t.cpart = cp
      BY <3>1 DEF CardState
    <3>4. vp.hi = TRUE /\ cp.hi = TRUE /\ vp.id = q.vpart.id
      BY <1>q, <1>f DEF vp, cp
    <3> QED BY <1>4, <3>2, <3>3, <3>4 DEF Answers, Keeps
  <2>2. CASE q.session.key_id # CardKeyId[c]
    <3>1. t = [s EXCEPT !.out = cmd56_response_error(17)]
      BY <2>0, <2>2 DEF handle_exchange_shared_random
    <3>2. /\ t.lock = s.lock /\ t.out = cmd56_response_error(17)
          /\ t.session = s.session /\ t.random = s.random /\ t.secondary = s.secondary
      BY <3>1 DEF CardState
    <3> QED BY <1>4, <1>e, <2>2, <3>2 DEF Answers, Keeps
  <2> QED BY <2>1, <2>2
<1>5. CASE q.cmd = "SECONDARY"
  <2> DEFINE key == IF q.session = s.session THEN q.secondary ELSE 0
  <2>0. t = handle_exchange_secondary_key(s, q)
    BY <1>5 DEF handle_request
  <2>k. key = 0 \/ (key = q.secondary /\ q.session = s.session)
    OBVIOUS
  <2>1. CASE q.session = s.session /\ q.vpart = s.vpart /\ q.cpart = s.cpart
    <3>1. t = [s EXCEPT !.secondary = q.secondary, !.lock = "UNLOCKED",
                        !.out = cmd56_response_start]
      BY <2>0, <2>1 DEF handle_exchange_secondary_key
    <3>2. /\ t.lock = "UNLOCKED" /\ t.out = cmd56_response_start
          /\ t.session = s.session /\ t.random = s.random /\ t.secondary = q.secondary
      BY <3>1 DEF CardState
    <3> QED BY <1>5, <1>z, <2>1, <3>2 DEF Answers, Keeps
  <2>2. CASE ~(q.session = s.session /\ q.vpart = s.vpart /\ q.cpart = s.cpart)
    <3>1. t = [s EXCEPT !.secondary = key, !.lock = "LOCKED",
                        !.out = cmd56_response_error(241)]
      BY <2>0, <2>2 DEF handle_exchange_secondary_key
    <3> HIDE DEF key
    <3>2. /\ t.out = cmd56_response_error(241)
          /\ t.session = s.session /\ t.random = s.random /\ t.secondary = key
      BY <3>1 DEF CardState
    <3> QED BY <1>5, <1>e, <2>k, <2>2, <3>2 DEF Answers, Keeps
  <2> QED BY <2>1, <2>2
<1>6. CASE q.cmd = "VERIFY"
  <2> DEFINE vp == or_w_80(q.vpart)
             o  == [cmd56_response_start EXCEPT !.kind = "verifyE",
                       !.key = s.secondary, !.vpart = vp,
                       !.session.random = s.random]
  <2>1. t = [s EXCEPT !.out = o]
    BY <1>6 DEF handle_request, handle_verify_secondary_key
  <2> HIDE DEF vp
  <2>2. /\ o.kind = "verifyE" /\ o.key = s.secondary /\ o.error = 0
        /\ o.vpart = vp /\ o.session.random = s.random
    BY DEF cmd56_response_start, ZeroSession
  <2> HIDE DEF o
  <2>3. /\ t.lock = s.lock /\ t.out = o /\ t.session = s.session
        /\ t.random = s.random /\ t.secondary = s.secondary
    BY <2>1 DEF CardState
  <2>4. vp.id = q.vpart.id
    BY <1>q DEF vp
  <2> QED BY <1>6, <2>2, <2>3, <2>4 DEF Answers, Keeps
<1>7. CASE q.cmd = "P18"
  <2> DEFINE o == [cmd56_response_start EXCEPT !.kind = "p18E",
                       !.key = s.secondary, !.vpart = q.vpart, !.owner = c]
  <2>1. /\ \/ t = [s EXCEPT !.out = cmd56_response_error(244)]
           \/ t = [s EXCEPT !.out = cmd56_response_error(17)]
           \/ t = [s EXCEPT !.out = o]
        /\ (q.key = s.secondary /\ or_w_80(q.vpart) = q.vpart) => t = [s EXCEPT !.out = o]
    BY <1>7 DEF handle_request, handle_p18key_and_cmac_signature
  <2>2. /\ o.kind = "p18E" /\ o.key = s.secondary /\ o.error = 0 /\ o.vpart = q.vpart
    BY DEF cmd56_response_start
  <2> HIDE DEF o
  <2>3. /\ t.lock = s.lock /\ t.session = s.session
        /\ t.random = s.random /\ t.secondary = s.secondary
        /\ t.out \in {cmd56_response_error(244), cmd56_response_error(17), o}
        /\ (q.key = s.secondary /\ q.vpart.hi) => t.out = o
    BY <2>1, <1>q DEF CardState
  <2> QED BY <1>7, <1>e, <2>2, <2>3 DEF Answers, Keeps
<1>8. CASE q.cmd = "P20"
  <2> DEFINE vp == or_w_80(q.vpart)
             o  == [cmd56_response_start EXCEPT !.kind = "p20E",
                       !.key = s.secondary, !.vpart = vp, !.owner = c]
  <2>1. t = [s EXCEPT !.out = o]
    BY <1>8 DEF handle_request, handle_p20key_and_cmac_signature
  <2> HIDE DEF vp
  <2>2. o.kind = "p20E" /\ o.key = s.secondary /\ o.error = 0 /\ o.vpart = vp
    BY DEF cmd56_response_start
  <2> HIDE DEF o
  <2>3. /\ t.lock = s.lock /\ t.out = o /\ t.session = s.session
        /\ t.random = s.random /\ t.secondary = s.secondary
    BY <2>1 DEF CardState
  <2>4. vp.id = q.vpart.id
    BY <1>q DEF vp
  <2> QED BY <1>8, <2>2, <2>3, <2>4 DEF Answers, Keeps
<1> QED BY <1>1, <1>2, <1>3, <1>4, <1>5, <1>6, <1>7, <1>8 DEF Request, Commands

-----------------------------------------------------------------------------
(* A success leaves the card unlocked *)

(* Sending a request: the cards are as they were, or the one in the slot has
   handled it. *)
LEMMA SendOutcome ==
    ASSUME TypeOK, NEW n, NEW q, NEW v, NEW ch, SendFacts(n, q, v, ch)
    PROVE  \/ card' = card
           \/ /\ present \in Carts
              /\ \A c \in Carts : c # present => card'[c] = card[c]
              /\ card'[present] \in CardState
              /\ Answers(present, card[present], q, fresh + 1, card'[present])
              /\ Keeps(card[present], q, card'[present])
<1> DEFINE t == handle_request(present, card[present], q, fresh + 1)
<1>1. \/ card' = card
      \/ present \in Carts /\ card' = [card EXCEPT ![present] = t]
    BY WriteLemma DEF SendFacts, Send
<1>2. CASE present \in Carts /\ card' = [card EXCEPT ![present] = t]
  <2>1. card[present] \in CardState /\ q \in Request /\ fresh + 1 \in Nat
    BY <1>2 DEF TypeOK, SendFacts
  <2>2. /\ Answers(present, card[present], q, fresh + 1, t)
        /\ Keeps(card[present], q, t) /\ t \in CardState
    BY <1>2, <2>1, HandleAnswer, HandleRequest
  <2> HIDE DEF t
  <2>3. card'[present] = t /\ \A c \in Carts : c # present => card'[c] = card[c]
    BY <1>2 DEF TypeOK
  <2> QED BY <1>2, <2>2, <2>3
<1> QED BY <1>1, <1>2

(* A card that has just got power: locked, with no session and no key. *)
LEMMA InitCard ==
    /\ gc_cmd56_init.out.vpart.id = 0 /\ gc_cmd56_init.out.kind = "zero"
    /\ gc_cmd56_init.secondary = 0 /\ gc_cmd56_init.session.key_id = 0
BY DEF gc_cmd56_init, cmd56_response_start, ZeroNonce, ZeroSession

(* Sending a request preserves UnlockInv. *)
LEMMA SendUnlock ==
    ASSUME KeyInv, UnlockInv, NEW n, NEW q, NEW v, NEW ch, SendFacts(n, q, v, ch)
    PROVE  UnlockInv'
<1> USE DEF UnlockInv
<1>t. TypeOK /\ TypeOK'
    BY SendType DEF KeyInv
<1>1. /\ phase = "send" /\ phase' = "recv" /\ step = n /\ step' = step
      /\ vita' = v /\ fresh' = fresh + 2 /\ fresh \in Nat \ {0}
      /\ response' = response /\ auth' = auth /\ present' = present
      /\ step \in 1..10
    BY <1>t DEF SendFacts, Send, TypeOK
<1>2. /\ response.vpart.id \in Nat
      /\ \A c \in Carts : card[c].out.vpart.id \in Nat /\ card[c].secondary \in Nat
    BY <1>t DEF TypeOK, Response, CardState, Nonce
<1>3. /\ n # 5 => /\ q.cmd # "SECONDARY" /\ v.secondary = vita.secondary
                  /\ q.vpart.id \in {0, fresh}
      /\ n # 1 => q.cmd # "START"
      /\ n = 4 => v.vpart.id = fresh
      /\ n = 5 => /\ q.cmd = "SECONDARY" /\ q.secondary = fresh /\ v.secondary = fresh
                  /\ q.session = vita.session /\ q.vpart = or_w_80(vita.vpart)
                  /\ q.cpart = or_w_80(vita.cpart)
    BY <1>1 DEF SendFacts, Asks
<1>4. \/ card' = card
      \/ /\ present \in Carts
         /\ \A c \in Carts : c # present => card'[c] = card[c]
         /\ card'[present] \in CardState
         /\ Answers(present, card[present], q, fresh + 1, card'[present])
         /\ Keeps(card[present], q, card'[present])
    BY <1>t, SendOutcome
<1>5. AbsentInv'
    BY <1>1, <1>4 DEF AbsentInv
<1>6. SharedInv'
  <2>1. CASE card' = card
    BY <1>1, <1>2, <2>1 DEF SharedInv
  <2>2. CASE /\ present \in Carts
             /\ \A c \in Carts : c # present => card'[c] = card[c]
             /\ card'[present] \in CardState
             /\ Keeps(card[present], q, card'[present])
    <3>1. card'[present].out.vpart.id < fresh + 2
      BY <1>1, <1>3, <2>2 DEF Keeps
    <3>2. card'[present].out.kind = "sharedE" =>
             /\ card'[present].out.vpart = card'[present].vpart /\ card'[present].vpart.hi
             /\ card'[present].out.cpart = card'[present].cpart /\ card'[present].cpart.hi
      BY <2>2 DEF Keeps
    <3> QED BY <1>1, <1>2, <2>2, <3>1, <3>2 DEF SharedInv
  <2> QED BY <1>4, <2>1, <2>2
<1>7. BufferInv'
    BY <1>1, <1>2, <1>3 DEF BufferInv
<1>8. HalvesInv'
    BY <1>1 DEF HalvesInv
<1>9. LockInv'
  <2>1. ~auth'
    BY <1>1 DEF KeyInv, RunInv
  <2> SUFFICES ASSUME v.secondary # 0, NEW c \in Carts,
                      card'[c].secondary = v.secondary
               PROVE  card'[c].lock = "UNLOCKED"
    BY <1>1, <2>1 DEF LockInv
  <2>2. CASE n = 5
    <3>1. card[c].secondary # fresh
      BY <1>1, <1>2 DEF KeyInv, CardInv
    <3>2. /\ c = present /\ present \in Carts
          /\ Answers(present, card[present], q, fresh + 1, card'[present])
          /\ Keeps(card[present], q, card'[present])
      BY <1>3, <1>4, <2>2, <3>1
    <3>3. q.session = card[present].session
      BY <1>1, <1>3, <2>2, <3>2 DEF Keeps
    <3>4. q.vpart = card[present].vpart /\ q.cpart = card[present].cpart
      BY <1>1, <1>3, <2>2, <3>2, <3>3 DEF HalvesInv, HalvesAgree
    <3> QED BY <1>3, <2>2, <3>2, <3>3, <3>4 DEF Answers
  <2>3. CASE n # 5
    <3>1. vita.secondary # 0 /\ v.secondary = vita.secondary /\ n # 1
      BY <1>1, <1>3, <2>3 DEF KeyInv, HolderInv
    <3>2. card'[c].secondary = card[c].secondary /\ card'[c].lock = card[c].lock
      BY <1>3, <1>4, <2>3, <3>1 DEF Keeps
    <3> QED BY <3>1, <3>2 DEF LockInv
  <2> QED BY <2>2, <2>3
<1> QED BY <1>5, <1>6, <1>7, <1>8, <1>9

(* A nonce with the top bit set is what or_w_80 makes of any nonce with the
   same bytes from 1 on. *)
LEMMA OrEqual ==
    ASSUME NEW m \in Nonce, NEW n \in Nonce, m.hi, m.id = n.id
    PROVE  m = or_w_80(n)
BY DEF or_w_80, Nonce

(* Taking an answer preserves UnlockInv. *)
LEMMA FinishUnlock ==
    ASSUME KeyInv, UnlockInv, NEW code, NEW v, NEW r, FinishFacts(code, v, r)
    PROVE  UnlockInv'
<1> USE DEF UnlockInv
<1>t. TypeOK
    BY DEF KeyInv
<1>1. /\ present' = present /\ card' = card /\ fresh' = fresh
      /\ phase = "recv" /\ step \in 1..10 /\ fresh \in Nat \ {0}
      /\ v.secondary = vita.secondary /\ v \in VitaState
      /\ step = 4 => v.session = vita.session
    BY <1>t DEF FinishFacts, Finish, TypeOK
<1>2. PICK a \in ReadResults : TakenFrom(a, code, v, r)
    BY DEF FinishFacts
<1>3. a = response \/ (present \in Carts /\ a = card[present].out)
    BY <1>t DEF ReadResults, TypeOK, Owner
<1>4. AbsentInv' /\ SharedInv'
    BY <1>1 DEF AbsentInv, SharedInv
<1>5. CASE code = "OK" /\ step < 10
  <2>1. /\ vita' = v /\ response' = r /\ step' = step + 1 /\ phase' = "send"
        /\ auth' = auth
    BY <1>5 DEF FinishFacts, Finish
  <2>2. BufferInv'
    BY <1>1, <1>2, <1>3, <2>1 DEF BufferInv, SharedInv, TakenFrom
  <2>3. HalvesInv'
    <3> SUFFICES ASSUME step = 4, NEW c \in Carts, card[c].session = v.session
                 PROVE  card[c].vpart = or_w_80(v.vpart) /\ card[c].cpart = or_w_80(v.cpart)
      BY <1>1, <2>1 DEF HalvesInv, HalvesAgree
    <3>1. /\ a.kind = "sharedE" /\ a.vpart.id = vita.vpart.id /\ v.cpart = a.cpart
          /\ v.vpart = vita.vpart
      BY <1>2, <1>5 DEF TakenFrom
    <3>2. present \in Carts /\ a = card[present].out
      BY <1>1, <1>3, <3>1 DEF BufferInv
    <3>3. c = present
      <4>1. v.session.key_id # 0
        BY <1>1 DEF KeyInv, RunInv, DerivableIds
      <4> QED BY <4>1, InitCard DEF AbsentInv
    <3>4. /\ card[c].vpart \in Nonce /\ card[c].cpart \in Nonce
          /\ v.vpart \in Nonce /\ v.cpart \in Nonce
      BY <1>1, <1>t DEF TypeOK, CardState, VitaState
    <3>5. /\ card[c].vpart.hi /\ card[c].vpart.id = v.vpart.id
          /\ card[c].cpart.hi /\ card[c].cpart.id = v.cpart.id
      BY <3>1, <3>2, <3>3 DEF SharedInv
    <3> QED BY <3>4, <3>5, OrEqual
  <2>4. LockInv'
    BY <1>1, <2>1 DEF LockInv
  <2> QED BY <1>4, <2>2, <2>3, <2>4
<1>6. CASE ~(code = "OK" /\ step < 10)
  <2>1. /\ vita' = IF code = "OK" THEN v ELSE vita_cmd56_init
        /\ auth' = (code = "OK") /\ phase' = "idle" /\ response' = cmd56_response_start
    BY <1>6 DEF FinishFacts, Finish
  <2>2. cmd56_response_start.vpart.id = 0 /\ vita_cmd56_init.secondary = 0
    BY DEF cmd56_response_start, ZeroNonce, vita_cmd56_init
  <2>3. BufferInv' /\ HalvesInv'
    BY <1>1, <2>1, <2>2 DEF BufferInv, HalvesInv
  <2>4. LockInv'
    <3>1. CASE code = "OK"
      <4>1. vita.secondary # 0
        BY <1>1, <1>6, <3>1 DEF KeyInv, RunInv
      <4> QED BY <1>1, <2>1, <3>1, <4>1 DEF LockInv
    <3>2. CASE code # "OK"
      BY <2>1, <2>2, <3>2 DEF LockInv
    <3> QED BY <3>1, <3>2
  <2> QED BY <1>4, <2>3, <2>4
<1> QED BY <1>5, <1>6

(* Every step preserves UnlockInv. *)
LEMMA StepUnlock == KeyInv /\ UnlockInv /\ [Next]_vars => UnlockInv'
<1> SUFFICES ASSUME KeyInv, UnlockInv, [Next]_vars PROVE UnlockInv'
    OBVIOUS
<1> USE DEF UnlockInv
<1>t. TypeOK
    BY DEF KeyInv
<1>1. CASE k_run_authentication
  <2>1. /\ vita'.secondary = 0 /\ ~auth' /\ step' = 1
        /\ present' = present /\ card' = card /\ fresh' = fresh
        /\ response'.vpart.id = 0 /\ fresh \in Nat \ {0}
    BY <1>1, <1>t DEF k_run_authentication, vita_cmd56_init, cmd56_response_start,
                      ZeroNonce, TypeOK
  <2>2. AbsentInv' /\ SharedInv'
    BY <2>1 DEF AbsentInv, SharedInv
  <2>3. BufferInv' /\ HalvesInv'
    BY <2>1 DEF BufferInv, HalvesInv
  <2>4. LockInv'
    BY <2>1 DEF LockInv
  <2> QED BY <2>2, <2>3, <2>4
<1>2. CASE HostSends
    BY <1>t, <1>2, SendLemma, SendUnlock
<1>3. CASE HostReads
    BY <1>t, <1>3, FinishLemma, FinishUnlock
<1>4. CASE RemoveCard
  <2>1. /\ UNCHANGED <<vita, step, phase, response, auth, fresh>>
        /\ present \in Carts /\ present' = NoCart
        /\ card' = [card EXCEPT ![present] = gc_cmd56_init]
        /\ fresh \in Nat \ {0}
    BY <1>4, <1>t DEF RemoveCard, hostVars, TypeOK, Owner
  <2>2. /\ card'[present] = gc_cmd56_init
        /\ \A c \in Carts : c # present => card'[c] = card[c]
    BY <2>1, <1>t DEF TypeOK
  <2>3. AbsentInv' /\ SharedInv'
    BY <2>1, <2>2, InitCard DEF AbsentInv, SharedInv
  <2>4. BufferInv'
    BY <2>1 DEF BufferInv
  <2>5. HalvesInv'
    <3> SUFFICES ASSUME step = 5, phase = "send", NEW c \in Carts,
                        card'[c].session = vita.session
                 PROVE  HalvesAgree(c)'
      BY <2>1 DEF HalvesInv
    <3>1. vita.session.key_id # 0
      BY DEF KeyInv, RunInv, DerivableIds
    <3>2. card'[c] = card[c]
      BY <2>2, <3>1, InitCard
    <3> QED BY <2>1, <3>2 DEF HalvesInv, HalvesAgree
  <2>6. LockInv'
    BY <2>1, <2>2, InitCard DEF LockInv
  <2> QED BY <2>3, <2>4, <2>5, <2>6
<1>5. CASE InsertCard
  <2>1. /\ UNCHANGED <<vita, step, phase, response, auth, fresh, card>>
        /\ present = NoCart
    BY <1>5 DEF InsertCard, hostVars
  <2>2. AbsentInv'
    BY <2>1, CartsAssumption DEF AbsentInv
  <2>3. SharedInv' /\ BufferInv' /\ HalvesInv' /\ LockInv'
    BY <2>1 DEF SharedInv, BufferInv, HalvesInv, HalvesAgree, LockInv
  <2> QED BY <2>2, <2>3
<1>6. CASE UNCHANGED vars
    BY <1>6 DEF vars, AbsentInv, SharedInv, BufferInv, HalvesInv, HalvesAgree, LockInv
<1> QED BY <1>1, <1>2, <1>3, <1>4, <1>5, <1>6, NextSplit

-----------------------------------------------------------------------------
(* Without a fault there is no failure *)

(* Sending a request over a reliable link: the card handles it, stays in
   agreement with the console and has the answer the command accepts. *)
LEMMA SendReliable ==
    ASSUME KeyInv, UnlockInv, ReliableInv,
           NEW n, NEW q, NEW v, NEW ch, SendFacts(n, q, v, ch)
    PROVE  ReliableInv'
<1> SUFFICES ASSUME Reliable' PROVE ReliableInv'
    BY DEF ReliableInv
<1>t. TypeOK
    BY DEF KeyInv
<1>1. /\ phase = "send" /\ phase' = "recv" /\ step = n /\ step' = n /\ n \in 1..10
      /\ vita' = v /\ chal' = ch /\ ret' = ret /\ present' = present
      /\ v.key_id = vita.key_id /\ v.session = vita.session
      /\ n # 5 => v.secondary = vita.secondary
      /\ q.cmd # "SECONDARY" <=> n # 5
      /\ q \in Request /\ k_gc_cmd56_write(q) /\ Asks(n, q, v, ch)
      /\ fresh \in Nat
    BY <1>t DEF SendFacts, Send, Asks, TypeOK
<1>2. Reliable /\ present # NoCart /\ faults' = faults
    BY <1>1, <1>t DEF Reliable, TypeOK, ReliableInv, k_gc_cmd56_write, TransferFails
<1>3. ret \in {"none", "OK"} /\ present \in Carts /\ Agree(present)
    BY <1>1, <1>2, <1>t DEF ReliableInv, TypeOK, Owner
<1> DEFINE s == card[present]
           t == card'[present]
<1>4. Answers(present, s, q, fresh + 1, t) /\ Keeps(s, q, t)
  <2>1. card' = [card EXCEPT ![present] = handle_request(present, s, q, fresh + 1)]
    BY <1>1, <1>2, <1>t DEF k_gc_cmd56_write, TransferFails, TypeOK
  <2>2. t = handle_request(present, s, q, fresh + 1) /\ s \in CardState
    BY <2>1, <1>3, <1>t DEF TypeOK
  <2>3. fresh + 1 \in Nat
    BY <1>1
  <2> HIDE DEF s, t
  <2> QED BY <2>2, <2>3, <1>1, <1>3, HandleAnswer
<1>s. s.lock \in LockStatus /\ Fresh80(fresh).id = fresh /\ Fresh80(fresh).hi = TRUE
    BY <1>1, <1>3, <1>t DEF TypeOK, CardState, Fresh80
<1>h. n = 5 => q.session = s.session /\ q.vpart = s.vpart /\ q.cpart = s.cpart
               /\ q.secondary = fresh /\ v.secondary = fresh
    BY <1>1, <1>3 DEF UnlockInv, HalvesInv, HalvesAgree, Agree, SendFacts, Asks
<1>g. /\ n \in 2..4 \/ n = 5 => s.lock = "LOCKED"
      /\ n >= 4 => /\ vita.session = s.session /\ vita.random = s.random
                   /\ vita.key_id = CardKeyId[present]
      /\ n >= 6 => s.secondary = vita.secondary /\ s.lock = "UNLOCKED"
    BY <1>1, <1>3 DEF Agree
<1> HIDE DEF s, t
<1>5. Agree(present)'
  <2>1. n \in 1..4 => t.lock = "LOCKED"
    BY <1>1, <1>4, <1>g DEF Answers, Keeps, Asks
  <2>2. n >= 4 => /\ v.session = t.session /\ v.random = t.random
                  /\ v.key_id = CardKeyId[present]
    BY <1>1, <1>4, <1>g DEF Keeps, Asks
  <2>3. n >= 5 => t.secondary = v.secondary /\ t.lock = "UNLOCKED"
    BY <1>1, <1>4, <1>g, <1>h DEF Answers, Keeps, Asks
  <2> QED BY <1>1, <2>1, <2>2, <2>3 DEF Agree, t
<1>6. Accepted(present, card[present].out)'
  <2>1. n \in {1, 2, 3} =>
          /\ t.out.error = 0
          /\ n = 1 => t.out.kind = "zero"
          /\ n = 2 => t.out.kind = "status" /\ t.out.status = "LOCKED"
          /\ n = 3 => /\ t.out.kind = "session" /\ t.out.session = t.session
                      /\ t.session = [key_id |-> CardKeyId[present], random |-> t.random]
    BY <1>1, <1>4, <1>g DEF Answers, Asks
  <2>2. n = 4 => /\ t.out.error = 0 /\ t.out.kind = "sharedE"
                 /\ t.out.session = v.session /\ t.out.vpart.id = v.vpart.id
    BY <1>1, <1>4, <1>g DEF Answers, Asks
  <2>3. n = 5 => t.out.error = 0
    BY <1>1, <1>4, <1>h DEF Answers, Asks
  <2>4. n = 6 => t.out.error = 0 /\ t.out.kind = "status" /\ t.out.status = "UNLOCKED"
    BY <1>1, <1>4, <1>g DEF Answers, Asks
  <2>5. n >= 7 => /\ t.out.error = 0 /\ t.out.key = v.secondary /\ t.out.vpart.id = ch.id
                  /\ n = 7 => t.out.kind = "verifyE" /\ t.out.session.random = v.random
                  /\ n \in {8, 9} => t.out.kind = "p18E"
                  /\ n = 10 => t.out.kind = "p20E"
    BY <1>1, <1>4, <1>g, <1>s DEF Answers, Asks
  <2> QED BY <1>1, <2>1, <2>2, <2>3, <2>4, <2>5 DEF Accepted, t
<1> QED BY <1>1, <1>2, <1>3, <1>5, <1>6 DEF ReliableInv

(* Taking the answer over a reliable link: the command accepts it. *)
LEMMA FinishReliable ==
    ASSUME KeyInv, ReliableInv, NEW code, NEW v, NEW r, FinishFacts(code, v, r)
    PROVE  ReliableInv'
<1> SUFFICES ASSUME Reliable' PROVE ReliableInv'
    BY DEF ReliableInv
<1>t. TypeOK
    BY DEF KeyInv
<1>1. /\ present' = present /\ card' = card /\ phase = "recv" /\ step \in 1..10
      /\ v.secondary = vita.secondary
      /\ step # 3 => v.key_id = vita.key_id /\ v.session = vita.session
    BY <1>t DEF FinishFacts, Finish, TypeOK
<1>2. PICK a \in ReadResults : TakenFrom(a, code, v, r)
    BY DEF FinishFacts
<1>3. Reliable /\ present # NoCart /\ faults' = faults /\ a = card[present].out
    BY <1>1, <1>2, <1>t DEF Reliable, TypeOK, ReliableInv, TakenFrom,
                            k_gc_cmd56_read, TransferFails
<1>4. /\ ret \in {"none", "OK"} /\ present \in Carts /\ Agree(present)
      /\ Accepted(present, a)
    BY <1>1, <1>3, <1>t DEF ReliableInv, TypeOK, Owner
<1>5. code = "OK"
  <2>1. CardKeyId[present] \in DerivableIds /\ CardKeyId[present] <= PROTOTYPE_KEY_ID1
    BY <1>3, <1>4, KeyIdAssumption DEF Reliable, CardIds
  <2>2. step = 3 => a.session.key_id = CardKeyId[present]
    BY <1>4 DEF Accepted
  <2> QED BY <1>2, <1>4, <2>1, <2>2 DEF TakenFrom
<1>6. CASE step < 10
  <2>1. /\ vita' = v /\ step' = step + 1 /\ phase' = "send" /\ ret' = ret
    BY <1>5, <1>6 DEF FinishFacts, Finish
  <2> DEFINE s == card[present]
  <2>2. /\ step \in 1..4 => s.lock = "LOCKED"
        /\ step >= 4 => /\ vita.session = s.session /\ vita.random = s.random
                        /\ vita.key_id = CardKeyId[present]
        /\ step >= 5 => s.secondary = vita.secondary /\ s.lock = "UNLOCKED"
    BY <1>1, <1>4 DEF Agree
  <2>3. step = 3 => /\ v.session = s.session /\ v.random = s.random
                    /\ v.key_id = CardKeyId[present]
    <3>1. ASSUME step = 3
          PROVE  /\ v.session = a.session /\ v.random = a.session.random
                 /\ v.key_id = a.session.key_id
      BY <1>2, <1>4, <3>1 DEF TakenFrom, Accepted
    <3>2. ASSUME step = 3
          PROVE  /\ a.session = s.session /\ a.session.random = s.random
                 /\ a.session.key_id = CardKeyId[present]
      BY <1>4, <3>2 DEF Accepted
    <3> QED BY <3>1, <3>2
  <2>4. step # 3 => v.random = vita.random
    BY <1>2 DEF TakenFrom
  <2> HIDE DEF s
  <2>5. Agree(present)'
    BY <1>1, <1>6, <2>1, <2>2, <2>3, <2>4 DEF Agree, s
  <2> QED BY <1>1, <1>3, <1>4, <2>1, <2>5 DEF ReliableInv
<1>7. CASE step >= 10
  <2>1. ret' = "OK" /\ phase' = "idle"
    BY <1>1, <1>5, <1>7 DEF FinishFacts, Finish
  <2> QED BY <2>1 DEF ReliableInv
<1> QED BY <1>1, <1>6, <1>7

(* Every step preserves ReliableInv. *)
LEMMA StepReliable == HandshakeInv /\ [Next]_vars => ReliableInv'
<1> SUFFICES ASSUME KeyInv, UnlockInv, ReliableInv, [Next]_vars PROVE ReliableInv'
    BY DEF HandshakeInv
<1>t. TypeOK
    BY DEF KeyInv
<1>1. CASE k_run_authentication
    BY <1>1 DEF k_run_authentication, ReliableInv, Reliable, Agree
<1>2. CASE HostSends
    BY <1>t, <1>2, SendLemma, SendReliable
<1>3. CASE HostReads
    BY <1>t, <1>3, FinishLemma, FinishReliable
<1>4. CASE RemoveCard
    BY <1>4, <1>t DEF RemoveCard, ReliableInv, Reliable, TypeOK
<1>5. CASE InsertCard
  <2>1. /\ UNCHANGED <<vita, step, phase, ret, chal, card, faults>> /\ present = NoCart
    BY <1>5 DEF InsertCard, hostVars
  <2>2. Reliable' => Reliable
    BY <2>1 DEF Reliable
  <2>3. Reliable' => phase = "idle" /\ ret \in {"none", "OK"}
    BY <1>t, <2>1, <2>2 DEF ReliableInv, TypeOK
  <2> QED BY <2>1, <2>3 DEF ReliableInv
<1>6. CASE UNCHANGED vars
    BY <1>6 DEF vars, ReliableInv, Reliable, Agree, Accepted
<1> QED BY <1>1, <1>2, <1>3, <1>4, <1>5, <1>6, NextSplit

-----------------------------------------------------------------------------
(* The theorems *)

(* The initial state satisfies the invariant. *)
LEMMA InitHandshake == Init => HandshakeInv
<1> SUFFICES ASSUME Init PROVE HandshakeInv
    OBVIOUS
<1>1. KeyInv
    BY InitInv
<1>2. UnlockInv
  <2>1. /\ fresh = 1 /\ ~auth /\ phase = "idle" /\ vita.secondary = 0
        /\ response.vpart.id = 0 /\ \A c \in Carts : card[c] = gc_cmd56_init
    BY DEF Init, vita_cmd56_init, cmd56_response_start, ZeroNonce
  <2>2. AbsentInv /\ SharedInv
    BY <2>1, InitCard DEF AbsentInv, SharedInv
  <2>3. BufferInv /\ HalvesInv /\ LockInv
    BY <2>1 DEF BufferInv, HalvesInv, LockInv
  <2> QED BY <2>2, <2>3 DEF UnlockInv
<1>3. ReliableInv
    BY DEF Init, ReliableInv
<1> QED BY <1>1, <1>2, <1>3 DEF HandshakeInv

(* HandshakeInv, the three arguments together, holds in every reachable state
   of vita_cmd56_run and the cards. *)
THEOREM HandshakeInvariant == Spec => []HandshakeInv
<1>1. HandshakeInv /\ [Next]_vars => HandshakeInv'
    BY StepInv, StepUnlock, StepReliable DEF HandshakeInv
<1> QED BY <1>1, InitHandshake, PTL DEF Spec

(* vita_cmd56_run never succeeds while the card that shares its secondary key is
   locked, whatever transfers were lost and whatever cards were swapped. *)
THEOREM SuccessUnlocks == Spec => []SuccessMeansUnlocked
<1>1. HandshakeInv => SuccessMeansUnlocked
    BY DEF HandshakeInv, UnlockInv, LockInv, SuccessMeansUnlocked
<1> QED BY <1>1, HandshakeInvariant, PTL

(* On a reliable link, with cards whose key id the console takes, none of the
   ten commands of vita_cmd56_run ends in an error, for any random bytes and
   any state an earlier run left in the card. *)
THEOREM ReliableRunsSucceed == Spec => []NoFaultNoFailure
<1>1. HandshakeInv => NoFaultNoFailure
    BY DEF HandshakeInv, ReliableInv, Reliable, NoFaultNoFailure
<1> QED BY <1>1, HandshakeInvariant, PTL
=============================================================================
