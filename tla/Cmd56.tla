------------------------------- MODULE Cmd56 -------------------------------
(***************************************************************************)
(* Game card authentication: the console (kern/cmd56/vita.c, driven by     *)
(* kern/auth_emu.c) runs ten CMD56 exchanges with the card (the card's     *)
(* side is kern/cmd56/gc.c) over an SDIF link whose errors are ignored.    *)
(*                                                                         *)
(* Cryptography is symbolic.  A random value is a number never drawn       *)
(* before; 0 is a block of zeros or of unknown bytes.  A challenge also    *)
(* carries the top bit of its first byte, the bit or_w_80 sets and the     *)
(* comparisons from byte 1 on ignore.  A ciphertext or a CMAC is a record  *)
(* naming its key: under another key it decrypts to garbage.               *)
(***************************************************************************)
EXTENDS Naturals

CONSTANTS
    Carts,           \* the cards that may sit in the slot
    NoCart,          \* the empty slot; also "no key stored yet"
    CardKeyId,       \* the key id each card announces
    AllowPrototype,  \* vita_state.allow_prototype_keys == 1
    MaxRuns,         \* bound: authentications started
    MaxFaults        \* bound: lost writes, lost reads and removals

PROTOTYPE_KEY_ID1 == 32769
DerivableIds == {1, 32769, 32770, 32771}
CardIds == DerivableIds

ASSUME CartsAssumption == NoCart \notin Carts
ASSUME KeyIdAssumption == CardKeyId \in [Carts -> CardIds]
ASSUME BoundsAssumption ==
    MaxRuns \in Nat /\ MaxFaults \in Nat /\ AllowPrototype \in BOOLEAN

VARIABLES
    vita,      \* vita_cmd56_state
    step,      \* the exchange vita_cmd56_run is at, 1..10
    phase,     \* idle, about to send the request, about to read the answer
    ret,       \* what vita_cmd56_run returned; "none" before the first return
    chal,      \* the challenge of the request under way
    response,  \* the local buffer of vita_cmd56_run
    auth,      \* is_authenticated of auth_emu.c
    present,   \* the card in the slot
    card,      \* gc_cmd56_state of every card and the last answer it made
    fresh,     \* the next random value
    seen,      \* history: the cards in the slot since the run began
    runs, faults

vars == <<vita, step, phase, ret, chal, response, auth, present, card, fresh,
          seen, runs, faults>>
hostVars == <<vita, step, phase, ret, chal, response, auth, runs>>

-----------------------------------------------------------------------------
(* Data *)

LockStatus == {"LOCKED", "UNLOCKED", "other"}
KeyIds == DerivableIds \cup {0, 65535}
Session == [key_id : KeyIds, random : Nat]
Nonce == [id : Nat, hi : BOOLEAN]
Owner == Carts \cup {NoCart}
Codes == {"OK", "START_FAIL", "UNLOCKED", "LOCKED", "INVALID_KEYID", "REPORTED",
          "SHARED_RANDOM_INVALID", "CHALLENGE_INVALID", "CART_RANDOM_INVALID",
          "P18_CHALLENGE", "P18_CMAC", "P20_CHALLENGE", "P20_CMAC"}

ZeroNonce == [id |-> 0, hi |-> FALSE]
ZeroSession == [key_id |-> 0, random |-> 0]
or_w_80(n) == [n EXCEPT !.hi = TRUE]
Fresh80(id) == [id |-> id, hi |-> TRUE]

(* The answers.  "zero" is a data field of zeros, "ff" one of 0xFF bytes;  *)
(* the E forms are encrypted, the others plaintext or decrypted in place.  *)
Kinds == {"zero", "ff", "garbage", "status", "session", "sharedE", "shared",
          "verifyE", "verify", "p18E", "p18", "p20E", "p20"}
Response == [kind : Kinds, error : Nat, status : LockStatus, session : Session,
             key : Nat, vpart : Nonce, cpart : Nonce, owner : Owner]

(* cmd56_response_start: the answer starts out zeroed, with no error. *)
cmd56_response_start ==
    [kind |-> "zero", error |-> 0, status |-> "UNLOCKED", session |-> ZeroSession,
     key |-> 0, vpart |-> ZeroNonce, cpart |-> ZeroNonce, owner |-> NoCart]
cmd56_response_error(code) ==
    [cmd56_response_start EXCEPT !.kind = "ff", !.error = code]

Commands == {"START", "STATUS", "SESSION", "SHARED", "SECONDARY", "VERIFY", "P18", "P20"}
Request == [cmd : Commands, session : Session, key : Nat, secondary : Nat,
            type : Nat, vpart : Nonce, cpart : Nonce]

(* cmd56_request_start zeroes the request; each command fills in its part. *)
cmd56_request_start(cmd) ==
    [cmd |-> cmd, session |-> ZeroSession, key |-> 0, secondary |-> 0, type |-> 0,
     vpart |-> ZeroNonce, cpart |-> ZeroNonce]

(* decrypt_cbc_zero_iv on the answer, in place. *)
DecryptShared(session, r) ==
    IF r.kind = "sharedE" /\ r.session = session
    THEN [r EXCEPT !.kind = "shared"] ELSE [r EXCEPT !.kind = "garbage"]
DecryptVerify(key, r) ==
    IF r.kind = "verifyE" /\ r.key = key
    THEN [r EXCEPT !.kind = "verify"] ELSE [r EXCEPT !.kind = "garbage"]

(* do_cmd56_cmac_hash over an answer: it covers the key, the ciphertext and
   the size, so an answer to another command or one that has already been
   decrypted in place does not match. *)
CmacMatches(key, kind, r) == r.kind = kind /\ r.key = key

-----------------------------------------------------------------------------
(* The card: kern/cmd56/gc.c *)

CardState == [lock : LockStatus, random : Nat, session : Session, vpart : Nonce,
              cpart : Nonce, secondary : Nat, out : Response]

(* gc_cmd56_init: the state of a card that has just got power. *)
gc_cmd56_init ==
    [lock |-> "LOCKED", random |-> 0, session |-> ZeroSession, vpart |-> ZeroNonce,
     cpart |-> ZeroNonce, secondary |-> 0, out |-> cmd56_response_start]

handle_cmd_start(s) ==
    [s EXCEPT !.lock = "LOCKED", !.out = cmd56_response_start]

handle_cmd_status(s) ==
    [s EXCEPT !.out = [cmd56_response_start EXCEPT !.kind = "status",
                                                   !.status = s.lock]]

handle_generate_session_key(c, s, id) ==
    LET key == [key_id |-> CardKeyId[c], random |-> id]
    IN  [s EXCEPT !.random = id, !.session = key,
                  !.out = [cmd56_response_start EXCEPT !.kind = "session",
                                                       !.session = key]]

handle_exchange_shared_random(c, s, q, id) ==
    IF q.session.key_id = CardKeyId[c]
    THEN [s EXCEPT !.vpart = or_w_80(q.vpart), !.cpart = Fresh80(id),
                   !.out = [cmd56_response_start EXCEPT !.kind = "sharedE",
                                !.session = s.session,
                                !.vpart = or_w_80(q.vpart), !.cpart = Fresh80(id)]]
    ELSE [s EXCEPT !.out = cmd56_response_error(17)]

(* Mutants of handle_exchange_secondary_key: lock_status never set to unlocked;
   the challenge halves not compared. *)
SecondaryKeepsLock(s, q) ==
    LET mine == q.session = s.session
        key  == IF mine THEN q.secondary ELSE 0
    IN  [s EXCEPT !.secondary = key, !.out = cmd56_response_start]
SecondaryUnchecked(s, q) ==
    LET key == IF q.session = s.session THEN q.secondary ELSE 0
    IN  [s EXCEPT !.secondary = key, !.lock = "UNLOCKED", !.out = cmd56_response_start]

(* The new secondary key is installed before the challenge is compared; a
   request under another session key decrypts to unknown bytes. *)
handle_exchange_secondary_key(s, q) ==
    LET mine == q.session = s.session
        key  == IF mine THEN q.secondary ELSE 0
    IN  IF mine /\ q.vpart = s.vpart /\ q.cpart = s.cpart
        THEN [s EXCEPT !.secondary = key, !.lock = "UNLOCKED",
                       !.out = cmd56_response_start]
        ELSE [s EXCEPT !.secondary = key, !.lock = "LOCKED",
                       !.out = cmd56_response_error(241)]

handle_verify_secondary_key(s, q) ==
    [s EXCEPT !.out = [cmd56_response_start EXCEPT !.kind = "verifyE",
                           !.key = s.secondary, !.vpart = or_w_80(q.vpart),
                           !.session.random = s.random]]

handle_p18key_and_cmac_signature(c, s, q) ==
    IF q.key # s.secondary
    THEN [s EXCEPT !.out = cmd56_response_error(244)]
    ELSE IF (q.type # 2 \/ q.type # 3) /\ or_w_80(q.vpart) # q.vpart
    THEN [s EXCEPT !.out = cmd56_response_error(17)]
    ELSE [s EXCEPT !.out = [cmd56_response_start EXCEPT !.kind = "p18E",
                                !.key = s.secondary, !.vpart = q.vpart,
                                !.owner = c]]

handle_p20key_and_cmac_signature(c, s, q) ==
    [s EXCEPT !.out = [cmd56_response_start EXCEPT !.kind = "p20E",
                           !.key = s.secondary, !.vpart = or_w_80(q.vpart),
                           !.owner = c]]

handle_unknown_request(s) == [s EXCEPT !.out = cmd56_response_error(17)]

(* gc_cmd56_run and the switch of handle_request. *)
handle_request(c, s, q, id) ==
    CASE q.cmd = "START"     -> handle_cmd_start(s)
      [] q.cmd = "STATUS"    -> handle_cmd_status(s)
      [] q.cmd = "SESSION"   -> handle_generate_session_key(c, s, id)
      [] q.cmd = "SHARED"    -> handle_exchange_shared_random(c, s, q, id)
      [] q.cmd = "SECONDARY" -> handle_exchange_secondary_key(s, q)
      [] q.cmd = "VERIFY"    -> handle_verify_secondary_key(s, q)
      [] q.cmd = "P18"       -> handle_p18key_and_cmac_signature(c, s, q)
      [] q.cmd = "P20"       -> handle_p20key_and_cmac_signature(c, s, q)
      [] OTHER               -> handle_unknown_request(s)

-----------------------------------------------------------------------------
(* The link and the console's reading of an answer *)

VitaState == [lock : LockStatus, key_id : KeyIds, random : Nat, session : Session,
              vpart : Nonce, cpart : Nonce, secondary : Nat,
              p18 : Owner, p20 : Owner]

(* k_clear_secret and vita_cmd56_init leave the state zeroed; a zeroed
   lock_status reads GC_UNLOCKED. *)
vita_cmd56_init ==
    [lock |-> "UNLOCKED", key_id |-> 0, random |-> 0, session |-> ZeroSession,
     vpart |-> ZeroNonce, cpart |-> ZeroNonce, secondary |-> 0,
     p18 |-> NoCart, p20 |-> NoCart]

(* A transfer fails: always with no card in the slot, else as a fault. *)
TransferFails ==
    /\ present = NoCart \/ faults < MaxFaults
    /\ faults' = IF present = NoCart THEN faults ELSE faults + 1

(* k_gc_cmd56_write: the card handles the request, or never sees it. *)
k_gc_cmd56_write(q) ==
    \/ /\ present # NoCart
       /\ card' = [card EXCEPT ![present] =
                      handle_request(present, card[present], q, fresh + 1)]
       /\ UNCHANGED faults
    \/ TransferFails /\ UNCHANGED card

(* k_gc_cmd56_read: the card's latest answer, or the buffer as it was. *)
k_gc_cmd56_read(r) ==
    \/ present # NoCart /\ r = card[present].out /\ UNCHANGED faults
    \/ TransferFails /\ r = response

(* The first two bytes of an answer read as a lock status, whatever command it
   answers: ciphertext and random padding may read as anything, and the first
   byte of a decrypted shared random has its top bit set. *)
StatusViews(r) ==
    CASE r.kind = "status"          -> {r.status}
      [] r.kind = "zero"            -> {"UNLOCKED"}
      [] r.kind \in {"session", "ff"} -> {"other"}
      [] r.kind = "shared"          -> {"LOCKED", "other"}
      [] OTHER                      -> LockStatus

(* Bytes 2 and 3 of an answer read as a key id. *)
KeyIdViews(r) ==
    CASE r.kind = "session"           -> {r.session.key_id}
      [] r.kind \in {"zero", "status"} -> {0}
      [] r.kind = "ff"                -> {65535}
      [] OTHER                        -> KeyIds

GC_AUTH_RETURN_STATUS(r) == IF r.error # 0 THEN "REPORTED" ELSE "OK"

(* send_packet, first half: command n's request goes out. *)
Send(n, q, v, ch) ==
    /\ phase = "send" /\ step = n
    /\ k_gc_cmd56_write(q)
    /\ phase' = "recv"
    /\ vita' = v
    /\ chal' = ch
    /\ fresh' = fresh + 2
    /\ UNCHANGED <<step, ret, response, auth, present, seen, runs>>

(* Mutants of Finish: keys kept when a command failed; the answer read again
   until it is a good one. *)
FinishKeepsKeys(code, v, r) ==
    /\ chal' = ZeroNonce
    /\ IF code = "OK" /\ step < 10
       THEN /\ vita' = v /\ response' = r /\ step' = step + 1 /\ phase' = "send"
            /\ UNCHANGED <<ret, auth>>
       ELSE /\ vita' = v
            /\ auth' = (code = "OK") /\ ret' = code /\ phase' = "idle"
            /\ response' = cmd56_response_start /\ UNCHANGED step
    /\ UNCHANGED <<present, card, fresh, seen, runs>>
FinishWaits(code, v, r) ==
    /\ IF code = "OK" /\ step = 10
       THEN /\ vita' = v /\ auth' = TRUE /\ ret' = code /\ phase' = "idle"
            /\ chal' = ZeroNonce /\ response' = cmd56_response_start /\ UNCHANGED step
       ELSE IF code = "OK"
       THEN /\ vita' = v /\ response' = r /\ phase' = "send" /\ step' = step + 1
            /\ chal' = ZeroNonce /\ UNCHANGED <<ret, auth>>
       ELSE UNCHANGED <<vita, chal, response, phase, step, ret, auth>>
    /\ UNCHANGED <<present, card, fresh, seen, runs>>

(* check_success: on to the next command, or out of vita_cmd56_run with the
   command's code; k_run_authentication then keeps the keys or clears them. *)
Finish(code, v, r) ==
    /\ chal' = ZeroNonce
    /\ IF code = "OK" /\ step < 10
       THEN /\ vita' = v /\ response' = r /\ step' = step + 1 /\ phase' = "send"
            /\ UNCHANGED <<ret, auth>>
       ELSE /\ vita' = IF code = "OK" THEN v ELSE vita_cmd56_init
            /\ auth' = (code = "OK")
            /\ ret' = code
            /\ phase' = "idle"
            /\ response' = cmd56_response_start
            /\ UNCHANGED step
    /\ UNCHANGED <<present, card, fresh, seen, runs>>

Recv(n, r) == phase = "recv" /\ step = n /\ k_gc_cmd56_read(r)

(* What a read can leave in the buffer. *)
ReadResults ==
    {response} \cup (IF present = NoCart THEN {} ELSE {card[present].out})

-----------------------------------------------------------------------------
(* The console: kern/cmd56/vita.c, one pair of actions per command *)

(* k_run_authentication up to vita_cmd56_run, and the zeroed local buffers. *)
k_run_authentication ==
    /\ phase = "idle" /\ present # NoCart /\ runs < MaxRuns
    /\ vita' = vita_cmd56_init
    /\ auth' = FALSE
    /\ ret' = "none"
    /\ step' = 1
    /\ phase' = "send"
    /\ chal' = ZeroNonce
    /\ response' = cmd56_response_start
    /\ runs' = runs + 1
    /\ seen' = {present}
    /\ UNCHANGED <<present, card, fresh, faults>>

start_request ==
    Send(1, cmd56_request_start("START"), vita, chal)
start_request_answer ==
    \E r \in ReadResults : \E b \in StatusViews(r) :
        /\ Recv(1, r)
        /\ Finish(IF b = "UNLOCKED" THEN GC_AUTH_RETURN_STATUS(r) ELSE "START_FAIL",
                  vita, r)

get_status ==
    \E n \in {2, 6} : Send(n, cmd56_request_start("STATUS"), vita, chal)
(* get_status and the test of lock_status that follows it: locked before the
   session, unlocked after the secondary key. *)
LockCode(n, r, b) ==
    IF r.error # 0 THEN "REPORTED"
    ELSE IF n = 2 THEN (IF b = "LOCKED" THEN "OK" ELSE "UNLOCKED")
    ELSE (IF b = "UNLOCKED" THEN "OK" ELSE "LOCKED")
get_status_answer ==
    \E n \in {2, 6}, r \in ReadResults : \E b \in StatusViews(r) :
        /\ Recv(n, r)
        /\ Finish(LockCode(n, r, b), [vita EXCEPT !.lock = b], r)

get_session_key ==
    Send(3, cmd56_request_start("SESSION"), vita, chal)
KeyIdCode(r, k) ==
    IF (AllowPrototype /\ k > PROTOTYPE_KEY_ID1) \/ k \notin DerivableIds
    THEN "INVALID_KEYID" ELSE GC_AUTH_RETURN_STATUS(r)
get_session_key_answer ==
    \E r \in ReadResults : \E k \in KeyIdViews(r) :
        LET random == IF r.kind = "session" THEN r.session.random ELSE 0
        IN  /\ Recv(3, r)
            /\ Finish(KeyIdCode(r, k),
                      [vita EXCEPT !.key_id = k, !.random = random,
                                   !.session = [key_id |-> k, random |-> random]],
                      r)

exchange_shared_random ==
    \E hi \in BOOLEAN :
        LET rand == [id |-> fresh, hi |-> hi]
        IN  Send(4, [cmd56_request_start("SHARED") EXCEPT
                        !.session.key_id = vita.key_id, !.vpart = rand],
                 [vita EXCEPT !.vpart = rand], chal)
(* Mutant of SharedCode: memcmp from byte 0 on. *)
SharedCodeFromByte0(r, d) ==
    IF r.error # 0 THEN "REPORTED"
    ELSE IF d.kind = "shared" /\ d.vpart = vita.vpart
    THEN "OK" ELSE "SHARED_RANDOM_INVALID"
SharedCode(r, d) ==
    IF r.error # 0 THEN "REPORTED"
    ELSE IF d.kind = "shared" /\ d.vpart.id = vita.vpart.id
    THEN "OK" ELSE "SHARED_RANDOM_INVALID"
exchange_shared_random_answer ==
    \E r \in ReadResults :
        LET d == DecryptShared(vita.session, r)
        IN  /\ Recv(4, r)
            /\ Finish(SharedCode(r, d), [vita EXCEPT !.cpart = d.cpart], d)

generate_secondary_key_and_verify_session ==
    LET v == [vita EXCEPT !.secondary = fresh, !.vpart = or_w_80(vita.vpart),
                          !.cpart = or_w_80(vita.cpart)]
    IN  Send(5, [cmd56_request_start("SECONDARY") EXCEPT
                    !.session = v.session, !.secondary = fresh,
                    !.vpart = v.vpart, !.cpart = v.cpart],
             v, chal)
generate_secondary_key_answer ==
    \E r \in ReadResults :
        Recv(5, r) /\ Finish(GC_AUTH_RETURN_STATUS(r), vita, r)

verify_secondary_key ==
    Send(7, [cmd56_request_start("VERIFY") EXCEPT !.vpart = Fresh80(fresh)],
         vita, Fresh80(fresh))
(* The answer is decrypted and compared before its error code is looked at. *)
VerifyCode(d) ==
    IF ~(d.kind = "verify" /\ d.vpart.id = chal.id) THEN "CHALLENGE_INVALID"
    ELSE IF d.session.random # vita.random THEN "CART_RANDOM_INVALID"
    ELSE GC_AUTH_RETURN_STATUS(d)
verify_secondary_key_answer ==
    \E r \in ReadResults :
        LET d == DecryptVerify(vita.secondary, r)
        IN  Recv(7, r) /\ Finish(VerifyCode(d), vita, d)

get_packet18_key ==
    \E n \in {8, 9} :
        Send(n, [cmd56_request_start("P18") EXCEPT !.key = vita.secondary,
                     !.type = n - 6, !.vpart = Fresh80(fresh)],
             vita, Fresh80(fresh))
P18Code(r) ==
    IF r.error # 0 THEN "REPORTED"
    ELSE IF ~CmacMatches(vita.secondary, "p18E", r) THEN "P18_CMAC"
    ELSE IF r.vpart.id # chal.id THEN "P18_CHALLENGE" ELSE "OK"
get_packet18_key_answer ==
    \E n \in {8, 9}, r \in ReadResults :
        /\ Recv(n, r)
        /\ Finish(P18Code(r), [vita EXCEPT !.p18 = r.owner], [r EXCEPT !.kind = "p18"])

get_packet20_key ==
    Send(10, [cmd56_request_start("P20") EXCEPT !.vpart = Fresh80(fresh)],
         vita, Fresh80(fresh))
(* Mutant of P20Code: the answer's CMAC not checked. *)
P20CodeNoCmac(r) ==
    IF r.error # 0 THEN "REPORTED"
    ELSE IF r.vpart.id # chal.id THEN "P20_CHALLENGE" ELSE "OK"
P20Code(r) ==
    IF r.error # 0 THEN "REPORTED"
    ELSE IF ~CmacMatches(vita.secondary, "p20E", r) THEN "P20_CMAC"
    ELSE IF r.vpart.id # chal.id THEN "P20_CHALLENGE" ELSE "OK"
get_packet20_key_answer ==
    \E r \in ReadResults :
        /\ Recv(10, r)
        /\ Finish(P20Code(r), [vita EXCEPT !.p20 = r.owner], [r EXCEPT !.kind = "p20"])

-----------------------------------------------------------------------------
(* The slot: a card that leaves it loses power, and with it its session. *)
RemoveCard ==
    /\ present # NoCart /\ faults < MaxFaults
    /\ card' = [card EXCEPT ![present] = gc_cmd56_init]
    /\ present' = NoCart
    /\ faults' = faults + 1
    /\ UNCHANGED <<hostVars, fresh, seen>>

InsertCard ==
    /\ present = NoCart
    /\ \E c \in Carts : present' = c /\ seen' = seen \cup {c}
    /\ UNCHANGED <<hostVars, card, fresh, faults>>

Init ==
    /\ vita = vita_cmd56_init
    /\ step = 1 /\ phase = "idle" /\ ret = "none"
    /\ chal = ZeroNonce
    /\ response = cmd56_response_start
    /\ auth = FALSE
    /\ present \in Owner
    /\ card = [c \in Carts |-> gc_cmd56_init]
    /\ fresh = 1 /\ seen = {} /\ runs = 0 /\ faults = 0

HostNext ==
    \/ start_request \/ start_request_answer
    \/ get_status \/ get_status_answer
    \/ get_session_key \/ get_session_key_answer
    \/ exchange_shared_random \/ exchange_shared_random_answer
    \/ generate_secondary_key_and_verify_session \/ generate_secondary_key_answer
    \/ verify_secondary_key \/ verify_secondary_key_answer
    \/ get_packet18_key \/ get_packet18_key_answer
    \/ get_packet20_key \/ get_packet20_key_answer

Next == k_run_authentication \/ HostNext \/ RemoveCard \/ InsertCard

Spec == Init /\ [][Next]_vars

(* The kernel thread that runs the authentication is never descheduled for
   good, and no SDIF transfer blocks for ever. *)
FairSpec == Spec /\ WF_vars(HostNext)

-----------------------------------------------------------------------------
(* Properties *)

(* The console's state, the response buffer and the cards' states stay within
   what vita.h, gc.h and cmd56.h declare, and no run goes past the tenth
   exchange. *)
TypeOK ==
    /\ vita \in VitaState
    /\ step \in 1..10
    /\ phase \in {"idle", "send", "recv"}
    /\ ret \in Codes \cup {"none"}
    /\ chal \in Nonce
    /\ response \in Response
    /\ auth \in BOOLEAN
    /\ present \in Owner
    /\ card \in [Carts -> CardState]
    /\ fresh \in Nat \ {0}
    /\ seen \subseteq Carts
    /\ runs \in 0..MaxRuns
    /\ faults \in 0..MaxFaults

(* Whatever was lost on the link and whatever card was swapped in while the
   handshake ran, keys are only released as a pair: when k_run_authentication
   sets is_authenticated, packet18_key and packet20_key are both present, come
   from one card that was in the slot during this very run, and that card
   announced the key id kGetKeyId returns. *)
KeysFromOneCard ==
    auth => /\ vita.p18 \in seen
            /\ vita.p20 = vita.p18
            /\ CardKeyId[vita.p18] = vita.key_id

(* The argument behind KeysFromOneCard.  A key leaves a card only in an answer
   sealed with that card's secondary key; the console's secondary key is new in
   every run and goes out once, under the session key of one card; so at most
   one card ever holds it, and both keys come from that card. *)
Sealed(r) == r.kind \in {"p18E", "p20E"}
Knows(c, k) ==
    \/ card[c].secondary = k
    \/ Sealed(card[c].out) /\ card[c].out.key = k
SoleHolder(c) ==
    /\ c \in seen /\ CardKeyId[c] = vita.key_id
    /\ \A d \in Carts : Knows(d, vita.secondary) => d = c

CardInv ==
    \A c \in Carts :
        /\ card[c].secondary < fresh /\ card[c].out.key < fresh
        /\ Sealed(card[c].out) => card[c].out.owner = c
        /\ card[c].session.key_id \in {0, CardKeyId[c]}
RunInv ==
    phase # "idle" =>
        /\ ~auth
        /\ present = NoCart \/ present \in seen
        /\ Sealed(response) => response.key < fresh
        /\ step >= 4 => vita.key_id \in DerivableIds /\ vita.session.key_id = vita.key_id
        /\ (step >= 6 \/ (step = 5 /\ phase = "recv")) => vita.secondary # 0
        /\ step >= 9 => ~Sealed(response)
HolderInv ==
    (phase # "idle" /\ vita.secondary # 0) =>
        /\ step >= 5
        /\ \A c \in Carts : Knows(c, vita.secondary) => SoleHolder(c)
        /\ (Sealed(response) /\ response.key = vita.secondary) => SoleHolder(response.owner)
        /\ step >= 9 => SoleHolder(vita.p18)
(* KeysFromOneCard made inductive. *)
KeyInv == TypeOK /\ CardInv /\ RunInv /\ HolderInv /\ KeysFromOneCard

(* After a success the card that still shares the secondary key is unlocked:
   a stale answer never makes vita_cmd56_run take a locked card for an
   unlocked one. *)
SuccessMeansUnlocked ==
    auth => \A c \in Carts :
                card[c].secondary = vita.secondary => card[c].lock = "UNLOCKED"

(* No fault, no failure: with a reliable link and a card whose key id the
   console takes, the ten exchanges never end in an error, whatever the random
   bytes are (the first byte of the shared random is compared by neither side
   until both have or'd it with 0x80). *)
NoFaultNoFailure ==
    (faults = 0 /\ \A c \in Carts : CardKeyId[c] <= PROTOTYPE_KEY_ID1)
        => ret \in {"none", "OK"}

(* The argument behind SuccessMeansUnlocked.  A card out of the slot has lost its
   session, so only the card in it counts.  Its answer to the shared random
   carries the very halves it stored, and is told from a stale one by a number
   never drawn before; so when the fifth request goes out, a card that can decrypt
   it also passes it, and a card that takes the secondary key unlocks. *)
AbsentInv == \A c \in Carts : c # present => card[c] = gc_cmd56_init
SharedInv ==
    \A c \in Carts :
        /\ card[c].out.vpart.id < fresh
        /\ card[c].out.kind = "sharedE" =>
             /\ card[c].out.vpart = card[c].vpart /\ card[c].vpart.hi
             /\ card[c].out.cpart = card[c].cpart /\ card[c].cpart.hi
BufferInv ==
    /\ response.vpart.id < fresh
    /\ (step = 4 /\ phase = "recv") => response.vpart.id # vita.vpart.id
HalvesAgree(c) ==
    card[c].vpart = or_w_80(vita.vpart) /\ card[c].cpart = or_w_80(vita.cpart)
HalvesInv ==
    (step = 5 /\ phase = "send") =>
        \A c \in Carts : card[c].session = vita.session => HalvesAgree(c)
LockInv ==
    /\ auth => vita.secondary # 0
    /\ vita.secondary # 0 =>
         \A c \in Carts :
             card[c].secondary = vita.secondary => card[c].lock = "UNLOCKED"
UnlockInv == AbsentInv /\ SharedInv /\ BufferInv /\ HalvesInv /\ LockInv

(* The argument behind NoFaultNoFailure.  While no transfer has failed the card
   that was in the slot when the run began is still there, what both ends have
   stored so far agrees, and the answer about to be read is the one the
   command under way accepts. *)
Reliable == faults = 0 /\ \A c \in Carts : CardKeyId[c] <= PROTOTYPE_KEY_ID1
Agree(c) ==
    /\ step \in 2..4 \/ (step = 1 /\ phase = "recv") \/ (step = 5 /\ phase = "send")
         => card[c].lock = "LOCKED"
    /\ step >= 4 => /\ vita.session = card[c].session /\ vita.random = card[c].random
                    /\ vita.key_id = CardKeyId[c]
    /\ step >= 6 \/ (step = 5 /\ phase = "recv")
         => card[c].secondary = vita.secondary /\ card[c].lock = "UNLOCKED"
Accepted(c, r) ==
    /\ r.error = 0
    /\ step = 1 => r.kind = "zero"
    /\ step = 2 => r.kind = "status" /\ r.status = "LOCKED"
    /\ step = 3 => /\ r.kind = "session" /\ r.session = card[c].session
                   /\ r.session = [key_id |-> CardKeyId[c], random |-> card[c].random]
    /\ step = 4 => r.kind = "sharedE" /\ r.session = vita.session
                   /\ r.vpart.id = vita.vpart.id
    /\ step = 6 => r.kind = "status" /\ r.status = "UNLOCKED"
    /\ step = 7 => r.kind = "verifyE" /\ r.session.random = vita.random
    /\ step \in {8, 9} => r.kind = "p18E"
    /\ step = 10 => r.kind = "p20E"
    /\ step >= 7 => r.key = vita.secondary /\ r.vpart.id = chal.id
ReliableInv ==
    Reliable =>
        /\ ret \in {"none", "OK"}
        /\ phase # "idle" => present # NoCart /\ Agree(present)
        /\ phase = "recv" => Accepted(present, card[present].out)
(* The three arguments together: inductive. *)
HandshakeInv == KeyInv /\ UnlockInv /\ ReliableInv

(* Only the console that holds the card's current session key, and that saw
   the card's own half of the shared random, opens a card. *)
UnlockNeedsSession ==
    [][\A c \in Carts :
         (card[c].lock # "UNLOCKED" /\ card'[c].lock = "UNLOCKED")
            => /\ card[c].session = vita.session
               /\ card[c].cpart.id = vita.cpart.id
               /\ card'[c].secondary = vita'.secondary]_vars

(* Every authentication ends, with a key pair or with an error, even when all
   transfers fail from some point on. *)
RunsEnd == (phase = "send") ~> (phase = "idle")

(* What the rest of the program relies on: k_run_authentication behaves as one
   atomic CardAuth step that yields a key pair of one card or nothing. *)
Auth == INSTANCE CardAuth WITH
            running <- phase # "idle", slot <- present,
            keys <- IF phase = "idle" THEN <<vita.p18, vita.p20>>
                    ELSE <<NoCart, NoCart>>
ImplementsCardAuth == Auth!Spec

(* vita.h: "set to 0x1 to allow using keyid > 0x8001". *)
PrototypeCardsAllowed ==
    AllowPrototype => ret # "INVALID_KEYID" \/ faults > 0
=============================================================================
