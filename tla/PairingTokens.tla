--------------------------- MODULE PairingTokens ----------------------------
(***************************************************************************)
(* HmacPairingService: pairing tokens of the field-capture application,    *)
(* issued by the operator, consumed by the device, revocable.  Calls run   *)
(* concurrently; a consume call looks the token up, awaits the derivation  *)
(* of the tenant's key, and only then compares and writes back the record  *)
(* it looked up.                                                           *)
(*                                                                         *)
(* A token id is random, so an id is issued once, for one tenant; an HMAC  *)
(* is "genuine" when it is the one the service computed for the record.    *)
(***************************************************************************)
EXTENDS Naturals

CONSTANTS
    Tenants, Devices,
    Tokens,  \* the token ids that get issued
    Calls,   \* the calls of ConsumePairingTokenAsync
    Ttl,     \* life of a token
    MaxTime  \* bound on the clock

ASSUME TimeAssumption == Ttl \in Nat \ {0} /\ MaxTime \in Nat
ASSUME DevicesAssumption == "none" \notin Devices

Never == MaxTime + 1
Absent == [device |-> "none", expires |-> 0, consumed |-> Never]
Presentation ==
    [tenant : Tenants, id : Tokens, device : Devices, hmac : {"genuine", "forged"}]

VARIABLES
    now,
    store,     \* store[k]: the record under the key k, a tenant and a token id
    revoked,   \* the keys that were revoked
    call,      \* call[c]: its progress and what it holds across the await
    result,    \* result[c]: "none" until it returns; "null", "accepted" or "threw"
    spent      \* history: calls that began after a revocation of their token,
               \* or after another call had already returned it

pairingVars == <<now, store, revoked, call, result, spent>>

Key == Tenants \X Tokens
KeyOf(p) == <<p.tenant, p.id>>
Record ==
    [device : Devices \cup {"none"}, expires : 0 .. MaxTime + Ttl, consumed : 0 .. Never]
Unused == [pc |-> "idle"]
Progress ==
    [pc : {"deriving", "returned"}, presented : Presentation, stored : Record, at : 0 .. MaxTime]

PairingTypeOK ==
    /\ now \in 0 .. MaxTime
    /\ store \in [Key -> Record]
    /\ revoked \subseteq Key
    /\ call \in [Calls -> {Unused} \cup Progress]
    /\ \A c \in Calls : call[c].pc = "deriving" => call[c].stored.consumed = Never
    /\ result \in [Calls -> {"none", "null", "accepted", "threw"}]
    /\ spent \subseteq Calls

PairingInit ==
    /\ now = 0
    /\ store = [k \in Key |-> Absent]
    /\ revoked = {}
    /\ call = [c \in Calls |-> Unused]
    /\ result = [c \in Calls |-> "none"]
    /\ spent = {}

-----------------------------------------------------------------------------
Tick == now < MaxTime /\ now' = now + 1 /\ UNCHANGED <<store, revoked, call, result, spent>>

Issue(k, d) ==
    /\ \A other \in Tenants : store[<<other, k[2]>>] = Absent
    /\ store' = [store EXCEPT ![k] = [device |-> d, expires |-> now + Ttl, consumed |-> Never]]
    /\ UNCHANGED <<now, revoked, call, result, spent>>

\* Any key can be revoked, issued or not.
Revoke(k) ==
    /\ revoked' = revoked \cup {k}
    /\ UNCHANGED <<now, store, call, result, spent>>

Usable(k) ==
    k \notin revoked /\ store[k] # Absent /\ store[k].consumed = Never /\ now < store[k].expires

Spent(k) ==
    \/ k \in revoked
    \/ \E d \in Calls : result[d] = "accepted" /\ KeyOf(call[d].presented) = k

(***************************************************************************)
(* The first half of a consume call, up to the await: it returns null, or  *)
(* holds on to the record it found and the time it found it.               *)
(***************************************************************************)
Look(c, p) ==
    LET k == KeyOf(p)
        progress(pc) == [pc |-> pc, presented |-> p, stored |-> store[k], at |-> now]
    IN  /\ call[c] = Unused
        /\ \/ /\ Usable(k)
              /\ call' = [call EXCEPT ![c] = progress("deriving")]
              /\ UNCHANGED result
           \/ /\ ~ Usable(k)
              /\ call' = [call EXCEPT ![c] = progress("returned")]
              /\ result' = [result EXCEPT ![c] = "null"]
        /\ spent' = IF Spent(k) THEN spent \cup {c} ELSE spent
        /\ UNCHANGED <<now, store, revoked>>

Return(c, how) ==
    /\ call' = [call EXCEPT ![c].pc = "returned"]
    /\ result' = [result EXCEPT ![c] = how]

\* A wrong comparison that does not look at the device id.
MatchesHmac(c) == call[c].presented.hmac = "genuine"

Matches(c) ==
    call[c].presented.hmac = "genuine" /\ call[c].presented.device = call[c].stored.device

\* A wrong second half that returns the consumed record and does not keep it.
ConsumeWithoutStore(c) ==
    /\ call[c].pc = "deriving"
    /\ Return(c, IF Matches(c) THEN "accepted" ELSE "null")
    /\ UNCHANGED <<now, store, revoked, spent>>

(***************************************************************************)
(* The second half: the presented token is compared with the record found  *)
(* before the await, and that record is written back as consumed at the    *)
(* time read before the await.                                             *)
(***************************************************************************)
Consume(c) ==
    /\ call[c].pc = "deriving"
    /\ \/ /\ Matches(c)
          /\ store' = [store EXCEPT ![KeyOf(call[c].presented)] =
                         [call[c].stored EXCEPT !.consumed = call[c].at]]
          /\ Return(c, "accepted")
       \/ /\ ~ Matches(c)
          /\ Return(c, "null")
          /\ UNCHANGED store
    /\ UNCHANGED <<now, revoked, spent>>

\* The derivation throws or is cancelled; nothing has been written.
DeriveFails(c) ==
    /\ call[c].pc = "deriving"
    /\ Return(c, "threw")
    /\ UNCHANGED <<now, store, revoked, spent>>

PairingNext ==
    \/ Tick
    \/ \E k \in Key : Revoke(k) \/ \E d \in Devices : Issue(k, d)
    \/ \E c \in Calls : Consume(c) \/ DeriveFails(c) \/ \E p \in Presentation : Look(c, p)

PairingSpec == PairingInit /\ [][PairingNext]_pairingVars

-----------------------------------------------------------------------------
Accepted(c) == result[c] = "accepted"
SameToken(c, d) == KeyOf(call[c].presented) = KeyOf(call[d].presented)

(***************************************************************************)
(* What the check before the await does give: a call that begins after the *)
(* token was revoked, or after another call has returned it, is refused.   *)
(* Two calls can be given the same token only if they overlap.             *)
(***************************************************************************)
SpentIsRefused == \A c \in spent : ~ Accepted(c)

(***************************************************************************)
(* A token opens one tenant to one device: an accepted call presented the  *)
(* token of the tenant it was issued for, and all the calls accepted for a *)
(* token, overlapping or not, are of the same device.                      *)
(***************************************************************************)
OneTenantOneDevice ==
    \A c, d \in Calls :
        Accepted(c) /\ Accepted(d) /\ call[c].presented.id = call[d].presented.id
        => /\ SameToken(c, d)
           /\ call[c].presented.device = call[d].presented.device
           /\ store[KeyOf(call[c].presented)].device = call[c].presented.device

(***************************************************************************)
(* "single-use (the ConsumedAt stamp marks consumption)": a token is       *)
(* returned to at most one call.                                           *)
(***************************************************************************)
SingleUse == \A c, d \in Calls : Accepted(c) /\ Accepted(d) /\ SameToken(c, d) => c = d

=============================================================================
