------------------------------- MODULE WebPush -------------------------------
(***************************************************************************)
(* Web push hints for private messages (apps/api/src/notifications.rs):     *)
(* a delivery for every device of the recipient, claimed in batches under   *)
(* a lease by the delivery loops of several instances, sent to the browser  *)
(* vendor one after the other, and settled by an update that checks that    *)
(* the delivery is still being sent, but not by whom.  Account holders      *)
(* register, refresh and disable devices and switch the hints off           *)
(* meanwhile.                                                               *)
(***************************************************************************)
EXTENDS Naturals, FiniteSets, Sequences, SequencesExt

CONSTANTS Accounts, NoAccount, Devices, Hints,
          RecipientOf,             \* the account a private message is for
          Loops,                   \* delivery_loop of each instance
          PushBatch, PushAttempts, \* CLAIM_BATCH_SIZE, MAX_DELIVERY_ATTEMPTS
          MaxDevices,              \* MAX_ACTIVE_PUSH_SUBSCRIPTIONS_PER_ACCOUNT
          MaxRequests, MaxLapses   \* bounds: requests of account holders, leases that end early

ASSUME PushAssumption ==
    /\ RecipientOf \in [Hints -> Accounts] /\ NoAccount \notin Accounts
    /\ IsFiniteSet(Hints) /\ IsFiniteSet(Devices)
    /\ {PushBatch, PushAttempts, MaxDevices, MaxRequests, MaxLapses} \subseteq Nat /\ PushAttempts # 0

VARIABLES
    wanted,      \* notification_preferences.direct_messages_push
    device,      \* web_push_subscriptions, by endpoint
    delivery,    \* web_push_deliveries, by event and endpoint
    claimed,     \* each loop's batch
    request,     \* the open transaction of an account holder
    answers,     \* ghost: what the vendor said of a delivery
    settledAs,   \* ghost: the first final status of a delivery
    lapses,      \* ghost: leases of a delivery that ended before its result
    requests

pushVars == <<wanted, device, delivery, claimed, request, answers, settledAs, lapses, requests>>

PushKeys == Hints \X Devices
Unregistered == [owner |-> NoAccount, active |-> FALSE]
NoDelivery == [status |-> "none", attempts |-> 0, lapsed |-> FALSE]
NoRequest == [kind |-> "none", account |-> NoAccount, device |-> NoAccount, retires |-> {}]
OpenStatus == {"pending", "retry", "sending"}
FinalStatus == {"sent", "gone", "cancelled", "quarantined"}

\* The service starts with the preferences and devices of earlier days.
PushInit ==
    /\ wanted \in [Accounts -> BOOLEAN]
    /\ device \in [Devices -> {Unregistered} \cup [owner: Accounts, active: BOOLEAN]]
    /\ delivery = [k \in PushKeys |-> NoDelivery] /\ claimed = [l \in Loops |-> <<>>] /\ request = NoRequest
    /\ answers = [k \in PushKeys |-> {}] /\ settledAs = [k \in PushKeys |-> "none"] /\ lapses = [k \in PushKeys |-> 0]
    /\ requests = 0

LockedRows == request.retires
\* A delivery changes: its status, and what the ghosts remember of it.
RecordsFinal(rows) ==
    settledAs' = [k \in PushKeys |-> IF rows[k].status \in FinalStatus /\ settledAs[k] = "none" THEN rows[k].status ELSE settledAs[k]]
Deliveries(rows) == delivery' = rows /\ RecordsFinal(rows)

(***************************************************************************)
(* Requests.  Each is one transaction that first retires deliveries, whose *)
(* rows stay locked, and then changes the device or follows a change of    *)
(* the preference; an error rolls it back.  finish_delivery locks the same *)
(* rows in the other order: the database ends a deadlock by failing one.   *)
(***************************************************************************)

OpenOn(ds) == {k \in PushKeys : k[2] \in ds /\ delivery[k].status \in OpenStatus}
DevicesOf(x) == {d \in Devices : device[d].owner = x}
ActiveOthers(x, d) == {e \in DevicesOf(x) \ {d} : device[e].active}

BeginRequest(kind, x, d, ds) ==
    /\ request = NoRequest /\ requests < MaxRequests /\ requests' = requests + 1
    /\ request' = [kind |-> kind, account |-> x, device |-> d, retires |-> OpenOn(ds)]
    /\ UNCHANGED <<wanted, device, delivery, claimed, answers, settledAs, lapses>>

\* A device that belongs to another account is a conflict and rolls back.
register_push_subscription(x, d) ==
    /\ Cardinality(ActiveOthers(x, d)) < MaxDevices /\ device[d].owner \in {x, NoAccount}
    /\ BeginRequest("register", x, d, DevicesOf(x) \cap {d})
delete_push_subscription(x, d) == d \in DevicesOf(x) /\ BeginRequest("disable", x, d, {d})
\* Of a device other than the one the request comes from, while it is active.
disable_push_subscription_by_id(x, d) == d \in DevicesOf(x) /\ device[d].active /\ BeginRequest("disable", x, d, {d})
update_notification_preferences(x, on) ==
    BeginRequest(IF on THEN "want" ELSE "unwant", x, NoAccount, IF on THEN {} ELSE DevicesOf(x))

RetiredAs == IF request.kind = "register" THEN "gone" ELSE "cancelled"
CommitRequest ==
    /\ request # NoRequest /\ request' = NoRequest
    /\ Deliveries([k \in PushKeys |-> IF k \in request.retires THEN [delivery[k] EXCEPT !.status = RetiredAs, !.lapsed = FALSE] ELSE delivery[k]])
    /\ device' = CASE request.kind = "register" -> [device EXCEPT ![request.device] = [owner |-> request.account, active |-> TRUE]]
                   [] request.kind = "disable" -> [device EXCEPT ![request.device].active = FALSE]
                   [] OTHER -> device
    /\ wanted' = IF request.kind \in {"want", "unwant"} THEN [wanted EXCEPT ![request.account] = request.kind = "want"] ELSE wanted
    /\ UNCHANGED <<claimed, answers, lapses, requests>>
RollbackRequest ==
    /\ request # NoRequest /\ request' = NoRequest
    /\ UNCHANGED <<wanted, device, delivery, claimed, answers, settledAs, lapses, requests>>

(***************************************************************************)
(* The consumer of the event chain and the delivery loops                  *)
(***************************************************************************)

\* The event may come again: rows that exist stay as they are.
materialize_direct_message_deliveries(h) ==
    LET new == {d \in DevicesOf(RecipientOf[h]) : device[d].active /\ delivery[<<h, d>>] = NoDelivery} IN
    /\ wanted[RecipientOf[h]] /\ new # {}
    /\ delivery' = [k \in PushKeys |-> IF k \in {h} \X new THEN [NoDelivery EXCEPT !.status = "pending"] ELSE delivery[k]]
    /\ UNCHANGED <<wanted, device, claimed, request, answers, settledAs, lapses, requests>>

Claimable(k) ==
    /\ device[k[2]].active /\ wanted[device[k[2]].owner]
    /\ delivery[k].status \in {"pending", "retry"} \/ (delivery[k].status = "sending" /\ delivery[k].lapsed)
    /\ k \notin LockedRows

\* When a retry is due is left open, so the batch is any part of what may be
\* claimed, in the order the rows came back.
claim_deliveries(l) ==
    /\ claimed[l] = <<>>
    /\ \E picked \in SUBSET {k \in PushKeys : Claimable(k)} :
         /\ picked # {} /\ Cardinality(picked) <= PushBatch
         /\ delivery' = [k \in PushKeys |-> IF k \in picked
              THEN [status |-> "sending", attempts |-> delivery[k].attempts + 1, lapsed |-> FALSE] ELSE delivery[k]]
         /\ \E order \in SetToSeqs(picked) :
              claimed' = [claimed EXCEPT ![l] = [i \in 1..Len(order) |->
                  [key |-> order[i], attempt |-> delivery[order[i]].attempts + 1, answer |-> "none"]]]
    /\ UNCHANGED <<wanted, device, request, answers, settledAs, lapses, requests>>

\* send_private_message_hint: the vendor takes it, knows no such device, is
\* busy or not reached, or refuses it.
send_private_message_hint(l, answer) ==
    /\ claimed[l] # <<>> /\ claimed[l][1].answer = "none"
    /\ claimed' = [claimed EXCEPT ![l][1].answer = answer]
    /\ answers' = [answers EXCEPT ![claimed[l][1].key] = @ \cup {answer}]
    /\ UNCHANGED <<wanted, device, delivery, request, settledAs, lapses, requests>>

StatusOf(c) ==
    CASE c.answer \in {"sent", "gone"} -> c.answer
      [] c.answer = "retry" /\ c.attempt < PushAttempts -> "retry"
      [] OTHER -> "quarantined"

SettledAnyway(c) == [delivery EXCEPT ![c.key].status = StatusOf(c), ![c.key].lapsed = FALSE]
\* Only a delivery that is being sent is settled.
SettledBy(c) == IF delivery[c.key].status = "sending"
              THEN [delivery EXCEPT ![c.key].status = StatusOf(c), ![c.key].lapsed = FALSE] ELSE delivery

VendorAnswered(l) == claimed[l] # <<>> /\ claimed[l][1].answer # "none"

finish_delivery(l) ==
    LET c == claimed[l][1] IN
    /\ VendorAnswered(l) /\ c.key \notin LockedRows
    /\ Deliveries(SettledBy(c)) /\ claimed' = [claimed EXCEPT ![l] = Tail(@)]
    /\ device' = IF c.answer = "gone" THEN [device EXCEPT ![c.key[2]].active = FALSE] ELSE device
    /\ UNCHANGED <<wanted, request, answers, lapses, requests>>
\* The result cannot be written: it is logged and forgotten.
FinishFails(l) ==
    /\ VendorAnswered(l) /\ claimed' = [claimed EXCEPT ![l] = Tail(@)]
    /\ UNCHANGED <<wanted, device, delivery, request, answers, settledAs, lapses, requests>>
LoopDies(l) ==
    /\ claimed[l] # <<>> /\ claimed' = [claimed EXCEPT ![l] = <<>>]
    /\ UNCHANGED <<wanted, device, delivery, request, answers, settledAs, lapses, requests>>

\* claimed_until passes, whether the loop is slow, failed or dead.
LeaseLapses(k) ==
    /\ delivery[k].status = "sending" /\ ~delivery[k].lapsed /\ k \notin LockedRows /\ lapses[k] < MaxLapses
    /\ delivery' = [delivery EXCEPT ![k].lapsed = TRUE] /\ lapses' = [lapses EXCEPT ![k] = @ + 1]
    /\ UNCHANGED <<wanted, device, claimed, request, answers, settledAs, requests>>

PushNext ==
    \/ \E x \in Accounts :
         \/ \E d \in Devices : register_push_subscription(x, d) \/ delete_push_subscription(x, d)
                                 \/ disable_push_subscription_by_id(x, d)
         \/ \E on \in BOOLEAN : update_notification_preferences(x, on)
    \/ CommitRequest \/ RollbackRequest
    \/ \E h \in Hints : materialize_direct_message_deliveries(h)
    \/ \E l \in Loops : claim_deliveries(l) \/ finish_delivery(l) \/ FinishFails(l) \/ LoopDies(l)
                          \/ \E answer \in {"sent", "gone", "retry", "quarantined"} : send_private_message_hint(l, answer)
    \/ \E k \in PushKeys : LeaseLapses(k)

PushSpec == PushInit /\ [][PushNext]_pushVars

(***************************************************************************)
(* A delivery is settled once and for a reason, whatever late results of   *)
(* loops that lost their lease come in: what was final stays, "sent" means *)
(* that the vendor took a hint, "quarantined" that it refused one or that  *)
(* every attempt was used, and a delivery gets no more attempts than the   *)
(* limit and one for every lease that lapsed.                              *)
(***************************************************************************)
PushIsSound ==
    \A k \in PushKeys :
        /\ settledAs[k] # "none" => delivery[k].status = settledAs[k]
        /\ delivery[k].status = "sent" => "sent" \in answers[k]
        /\ delivery[k].status = "quarantined" => "quarantined" \in answers[k] \/ delivery[k].attempts >= PushAttempts
        /\ delivery[k].attempts <= PushAttempts + lapses[k]

=============================================================================
