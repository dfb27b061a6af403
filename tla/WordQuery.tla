----------------------------- MODULE WordQuery -----------------------------
(***************************************************************************)
(* The word query of one learner: bot.py (text_router, _dispatch_awaiting, *)
(* _process_ask_word and the query:* taps), services/word_query.py and the *)
(* tables query_results, saved_words and users it writes.                  *)
(*                                                                         *)
(* Updates are handled one at a time, in the order they arrive.  A step is *)
(* what the handler does between two awaits: pc names the next one.  The   *)
(* learner taps and types meanwhile, midnight passes, stored cards expire, *)
(* and a database or Telegram call may fail at any step.                   *)
(***************************************************************************)
EXTENDS Naturals, Sequences, SequencesExt

CONSTANTS
    Texts,       \* what the learner asks for
    MenuText,    \* the text of the ask button, no valid query
    CancelText,  \* a text that leaves the flow
    Words,       \* the words cards are about
    NoWord,
    Limit,       \* daily_word_query_limit_for_plan
    Cap,         \* _QUERY_RESULTS_CAP
    QueueSize,   \* bound: updates that wait to be handled
    MaxUpdates,  \* bound: updates the learner sends
    MaxDays,     \* bound: days
    MaxFaults    \* bound: calls that fail, crashes

ASSUME ConstantsAssumption ==
    /\ {MenuText, CancelText} \cap Texts = {} /\ MenuText # CancelText
    /\ NoWord \notin Words
    /\ Limit \in Nat
    /\ {Cap, MaxDays} \subseteq Nat \ {0}
    /\ {QueueSize, MaxUpdates, MaxFaults} \subseteq Nat

Days   == 1..MaxDays

(* An update that is handled stores one card and makes one offer at most;  *)
(* a crash may have an update handled again.                               *)
Tokens == 1..(MaxUpdates + MaxFaults)
Offers == 1..(MaxUpdates + MaxFaults)

AnyText == Texts \cup {MenuText, CancelText}

(* An update: a text, or a tap on a button of a card or of an offer.       *)
Update ==
    [kind : {"text"}, text : AnyText]
        \cup [kind : {"add"}, tok : Tokens]
        \cup [kind : {"new", "reuse", "cancel"}, offer : Offers]

Idle == [kind |-> "none"]

(* A row of query_results that has not expired.                            *)
Card == [tok : Tokens, text : AnyText, word : Words, saved : BOOLEAN]

PCs == {"idle", "slot", "find", "reserve", "ai", "byword", "dedup", "alias",
        "store", "streak", "refund", "usage", "send", "undo", "reply",
        "offer", "clear", "resend", "toggle", "flag"}

(* The steps between the reservation and its settlement.                   *)
Holding == {"ai", "byword", "dedup", "store", "streak", "refund", "usage",
            "send", "undo"}

VARIABLES
    day,
    count, date,       \* users.words_asked_today, words_asked_date
    cards,             \* query_results of the learner, oldest first
    minted,            \* tokens given out
    words,             \* saved_words of the learner
    waiting, pending,  \* user_data: awaiting ask_word; the restore marker
    inbox,             \* updates not handled yet
    pc, cur, text, tok, word,  \* the running handler and its locals
    billed,            \* history: it has delivered a card
    shown,             \* the cards in the chat, by token
    offers,            \* the offers in the chat: card, buttons
    updates, faults,   \* counters
    held,              \* history: the day of the open reservation, or 0
    delivered,         \* history: answers charged to each day
    forfeited,         \* history: charges of each day nobody got a card for
    expired            \* history: tokens of the rows that have expired

users   == <<count, date, held, delivered, forfeited>>
results == <<cards, minted, expired>>
data    == <<waiting, pending>>
handler == <<pc, cur, text, tok, word, billed>>
chat    == <<shown, offers>>
learner == <<inbox, updates>>
vars    == <<day, users, results, words, data, handler, chat, learner, faults>>

-----------------------------------------------------------------------------
(* Helpers                                                                 *)

HasCard(t) == \E i \in DOMAIN cards : cards[i].tok = t

CardOf(t) == cards[CHOOSE i \in DOMAIN cards : cards[i].tok = t]

(* t is the newest card for which P holds.                                 *)
IsNewest(t, P(_)) ==
    \E i \in DOMAIN cards :
        /\ cards[i].tok = t
        /\ P(cards[i])
        /\ \A j \in (i + 1)..Len(cards) : ~P(cards[j])

(* Mutant: the oldest card goes, the one to keep included.                 *)
CappedEvictsOldest(s, keep) == IF Len(s) <= Cap THEN s ELSE Tail(s)

(* Mutant: the cap is not enforced.                                        *)
CapNotEnforced(s, keep) == s

(* _enforce_query_results_cap: the oldest go, but never the one to keep.   *)
(* One card is added at a time, so one is over the cap at most.            *)
Capped(s, keep) ==
    IF Len(s) <= Cap THEN s
    ELSE LET old == CHOOSE i \in DOMAIN s :
                        /\ s[i].tok # keep
                        /\ \A j \in 1..(i - 1) : s[j].tok = keep
         IN  RemoveAt(s, old)

NewCard(w) == [tok |-> minted + 1, text |-> text, word |-> w, saved |-> FALSE]

(* create_query_result: insert and cap in one transaction.                 *)
Create(w, keep) ==
    /\ minted' = minted + 1
    /\ cards' = Capped(Append(cards, NewCard(w)), keep)
    /\ UNCHANGED expired

(* A fresh ask, by a tap on an offer, looks for no duplicate.              *)
Skip == cur.kind = "new"

Spent == IF date = day THEN count ELSE 0

Becomes(step) == pc' = step /\ UNCHANGED <<cur, text, tok, word, billed>>

Stop ==
    /\ pc' = "idle"
    /\ cur' = Idle
    /\ text' = MenuText
    /\ tok' = 0
    /\ word' = NoWord
    /\ billed' = FALSE

(* The handler ends: _dispatch_awaiting pops the marker.                   *)
Finish == Stop /\ pending' = FALSE /\ UNCHANGED waiting

(* It raises: an input that was not consumed is asked for again.           *)
Restore ==
    /\ Stop
    /\ waiting' = (waiting \/ pending)
    /\ pending' = FALSE

(* Mutant: whatever fails gives a charge of the day back.                  *)
LoseRefunds ==
    /\ held' = 0
    /\ count' = IF date = day /\ count > 0 THEN count - 1 ELSE count
    /\ UNCHANGED <<date, forfeited, delivered>>

(* An open reservation nobody will settle.                                 *)
Lose ==
    /\ held' = 0
    /\ forfeited' = IF held = 0 THEN forfeited
                    ELSE [forfeited EXCEPT ![held] = @ + 1]
    /\ UNCHANGED <<count, date, delivered>>

Costs == faults < MaxFaults /\ faults' = faults + 1

-----------------------------------------------------------------------------
(* The learner, the calendar                                               *)

Arrives(u) ==
    /\ updates < MaxUpdates
    /\ Len(inbox) < QueueSize
    /\ updates' = updates + 1
    /\ inbox' = Append(inbox, u)
    /\ UNCHANGED <<day, users, results, words, data, handler, chat, faults>>

Type(t)    == Arrives([kind |-> "text", text |-> t])
TapAdd(t)  == t \in shown /\ Arrives([kind |-> "add", tok |-> t])
TapOffer(o, k) ==
    /\ o \in DOMAIN offers
    /\ offers[o].buttons
    /\ Arrives([kind |-> k, offer |-> o])

Midnight ==
    /\ day < MaxDays
    /\ day' = day + 1
    /\ UNCHANGED <<users, results, words, data, handler, chat, learner, faults>>

(* The oldest card has lived its 30 days.                                  *)
Expire ==
    /\ cards # <<>>
    /\ cards' = Tail(cards)
    /\ expired' = expired \cup {Head(cards).tok}
    /\ UNCHANGED <<day, users, minted, words, data, handler, chat, learner,
                   faults>>

-----------------------------------------------------------------------------
(* An update reaches its handler                                           *)

(* A text that answers the prompt: awaiting is cleared before the handler  *)
(* runs and the marker lets a failure bring it back.                       *)
TakeAnswer(u) ==
    /\ u.kind = "text" /\ u.text # CancelText
    /\ waiting
    /\ waiting' = FALSE
    /\ pending' = TRUE
    /\ pc' = "slot" /\ cur' = u /\ text' = u.text
    /\ UNCHANGED <<tok, word, billed>>

(* _exit_awaiting_flow.                                                    *)
TakeCancel(u) ==
    /\ u = [kind |-> "text", text |-> CancelText]
    /\ waiting' = FALSE
    /\ UNCHANGED <<pending, handler>>

(* ask_for_ask_word arms the flow while the day's quota is not used up.    *)
TakeMenu(u) ==
    /\ u = [kind |-> "text", text |-> MenuText]
    /\ ~waiting
    /\ waiting' = (Spent < Limit)
    /\ UNCHANGED <<pending, handler>>

(* A text nobody waits for.                                                *)
TakeOther(u) ==
    /\ u.kind = "text" /\ u.text \in Texts
    /\ ~waiting
    /\ UNCHANGED <<data, handler>>

(* query:add: toggle_save reads the card the token names.                  *)
TakeAdd(u) ==
    /\ u.kind = "add"
    /\ IF HasCard(u.tok)
       THEN /\ pc' = "toggle" /\ cur' = u
            /\ tok' = u.tok /\ word' = CardOf(u.tok).word
            /\ UNCHANGED <<text, billed>>
       ELSE UNCHANGED handler
    /\ UNCHANGED data

(* query:dup:new asks again for the text the card was stored under;        *)
(* query:dup:reuse shows the card.  Both need it alive.                    *)
TakeOffer(u) ==
    /\ u.kind \in {"new", "reuse"}
    /\ LET t == offers[u.offer].tok
       IN  IF HasCard(t)
           THEN /\ pc' = "clear" /\ cur' = u
                /\ tok' = t /\ text' = CardOf(t).text
                /\ UNCHANGED <<word, billed>>
           ELSE UNCHANGED handler
    /\ UNCHANGED data

(* query:dup:cancel.                                                       *)
TakeDecline(u) ==
    /\ u.kind = "cancel"
    /\ waiting' = FALSE
    /\ pc' = "clear" /\ cur' = u
    /\ UNCHANGED <<pending, text, tok, word, billed>>

Take ==
    /\ pc = "idle"
    /\ inbox # <<>>
    /\ inbox' = Tail(inbox)
    /\ LET u == Head(inbox)
       IN  \/ TakeAnswer(u)
           \/ TakeCancel(u)
           \/ TakeMenu(u)
           \/ TakeOther(u)
           \/ TakeAdd(u)
           \/ TakeOffer(u)
           \/ TakeDecline(u)
    /\ UNCHANGED <<day, users, results, words, chat, updates, faults>>

-----------------------------------------------------------------------------
(* _process_ask_word and word_query.ask                                    *)

Asks == UNCHANGED <<day, words, learner>>

(* The rate guard refuses: the input is lost.                              *)
Throttled ==
    /\ pc = "slot"
    /\ Becomes("reply")
    /\ Asks /\ UNCHANGED <<users, results, data, chat, faults>>

(* invalid_input re-arms the flow.                                         *)
Invalid ==
    /\ pc = "slot"
    /\ text \notin Texts
    /\ waiting' = TRUE
    /\ Becomes("reply")
    /\ Asks /\ UNCHANGED <<users, results, pending, chat, faults>>

Valid ==
    /\ pc = "slot"
    /\ text \in Texts
    /\ Becomes("find")
    /\ Asks /\ UNCHANGED <<users, results, data, chat, faults>>

SameText(c) == c.text = text
SameWord(c) == c.word = word

(* find_duplicate: a card for this text is offered before any charge.      *)
Find ==
    /\ pc = "find"
    /\ IF ~Skip /\ \E i \in DOMAIN cards : SameText(cards[i])
       THEN \E t \in Tokens :
                /\ IsNewest(t, SameText)
                /\ pc' = "offer" /\ tok' = t
                /\ UNCHANGED <<cur, text, word, billed>>
       ELSE Becomes("reserve")
    /\ Asks /\ UNCHANGED <<users, results, data, chat, faults>>

(* Mutant: yesterday's count goes on.                                      *)
ReserveKeepsCount ==
    /\ pc = "reserve"
    /\ Spent < Limit
    /\ count' = count + 1
    /\ date' = day
    /\ held' = day
    /\ Becomes("ai")
    /\ Asks
    /\ UNCHANGED <<delivered, forfeited, results, data, chat, faults>>

(* reserve_word_query: the count starts over on a new day.                 *)
Reserve ==
    /\ pc = "reserve"
    /\ Spent < Limit
    /\ count' = Spent + 1
    /\ date' = day
    /\ held' = day
    /\ Becomes("ai")
    /\ Asks
    /\ UNCHANGED <<delivered, forfeited, results, data, chat, faults>>

Exhausted ==
    /\ pc = "reserve"
    /\ Spent >= Limit
    /\ Becomes("reply")
    /\ Asks /\ UNCHANGED <<users, results, data, chat, faults>>

(* generate_card returns a card; it is about some word.                    *)
Generate ==
    /\ pc = "ai"
    /\ \E w \in Words : word' = w
    /\ pc' = IF Skip THEN "store" ELSE "byword"
    /\ UNCHANGED <<cur, text, tok, billed>>
    /\ Asks /\ UNCHANGED <<users, results, data, chat, faults>>

(* It times out, raises, or returns nothing usable.                        *)
GenerateFails ==
    /\ pc = "ai"
    /\ Becomes("refund")
    /\ Asks /\ UNCHANGED <<users, results, data, chat, faults>>

(* find_unexpired_query_by_word: the learner has this card already.        *)
ByWord ==
    /\ pc = "byword"
    /\ IF \E i \in DOMAIN cards : SameWord(cards[i])
       THEN \E t \in Tokens :
                /\ IsNewest(t, SameWord)
                /\ pc' = "dedup" /\ tok' = t
                /\ UNCHANGED <<cur, text, word, billed>>
       ELSE Becomes("store")
    /\ Asks /\ UNCHANGED <<users, results, data, chat, faults>>

(* release_word_query touches the count of today only.                     *)
Release ==
    /\ count' = IF date = day /\ count > 0 THEN count - 1 ELSE count
    /\ held' = 0
    /\ UNCHANGED <<date, delivered, forfeited>>

Refund ==
    /\ pc = "refund"
    /\ Release
    /\ Becomes("reply")
    /\ Asks /\ UNCHANGED <<results, data, chat, faults>>

RefundDuplicate ==
    /\ pc = "dedup"
    /\ Release
    /\ Becomes("alias")
    /\ Asks /\ UNCHANGED <<results, data, chat, faults>>

(* The next ask for this text finds the card before the charge.            *)
Alias ==
    /\ pc = "alias"
    /\ Create(word, tok)
    /\ Becomes("offer")
    /\ Asks /\ UNCHANGED <<users, data, chat, faults>>

(* sqlite3.Error is swallowed.                                             *)
AliasFails ==
    /\ pc = "alias"
    /\ Costs
    /\ Becomes("offer")
    /\ Asks /\ UNCHANGED <<users, results, data, chat>>

Store ==
    /\ pc = "store"
    /\ Create(word, 0)
    /\ pc' = "streak" /\ tok' = minted + 1
    /\ UNCHANGED <<cur, text, word, billed>>
    /\ Asks /\ UNCHANGED <<users, data, chat, faults>>

(* touch_streak, in the same try: when it fails the card stays stored.     *)
Streak ==
    /\ pc = "streak"
    /\ Becomes("usage")
    /\ Asks /\ UNCHANGED <<users, results, data, chat, faults>>

PersistFails ==
    /\ pc \in {"store", "streak"}
    /\ Costs
    /\ Becomes("refund")
    /\ Asks /\ UNCHANGED <<users, results, data, chat>>

Usage ==
    /\ pc = "usage"
    /\ Becomes("send")
    /\ Asks /\ UNCHANGED <<users, results, data, chat, faults>>

(* Mutant: the marker is not popped after the card.                        *)
SendCardKeepsMarker ==
    /\ pc = "send"
    /\ shown' = shown \cup {tok}
    /\ held' = 0
    /\ delivered' = [delivered EXCEPT ![held] = @ + 1]
    /\ billed' = TRUE
    /\ pc' = "reply"
    /\ UNCHANGED <<cur, text, tok, word>>
    /\ Asks
    /\ UNCHANGED <<count, date, forfeited, results, data, offers, faults>>

(* The card is delivered: the charge stands, the input is consumed.        *)
SendCard ==
    /\ pc = "send"
    /\ shown' = shown \cup {tok}
    /\ held' = 0
    /\ delivered' = [delivered EXCEPT ![held] = @ + 1]
    /\ pending' = FALSE
    /\ billed' = TRUE
    /\ pc' = "reply"
    /\ UNCHANGED <<cur, text, tok, word>>
    /\ Asks
    /\ UNCHANGED <<count, date, forfeited, results, waiting, offers, faults>>

(* It raises, and Telegram may have the message all the same.              *)
SendCardFails ==
    /\ pc = "send"
    /\ Costs
    /\ shown' \in {shown, shown \cup {tok}}
    /\ Becomes("undo")
    /\ Asks /\ UNCHANGED <<users, results, data, offers>>

(* The finally clause gives the charge back, and the exception goes on.    *)
Undo ==
    /\ pc = "undo"
    /\ Release
    /\ Restore
    /\ Asks /\ UNCHANGED <<results, chat, faults>>

(* The message that ends the handler; after a card, the closing message.   *)
Reply ==
    /\ pc = "reply"
    /\ Finish
    /\ Asks /\ UNCHANGED <<users, results, chat, faults>>

MakeOffer ==
    /\ pc = "offer"
    /\ offers' = Append(offers, [tok |-> tok, buttons |-> TRUE])
    /\ Finish
    /\ Asks /\ UNCHANGED <<users, results, shown, faults>>

-----------------------------------------------------------------------------
(* Taps                                                                    *)

(* _clear_duplicate_choice: a BadRequest, for buttons that are gone        *)
(* already, is swallowed.                                                  *)
Clear ==
    /\ pc = "clear"
    /\ offers' = [offers EXCEPT ![cur.offer].buttons = FALSE]
    /\ waiting' = IF Skip THEN FALSE ELSE waiting
    /\ \/ cur.kind = "new" /\ Becomes("slot")
       \/ cur.kind = "reuse" /\ Becomes("resend")
       \/ cur.kind = "cancel" /\ Stop
    /\ Asks /\ UNCHANGED <<users, results, pending, shown, faults>>

(* The card again, free.                                                   *)
Resend ==
    /\ pc = "resend"
    /\ shown' = shown \cup {tok}
    /\ Becomes("reply")
    /\ Asks /\ UNCHANGED <<users, results, data, offers, faults>>

(* toggle_review_word.                                                     *)
Toggle ==
    /\ pc = "toggle"
    /\ words' = IF word \in words THEN words \ {word} ELSE words \cup {word}
    /\ Becomes("flag")
    /\ UNCHANGED <<day, learner, users, results, data, chat, faults>>

(* mark_query_result_saved or clear_query_result_saved, in a transaction   *)
(* of its own.                                                             *)
Flag ==
    /\ pc = "flag"
    /\ cards' = [i \in DOMAIN cards |->
                    IF cards[i].tok = tok
                    THEN [cards[i] EXCEPT !.saved = (word \in words)]
                    ELSE cards[i]]
    /\ Stop
    /\ Asks /\ UNCHANGED <<users, minted, expired, data, chat, faults>>

-----------------------------------------------------------------------------
(* Failures                                                                *)

(* A call raises and nothing in ask catches it; what was reserved is lost. *)
(* An edit or a message that raises may have its effect.                   *)
Raises ==
    /\ pc \notin {"idle", "ai", "alias", "store", "streak", "send"}
    /\ Costs
    /\ Lose
    /\ Restore
    /\ \/ UNCHANGED chat
       \/ /\ pc = "clear"
          /\ offers' = [offers EXCEPT ![cur.offer].buttons = FALSE]
          /\ UNCHANGED shown
       \/ /\ pc = "offer"
          /\ offers' = Append(offers, [tok |-> tok, buttons |-> TRUE])
          /\ UNCHANGED shown
       \/ /\ pc = "resend"
          /\ shown' = shown \cup {tok}
          /\ UNCHANGED offers
    /\ Asks /\ UNCHANGED results

(* The process dies and starts again.  Telegram keeps the updates it has   *)
(* not handed over.                                                        *)
Crash ==
    /\ Costs
    /\ Lose
    /\ Stop
    /\ waiting' = FALSE
    /\ pending' = FALSE
    /\ \/ inbox' = <<>>
       \/ inbox' = inbox
       \/ pc # "idle" /\ inbox' = <<cur>> \o inbox
    /\ UNCHANGED <<day, results, words, chat, updates>>

-----------------------------------------------------------------------------
(* Specification                                                           *)

Init ==
    /\ day = 1 /\ count = 0 /\ date = 0
    /\ cards = <<>> /\ minted = 0 /\ expired = {}
    /\ words = {}
    /\ waiting = FALSE /\ pending = FALSE
    /\ inbox = <<>>
    /\ pc = "idle" /\ cur = Idle /\ text = MenuText /\ tok = 0 /\ word = NoWord
    /\ billed = FALSE
    /\ shown = {} /\ offers = <<>>
    /\ updates = 0 /\ faults = 0
    /\ held = 0
    /\ delivered = [d \in Days |-> 0]
    /\ forfeited = [d \in Days |-> 0]

Handle ==
    \/ Take
    \/ Throttled \/ Invalid \/ Valid
    \/ Find \/ Reserve \/ Exhausted
    \/ Generate \/ GenerateFails \/ ByWord
    \/ Refund \/ RefundDuplicate
    \/ Alias \/ Store \/ Streak \/ Usage
    \/ SendCard \/ Undo \/ Reply
    \/ MakeOffer \/ Clear \/ Resend \/ Toggle \/ Flag

Fail == AliasFails \/ PersistFails \/ SendCardFails \/ Raises \/ Crash

Environment ==
    \/ \E t \in AnyText : Type(t)
    \/ \E t \in Tokens : TapAdd(t)
    \/ \E o \in Offers, k \in {"new", "reuse", "cancel"} : TapOffer(o, k)
    \/ Midnight
    \/ Expire

Next == Handle \/ Fail \/ Environment

(* The event loop runs a handler until it ends: every call it awaits has a *)
(* deadline or a bounded number of retries.                                *)
Spec == Init /\ [][Next]_vars /\ WF_vars(Handle)

-----------------------------------------------------------------------------
(* Properties                                                              *)

(* Every variable has its type; no more cards are kept than the cap allows *)
(* (_enforce_query_results_cap), and a handler runs for an update.         *)
TypeOK ==
    /\ day \in Days /\ count \in 0..Limit /\ date \in {0} \cup Days
    /\ cards \in Seq(Card) /\ Len(cards) <= Cap
    /\ minted \in {0} \cup Tokens /\ expired \subseteq Tokens
    /\ words \subseteq Words
    /\ waiting \in BOOLEAN /\ pending \in BOOLEAN /\ billed \in BOOLEAN
    /\ inbox \in Seq(Update)
    /\ pc \in PCs /\ cur \in Update \cup {Idle} /\ (pc = "idle") = (cur = Idle)
    /\ text \in AnyText /\ tok \in {0} \cup Tokens /\ word \in Words \cup {NoWord}
    /\ shown \subseteq Tokens
    /\ offers \in Seq([tok : Tokens, buttons : BOOLEAN])
    /\ updates \in 0..MaxUpdates /\ faults \in 0..MaxFaults
    /\ held \in {0} \cup Days
    /\ delivered \in [Days -> Nat] /\ forfeited \in [Days -> Nat]

(* The quota as its users understand it: reservations that are settled     *)
(* once, refunds that never reach into another day.                        *)
Ledger == INSTANCE QuotaLedger WITH today <- day, spent <- Spent, open <- held

(* The handlers implement the ledger: every step of a handler, whatever    *)
(* fails in it, is one settlement of the ledger or none, and a reservation *)
(* does not stay open (word_query.ask and the finally clause of            *)
(* _process_ask_word).                                                     *)
LedgerSpec == Ledger!Spec

(* Between two handlers no reservation is open, and what the day's counter *)
(* says is what was delivered or lost that day: a refund after midnight,   *)
(* or one for a card that was stored all the same, does not disturb it.    *)
QuotaBalanced ==
    /\ (held # 0) = (pc \in Holding)
    /\ Ledger!Balanced

(* No day brings the learner more charged answers than the plan allows.    *)
DeliveredWithinLimit == \A d \in Days : delivered[d] + forfeited[d] <= Limit

(* A retrieve-or-new offer names a card that can still be retrieved: the   *)
(* alias stored just before it has not pushed that card out of the table.  *)
OfferIsLive == pc = "offer" => HasCard(tok) \/ tok \in expired

(* An ask that has delivered its card is not asked for again, whatever     *)
(* fails after the card (mark_awaiting_consumed).                          *)
DeliveredInputConsumed == [][billed /\ ~waiting => ~waiting']_vars
=============================================================================
