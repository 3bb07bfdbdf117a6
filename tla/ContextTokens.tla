----------------------------- MODULE ContextTokens -----------------------------
(***************************************************************************)
(* The conversation tokens of a client (src/client.go:115-181): a bounded  *)
(* cache from chat to token, kept as a map into a doubly linked list whose *)
(* front is the most recently used entry, and the token a handler's own    *)
(* context carries (src/listener.go:217-220).                              *)
(*                                                                         *)
(* Each method runs under ctxTokensMu, so it is one action.  The list is   *)
(* modelled as it is used: an element has an identity of its own, the map  *)
(* holds identities, and the value in an element names its chat.           *)
(*                                                                         *)
(* Handlers are slots that run dispatchInbound for one message each; they  *)
(* share the cache with each other and with application goroutines.        *)
(***************************************************************************)
EXTENDS Naturals, Sequences, FiniteSets, SequencesExt

CONSTANTS
    Chats,              \* conversation ids, all non-empty
    Tokens,             \* token values, all non-empty
    NoToken,            \* the empty token
    Nil,                \* no list element
    MaxContextTokens,   \* Config.MaxContextTokens
    Handlers            \* bound: messages in their handlers at once

\* Config.validate (src/config.go:215-233) refuses a limit below one.
ASSUME LimitAssumption ==
    /\ MaxContextTokens \in Nat \ {0}
    /\ NoToken \notin Tokens
    /\ Cardinality(Chats) > 0

\* The identities of list elements: one more than the list ever keeps.
Elements == 1..(MaxContextTokens + 1)

ASSUME NilAssumption == Nil \notin Elements \cup Chats

VARIABLES
    ctxTokens,      \* the map: the element of each chat, or Nil
    order,          \* ctxTokenLRU from front to back: a sequence of elements
    value,          \* the contextTokenEntry in each element
    handler,        \* per handler: the message it works on, and the token of
                    \* the last request it sent to that message's user
    recency,        \* history: chats by last successful use, newest first
    latest          \* history: the token each chat was last given

cacheVars == <<ctxTokens, order, value>>
historyVars == <<recency, latest>>
vars == <<cacheVars, handler, historyVars>>

Idle == [chat |-> Nil, token |-> NoToken, sent |-> NoToken]

Init ==
    /\ ctxTokens = [c \in Chats |-> Nil]
    /\ order = <<>>
    /\ value = [e \in Elements |-> [userID |-> Nil, token |-> NoToken]]
    /\ handler = [h \in Handlers |-> Idle]
    /\ recency = <<>>
    /\ latest = [c \in Chats |-> NoToken]

\* A sequence without x, which occurs in it once at most.
Without(s, x) ==
    IF x \in ToSet(s) THEN RemoveAt(s, CHOOSE i \in DOMAIN s : s[i] = x) ELSE s

ToFront(x, s) == <<x>> \o Without(s, x)

MoveToFront(e) == ToFront(e, order)
Used(c) == recency' = ToFront(c, recency)
-----------------------------------------------------------------------------
\* Variant of Replace: no MoveToFront.
ReplaceInPlace(c, t) ==
    /\ ctxTokens[c] # Nil
    /\ value' = [value EXCEPT ![ctxTokens[c]] = [userID |-> c, token |-> t]]
    /\ UNCHANGED <<ctxTokens, order>>

(* SetContextToken with a token: the entry of the chat is replaced and     *)
(* moved to the front, or a new one is pushed there and, above the limit,  *)
(* the entry at the back goes from the list and, by its own userID, from   *)
(* the map.                                                                *)
Replace(c, t) ==
    /\ ctxTokens[c] # Nil
    /\ value' = [value EXCEPT ![ctxTokens[c]] = [userID |-> c, token |-> t]]
    /\ order' = MoveToFront(ctxTokens[c])
    /\ UNCHANGED ctxTokens

\* Variant of Insert: the evicted chat stays in the map.
InsertUnindexed(c, t, e) ==
    /\ ctxTokens[c] = Nil
    /\ e \notin ToSet(order)
    /\ value' = [value EXCEPT ![e] = [userID |-> c, token |-> t]]
    /\ ctxTokens' = [ctxTokens EXCEPT ![c] = e]
    /\ order' = IF Len(order) + 1 > MaxContextTokens
                THEN <<e>> \o Front(order) ELSE <<e>> \o order

Insert(c, t, e) ==
    /\ ctxTokens[c] = Nil
    /\ e \notin ToSet(order)
    /\ value' = [value EXCEPT ![e] = [userID |-> c, token |-> t]]
    /\ IF Len(order) + 1 > MaxContextTokens
       THEN LET oldest == Last(<<e>> \o order)
            IN  /\ ctxTokens' = [ctxTokens EXCEPT ![c] = e,
                                                  ![value[oldest].userID] = Nil]
                /\ order' = Front(<<e>> \o order)
       ELSE /\ ctxTokens' = [ctxTokens EXCEPT ![c] = e]
            /\ order' = <<e>> \o order

Store(c, t) ==
    /\ Replace(c, t) \/ \E e \in Elements : Insert(c, t, e)
    /\ Used(c)
    /\ latest' = [latest EXCEPT ![c] = t]

(* ContextToken: a hit counts as a use, a miss changes nothing.            *)
Cached(c) == IF ctxTokens[c] = Nil THEN NoToken ELSE value[ctxTokens[c]].token

LookUp(c) ==
    IF ctxTokens[c] = Nil THEN UNCHANGED <<cacheVars, historyVars>>
    ELSE /\ order' = MoveToFront(ctxTokens[c])
         /\ Used(c)
         /\ UNCHANGED <<ctxTokens, value, latest>>

\* Variant of Forget: the removed chat stays in the map.
ForgetKeepsMap(c) ==
    /\ IF ctxTokens[c] = Nil THEN UNCHANGED cacheVars
       ELSE order' = Without(order, ctxTokens[c]) /\ UNCHANGED <<ctxTokens, value>>
    /\ latest' = [latest EXCEPT ![c] = NoToken]
    /\ UNCHANGED recency

(* ForgetContextToken.                                                     *)
Forget(c) ==
    /\ IF ctxTokens[c] = Nil THEN UNCHANGED cacheVars
       ELSE /\ ctxTokens' = [ctxTokens EXCEPT ![c] = Nil]
            /\ order' = Without(order, ctxTokens[c])
            /\ UNCHANGED value
    /\ latest' = [latest EXCEPT ![c] = NoToken]
    /\ UNCHANGED recency
-----------------------------------------------------------------------------
(* The application restores, looks up and removes tokens at any time.      *)
SetContextToken(c, t) ==
    /\ IF t = NoToken THEN Forget(c) ELSE Store(c, t)
    /\ UNCHANGED handler

ContextToken(c) == LookUp(c) /\ UNCHANGED handler

ForgetContextToken(c) == Forget(c) /\ UNCHANGED handler

(* dispatchInbound takes up a message: its token goes into the cache and   *)
(* into the context of its handler; without a token, into neither.         *)
Dispatch(h, c, t) ==
    /\ handler[h] = Idle
    /\ IF t = NoToken THEN UNCHANGED <<cacheVars, historyVars>> ELSE Store(c, t)
    /\ handler' = [handler EXCEPT ![h] = [chat |-> c, token |-> t, sent |-> NoToken]]

\* Variant of ContextTokenFor: the token of the context is not looked at.
CacheOnly(h, c) == Cached(c)

(* contextTokenFor: the token of the handler's context for its own user,   *)
(* the cache for anyone else.                                              *)
ContextTokenFor(h, c) ==
    IF handler[h].chat = c /\ handler[h].token # NoToken THEN handler[h].token
    ELSE Cached(c)

(* The handler sends to chat c: contextTokenFor, then the request.         *)
Send(h, c) ==
    /\ handler[h] # Idle
    /\ IF handler[h].chat = c /\ handler[h].token # NoToken
       THEN UNCHANGED <<cacheVars, historyVars>>
       ELSE LookUp(c)
    /\ handler' = IF handler[h].chat = c
                  THEN [handler EXCEPT ![h].sent = ContextTokenFor(h, c)]
                  ELSE handler

HandlerReturns(h) ==
    /\ handler[h] # Idle
    /\ handler' = [handler EXCEPT ![h] = Idle]
    /\ UNCHANGED <<cacheVars, historyVars>>

Next ==
    \/ \E c \in Chats, t \in Tokens \cup {NoToken} : SetContextToken(c, t)
    \/ \E c \in Chats : ContextToken(c) \/ ForgetContextToken(c)
    \/ \E h \in Handlers, c \in Chats, t \in Tokens \cup {NoToken} : Dispatch(h, c, t)
    \/ \E h \in Handlers, c \in Chats : Send(h, c)
    \/ \E h \in Handlers : HandlerReturns(h)

Spec == Init /\ [][Next]_vars
-----------------------------------------------------------------------------
(* Properties.                                                             *)

(* The variables have their types.                                         *)
TypeOK ==
    /\ ctxTokens \in [Chats -> Elements \cup {Nil}]
    /\ order \in Seq(Elements) /\ Len(order) <= MaxContextTokens
    /\ value \in [Elements -> [userID : Chats \cup {Nil}, token : Tokens \cup {NoToken}]]
    /\ handler \in [Handlers -> [chat : Chats \cup {Nil}, token : Tokens \cup {NoToken},
                                 sent : Tokens \cup {NoToken}]]
    /\ recency \in Seq(Chats)
    /\ latest \in [Chats -> Tokens \cup {NoToken}]

(* The map and the list never disagree, however sets, hits, evictions and  *)
(* removals follow one another: the map leads every chat to the one list   *)
(* element that names it, and every element in the list is reached so.     *)
MapMatchesList ==
    /\ \A i, j \in DOMAIN order : order[i] = order[j] => i = j
    /\ \A c \in Chats : ctxTokens[c] # Nil =>
            ctxTokens[c] \in ToSet(order) /\ value[ctxTokens[c]].userID = c
    /\ \A e \in ToSet(order) :
            value[e].userID \in Chats /\ ctxTokens[value[e].userID] = e

(* Least recently used, stated without the cache: a chat among the last    *)
(* MaxContextTokens chats that were set or found is never evicted, and the *)
(* cache has the token it was last given (src/client.go:119).              *)
RecentlyUsedKept ==
    \A i \in DOMAIN recency :
        i <= MaxContextTokens => Cached(recency[i]) = latest[recency[i]]

(* No token outlives its replacement or removal: what the cache returns    *)
(* is always the last token that was set for the chat.                     *)
NeverStale ==
    \A c \in Chats : Cached(c) \in {NoToken, latest[c]}

(* A reply through the handler's context carries the token of the very     *)
(* message being answered, even if other conversations evict it, or the    *)
(* application removes or replaces it, before the handler sends            *)
(* (src/client.go:174-175).                                                *)
ReplyKeepsItsToken ==
    \A h \in Handlers :
        handler[h].token # NoToken => handler[h].sent \in {NoToken, handler[h].token}
=============================================================================
