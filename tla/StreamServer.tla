---------------------------- MODULE StreamServer ----------------------------
(***************************************************************************)
(* The streaming server (pkg/streaming/server.go) and its request cache    *)
(* (request_cache.go).  Exec, Attach and PortForward of the CRI leave the  *)
(* request in the cache and answer with a URL that carries a random token; *)
(* the client then opens the URL and the request is taken out of the cache *)
(* again.  Requests expire, the cache is bounded, tokens are random and    *)
(* come back, and a client may open a URL twice, late, or with the token   *)
(* of another endpoint.                                                    *)
(***************************************************************************)
EXTENDS Naturals, Sequences

CONSTANTS
    Tokens,            \* the random tokens
    maxInFlight,       \* capacity of the cache
    cacheTTL,          \* life time of an entry
    MaxRequests,       \* bound on requests made
    MaxStreamTime      \* bound on the clock

VARIABLES
    ll,            \* requestCache.ll, newest entry first
    tokens,        \* requestCache.tokens: token -> request, 0 if there is none
    streamNow,     \* the clock of the cache
    made           \* history: for each request, its endpoint, expiry and fate

streamVars == <<ll, tokens, streamNow, made>>

Endpoints == {"exec", "attach", "portforward"}
Fates == {"cached", "served", "refused", "dropped"}

StreamTypeOK ==
    /\ \A i \in DOMAIN ll : ll[i].token \in Tokens /\ ll[i].req \in 1..Len(made)
    /\ tokens \in [Tokens -> 0..MaxRequests]
    /\ streamNow \in 0..MaxStreamTime
    /\ \A r \in DOMAIN made :
          made[r].endpoint \in Endpoints /\ made[r].fate \in Fates
    /\ Len(ll) <= maxInFlight

StreamInit ==
    /\ ll = <<>> /\ tokens = [t \in Tokens |-> 0]
    /\ streamNow = 0 /\ made = <<>>

----------------------------------------------------------------------------
(* requestCache *)

Expired(r) == streamNow > made[r].expireTime

(* gc walks from the oldest entry, stops at the first that is still alive and keeps n. *)
gc(n) ==
    /\ \A i \in n + 1 .. Len(ll) : Expired(ll[i].req)
    /\ n > 0 => ~Expired(ll[n].req)

gcTokens(kept) ==
    [t \in Tokens |-> IF \E i \in DOMAIN kept : kept[i].token = t THEN tokens[t] ELSE 0]

(* Insert collects the expired entries, refuses when the cache is full and draws
   a token that is not in use; drawing gives up after ten tries. *)
Insert(endpoint) ==
    \E n \in 0 .. Len(ll) :
        LET kept == SubSeq(ll, 1, n)
            Made(fate) == made' = Append(made, [endpoint |-> endpoint, fate |-> fate,
                                                expireTime |-> streamNow + cacheTTL])
        IN  /\ gc(n)
            /\ \/ /\ n = maxInFlight \/ (n < maxInFlight /\ n > 0)
                  /\ ll' = kept /\ tokens' = gcTokens(kept) /\ Made("refused")
               \/ \E t \in Tokens :
                    /\ n < maxInFlight /\ gcTokens(kept)[t] = 0
                    /\ ll' = <<[token |-> t, req |-> Len(made) + 1]>> \o kept
                    /\ tokens' = [gcTokens(kept) EXCEPT ![t] = Len(made) + 1]
                    /\ Made("cached")

(* A bug: the request stays in the list, the token is gone. *)
ConsumeKeepsElement(token, endpoint) ==
    LET r == tokens[token]
    IN  /\ r # 0
        /\ tokens' = [tokens EXCEPT ![token] = 0]
        /\ made' = [made EXCEPT ![r].fate = IF Expired(r) \/ made[r].endpoint # endpoint
                                            THEN "dropped" ELSE "served"]
        /\ UNCHANGED ll

(* Consume removes the entry in any case.  The request is served if it has not
   expired and was made for the endpoint; a token of another endpoint is spent. *)
Consume(token, endpoint) ==
    LET r == tokens[token]
    IN  /\ r # 0
        /\ \E i \in DOMAIN ll : ll[i].req = r /\ ll' = SubSeq(ll, 1, i - 1) \o SubSeq(ll, i + 1, Len(ll))
        /\ tokens' = [tokens EXCEPT ![token] = 0]
        /\ made' = [made EXCEPT ![r].fate = IF Expired(r) \/ made[r].endpoint # endpoint
                                            THEN "dropped" ELSE "served"]

----------------------------------------------------------------------------
(* server *)

(* GetExec, GetAttach, GetPortForward; a request that is not valid changes
   nothing. *)
GetURL(endpoint) ==
    /\ Len(made) < MaxRequests
    /\ Insert(endpoint)
    /\ UNCHANGED streamNow

(* serveExec, serveAttach, servePortForward up to the protocol; a token the
   cache does not know is answered with "not found" and changes nothing. *)
ServeURL(token, endpoint) ==
    /\ Consume(token, endpoint)
    /\ UNCHANGED streamNow

StreamTick ==
    /\ streamNow < MaxStreamTime /\ streamNow' = streamNow + 1
    /\ UNCHANGED <<ll, tokens, made>>

StreamNext ==
    \/ StreamTick
    \/ \E e \in Endpoints : GetURL(e) \/ \E t \in Tokens : ServeURL(t, e)

StreamSpec == StreamInit /\ [][StreamNext]_streamVars

----------------------------------------------------------------------------

(* A request that was answered with a URL can be fetched until it expires: while
   it is neither served nor spent nor expired, it is in the list, and its token
   leads to it and to no other.  What is in the cache has not been handed out
   before, so every request is served at most once.  No entry is lost to the
   collection of another, to a full cache or to a token that is drawn again. *)
RequestsKept ==
    /\ StreamTypeOK
    /\ \A r \in DOMAIN made :
          made[r].fate = "cached" /\ ~Expired(r) =>
             \E i \in DOMAIN ll : ll[i].req = r /\ tokens[ll[i].token] = r
    /\ \A i \in DOMAIN ll :
          /\ made[ll[i].req].fate = "cached"
          /\ \A j \in DOMAIN ll : i < j => ll[i].token # ll[j].token
============================================================================
