---------------------------- MODULE PresignCache ----------------------------
(***************************************************************************)
(* The direct-S3 data plane of an mlfs node in remote mode: a node holds   *)
(* no credentials, it asks blobgw for presigned URLs (remotepresign.go,    *)
(* controlplane/presign.go) and transfers against S3 (s3http.go).  GET     *)
(* URLs are cached per object until shortly before they expire             *)
(* (remoteblob.go); one object is followed here.  blobgw signs with the    *)
(* tenant binding of the Tenants module, whose session may end before it.  *)
(***************************************************************************)
EXTENDS Tenants

CONSTANTS
    PresignTTL,      \* the validity a node asks for
    PresignMaxTTL,   \* the validity blobgw grants at most
    RefreshMargin,   \* presignRefreshMargin
    NodeLag,         \* how far the node's clock is behind blobgw's
    PcCaller,        \* goroutines of the node that read or write the object
    MaxAttempts,     \* attempts of a GET (maxRetries + 1)
    MaxUrls, MaxPcFaults, MaxPcCalls   \* bounds

\* effectiveTTL: zero asks for the cap.
EffectiveTTL == IF PresignTTL = 0 THEN PresignMaxTTL ELSE Earlier(PresignTTL, PresignMaxTTL)

\* The defaults are 15m, 15m and 60s against sessions of an hour renewed every
\* 15m.  The signing code does not look at the end of the session, so a larger
\* -presign-max-ttl makes URLs that die before the expiry they report.
ASSUME PresignAssumption ==
    /\ {PresignTTL, PresignMaxTTL, RefreshMargin, NodeLag, MaxAttempts, MaxUrls, MaxPcFaults, MaxPcCalls} \subseteq Nat
    /\ Session >= ProviderTTL + EffectiveTTL
    /\ EffectiveTTL >= RefreshMargin /\ RefreshMargin >= NodeLag

VARIABLES
    cached,   \* getURLs: [url, refreshAt], url 0 when there is none
    flight,   \* the singleflight call: [pc, url]
    xfer,     \* a GetBlob or PutBlob: [pc, op, url, tries] and history
    signed,   \* the URLs blobgw made: [exp, at], signed expiry and session start
    pcFaults, pcCalls,
    failed    \* history: URLs a failed GET has dropped from the cache

nodeVars == <<cached, flight, xfer, signed, pcFaults, pcCalls, failed>>
pcVars == <<nodeVars, tnVars>>

NoCached == [url |-> 0, refreshAt |-> 0]
NoFlight == [pc |-> "none", url |-> 0]
\* since: when the URL was handed out.  known: what had failed when the call
\* began.  joined: it waits for a flight that was open before.
NoCall == [pc |-> "idle", op |-> "get", url |-> 0, tries |-> 0, since |-> 0, known |-> {}, joined |-> FALSE]

PcTypeOK ==
    /\ cached.url \in 0 .. Len(signed) /\ flight.url \in 0 .. Len(signed)
    /\ flight.pc \in {"none", "check", "ask", "done"}
    /\ \A c \in PcCaller : xfer[c].pc \in {"idle", "wait", "sign", "send"} /\ xfer[c].url \in 0 .. Len(signed)
    /\ failed \subseteq 1 .. Len(signed)

PcInit ==
    /\ cached = NoCached /\ flight = NoFlight /\ xfer = [c \in PcCaller |-> NoCall]
    /\ signed = <<>> /\ pcFaults = 0 /\ pcCalls = 0 /\ failed = {}

----------------------------------------------------------------------------
\* S3 refuses a URL past its own expiry or past that of the session it was
\* signed with.
Dies(u) == Earlier(signed[u].exp, signed[u].at + Session)

\* now.Before(e.refreshAt), by the node's clock.
Served == cached.url # 0 /\ clk < cached.refreshAt + NodeLag

\* handlePresign: the binding of the subject's tenant, one URL, its expiry.
HandlePresign ==
    /\ Len(signed) < MaxUrls
    /\ Presign
    /\ signed' = Append(signed, [exp |-> clk + EffectiveTTL, at |-> Binding.at])

\* No reply in five seconds, a server error, or a reply without the key.
PresignFails == pcFaults < MaxPcFaults /\ pcFaults' = pcFaults + 1

HandOut(r, u) == [r EXCEPT !.pc = "send", !.url = u, !.since = clk]

\* GetBlob, cachedGetURL: a cached URL is used at once, otherwise the caller
\* starts a flight or joins the open one.
RemoteGetBlob(c) ==
    /\ xfer[c].pc = "idle" /\ pcCalls < MaxPcCalls /\ pcCalls' = pcCalls + 1
    /\ LET began == [NoCall EXCEPT !.known = failed]
       IN IF Served
          THEN xfer' = [xfer EXCEPT ![c] = HandOut(began, cached.url)] /\ UNCHANGED flight
          ELSE /\ xfer' = [xfer EXCEPT ![c] = [began EXCEPT !.pc = "wait", !.joined = flight.pc # "none"]]
               /\ flight' = IF flight.pc = "none" THEN [flight EXCEPT !.pc = "check"] ELSE flight
    /\ UNCHANGED <<cached, signed, pcFaults, failed, tnVars>>

\* The flight looks at the cache again before it asks.
FlightChecks ==
    /\ flight.pc = "check"
    /\ flight' = IF Served THEN [pc |-> "done", url |-> cached.url] ELSE [flight EXCEPT !.pc = "ask"]
    /\ UNCHANGED <<cached, xfer, signed, pcFaults, pcCalls, failed, tnVars>>

\* The answer is cached until RefreshMargin before the expiry it reports.
RefreshAt_Expiry(exp) == exp
RefreshAt(exp) == exp - RefreshMargin
FlightAsks ==
    /\ flight.pc = "ask"
    /\ \/ /\ HandlePresign
          /\ cached' = [url |-> Len(signed'), refreshAt |-> RefreshAt(signed'[Len(signed')].exp)]
          /\ flight' = [pc |-> "done", url |-> Len(signed')]
          /\ UNCHANGED pcFaults
       \/ PresignFails /\ flight' = [pc |-> "done", url |-> 0] /\ UNCHANGED <<cached, signed, tnVars>>
    /\ UNCHANGED <<xfer, pcCalls, failed>>

\* Everyone who waits gets the flight's URL or its error.
FlightReturns ==
    /\ flight.pc = "done" /\ flight' = NoFlight
    /\ xfer' = [c \in PcCaller |->
                  IF xfer[c].pc # "wait" THEN xfer[c]
                  ELSE IF flight.url = 0 THEN NoCall ELSE HandOut(xfer[c], flight.url)]
    /\ UNCHANGED <<cached, signed, pcFaults, pcCalls, failed, tnVars>>

\* invalidateGetURL: what is cached goes, whichever URL failed.
InvalidateGetURL(u) == cached' = NoCached /\ failed' = failed \cup {u}

Fails(c) ==
    /\ xfer' = [xfer EXCEPT ![c] = NoCall]
    /\ IF xfer[c].op = "get" THEN InvalidateGetURL(xfer[c].url) ELSE UNCHANGED <<cached, failed>>

\* One attempt of the transfer.  A refusal ends it, a network or server error
\* is retried for a GET.
Transfer(c) ==
    /\ xfer[c].pc = "send"
    /\ \/ /\ clk < Dies(xfer[c].url) /\ xfer' = [xfer EXCEPT ![c] = NoCall]
          /\ UNCHANGED <<cached, failed, pcFaults>>
       \/ clk >= Dies(xfer[c].url) /\ Fails(c) /\ UNCHANGED pcFaults
       \/ /\ pcFaults < MaxPcFaults /\ pcFaults' = pcFaults + 1
          /\ IF xfer[c].op = "get" /\ xfer[c].tries + 1 < MaxAttempts
             THEN xfer' = [xfer EXCEPT ![c].tries = @ + 1] /\ UNCHANGED <<cached, failed>>
             ELSE Fails(c)
    /\ UNCHANGED <<flight, signed, pcCalls, tnVars>>

\* PutBlob: a URL of its own, never cached, then one attempt.
RemotePutBlob(c) ==
    /\ xfer[c].pc = "idle" /\ pcCalls < MaxPcCalls /\ pcCalls' = pcCalls + 1
    /\ xfer' = [xfer EXCEPT ![c] = [NoCall EXCEPT !.pc = "sign", !.op = "put"]]
    /\ UNCHANGED <<cached, flight, signed, pcFaults, failed, tnVars>>

PutSigned(c) ==
    /\ xfer[c].pc = "sign"
    /\ \/ /\ HandlePresign /\ UNCHANGED pcFaults
          /\ xfer' = [xfer EXCEPT ![c] = HandOut(@, Len(signed'))]
       \/ PresignFails /\ xfer' = [xfer EXCEPT ![c] = NoCall] /\ UNCHANGED <<signed, tnVars>>
    /\ UNCHANGED <<cached, flight, pcCalls, failed>>

\* Another node's request renews the binding.
OtherPresign == Presign /\ UNCHANGED nodeVars

\* An exchange with blobgw is over in seconds, a tick stands for minutes.
PcTick == flight.pc # "done" /\ TnTick /\ UNCHANGED nodeVars

PcNext ==
    \/ \E c \in PcCaller : RemoteGetBlob(c) \/ Transfer(c) \/ RemotePutBlob(c) \/ PutSigned(c)
    \/ FlightChecks \/ FlightAsks \/ FlightReturns \/ OtherPresign \/ PcTick

PcSpec == PcInit /\ TnInit /\ [][PcNext]_pcVars

----------------------------------------------------------------------------
\* "A URL is never handed out with too little life left to finish an in-flight
\* transfer": what cachedGetURL gives works for the refresh margin, less the
\* lag of the node's clock, though the session it is signed with was begun
\* earlier and a caller may have waited for another caller's flight.
LifeLeft ==
    \A c \in PcCaller :
        xfer[c].pc = "send" => Dies(xfer[c].url) + NodeLag >= xfer[c].since + RefreshMargin

\* A URL that failed is not served again: a read that began later, and did not
\* join a flight already open, gets another one (invalidateGetURL).
DeadNotServed ==
    \A c \in PcCaller : xfer[c].pc = "send" /\ ~xfer[c].joined => xfer[c].url \notin xfer[c].known

\* "The next read re-presigns rather than reusing a dead URL".  Refuted (no run
\* checks it): the next read may join a flight that took the URL from the cache
\* before it was dropped.
NextReadFresh == \A c \in PcCaller : xfer[c].pc = "send" => xfer[c].url \notin xfer[c].known

\* The presigned URLs of a node: each has life left when handed out, and none
\* that failed is handed out again (cachedGetURL, invalidateGetURL).
PresignSound == PcTypeOK /\ LifeLeft /\ DeadNotServed

=============================================================================
