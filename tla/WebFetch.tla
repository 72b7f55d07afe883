-------------------------------- MODULE WebFetch --------------------------------
(***************************************************************************)
(* web_fetch: one call is prepared for one origin, follows redirects inside *)
(* it, dials only addresses that were vetted, reads a bounded body, decides *)
(* its encoding and hands out one window of the text. The agent reads a     *)
(* page by following the next_index of every result; each call fetches the  *)
(* page anew. A page is a sequence of bytes: one-byte characters, the lead  *)
(* and the trail of a two-byte UTF-8 character, a byte UTF-8 does not have, *)
(* newline, a markup tag, a charset declaration, a byte order mark.         *)
(***************************************************************************)
EXTENDS Naturals, Sequences, SequencesExt, FiniteSets

CONSTANTS
    Pages,        \* pages a server may hold
    Headers,      \* Content-Type headers: [media, charset], each maybe "none"
    Hosts,        \* host -> the sets of addresses a lookup may answer
    Literals,     \* hosts that are written as an address
    MaxLengths,   \* values of max_length tried
    MaxBody,      \* MAX_BODY_BYTES
    Prescan,      \* META_PRESCAN_BYTES
    MaxRedirects  \* MAX_SAME_ORIGIN_REDIRECTS

\* An IPv4 address carries no other one.
ASSUME AddressShapes ==
    \A h \in DOMAIN Hosts : \A a \in UNION Hosts[h] : a.form = "v4" => a.carries = "none"

VARIABLES
    page,       \* the page the server holds, with its header
    fetch,      \* the call in progress
    read,       \* the body as far as it was read
    dialled,    \* history: the connections the call made
    learned,    \* history: text received, and where the page goes on
    reply       \* the result of the last call

webVars == <<page, fetch, read, dialled, learned, reply>>

-----------------------------------------------------------------------------
(* Addresses: [form, class, carries]. A v4 address has a class of its own;  *)
(* a v6 address may carry a v4 one, and ::1 is the carrier of 0.0.0.1.      *)

Internal == {"private", "metadata", "thisnetwork", "linklocal"}
BlockedV4(class) == class \in Internal
BlockedV6(class) == class \in Internal
EmbeddedV4(a) == a.carries
BlockedByForm(a) == IF a.form = "v4" THEN BlockedV4(a.class) ELSE BlockedV6(a.class)
IsBlocked(a) ==
    IF a.form = "v4" THEN BlockedV4(a.class)
    ELSE /\ a.class # "loopback"
         /\ IF EmbeddedV4(a) # "none" THEN BlockedV4(EmbeddedV4(a)) ELSE BlockedV6(a.class)

\* One blocked answer fails the whole lookup.
Vetted(answers) == IF \E a \in answers : IsBlocked(a) THEN {} ELSE answers

-----------------------------------------------------------------------------
(* The text of a body.                                                      *)

\* A lead byte is followed by its trail, or the bytes end with it.
Utf8ButForTheEnd(b) ==
    \A i \in 1..Len(b) : /\ b[i] # "raw"
                         /\ b[i] = "lead" => i = Len(b) \/ b[i + 1] = "trail"
                         /\ b[i] = "trail" => i > 1 /\ b[i - 1] = "lead"
Utf8ToTheEnd(b) == Utf8ButForTheEnd(b) /\ (b # <<>> => Last(b) # "lead")
IsUtf8(b) == Utf8ButForTheEnd(b)

DeclaredInside(b) == \E i \in 1..Len(b) : i <= Prescan /\ b[i] = "meta"
Encoding(b, header) ==
    IF b # <<>> /\ b[1] = "bom" THEN "utf8"
    ELSE IF header.charset # "none" THEN header.charset
    ELSE IF DeclaredInside(b) THEN "legacy"
    ELSE IF IsUtf8(b) THEN "utf8" ELSE "legacy"

\* What a byte becomes; two-byte and three-byte characters of the text are
\* a lead and trails.
Replacement == <<"lead", "trail", "trail">>
DecodedByte(b, i, encoding) ==
    CASE b[i] \in {"a", "nl", "tag", "meta"} -> <<b[i]>>
      [] b[i] = "bom" -> IF i = 1 THEN <<>> ELSE Replacement
      [] b[i] \in {"lead", "trail", "raw"} ->
            IF encoding = "legacy" THEN <<"lead", "trail">>
            ELSE IF \/ b[i] = "lead" /\ i < Len(b) /\ b[i + 1] = "trail"
                    \/ b[i] = "trail" /\ i > 1 /\ b[i - 1] = "lead"
                 THEN <<b[i]>> ELSE Replacement
Decode(b, encoding) == FlattenSeq([i \in 1..Len(b) |-> DecodedByte(b, i, encoding)])

LooksLikeHtml(text) == \E i \in 1..Len(text) : text[i] = "tag"
IsHtml(header, text) == header.media = "html" \/ LooksLikeHtml(text)
HtmlToText(text) == SelectSeq(text, LAMBDA c : c \notin {"tag", "meta"})
PageText(b, header) ==
    LET text == Decode(b, Encoding(b, header))
    IN IF IsHtml(header, text) THEN HtmlToText(text) ELSE text

-----------------------------------------------------------------------------
(* paginate.                                                                *)

AtBoundary(text, i) == i = Len(text) \/ text[i + 1] # "trail"
FloorBoundary(text, i) ==
    LET within == IF i < Len(text) THEN i ELSE Len(text)
    IN CHOOSE j \in 0..within : AtBoundary(text, j) /\ \A l \in (j + 1)..within : ~AtBoundary(text, l)
FirstChar(text) == CHOOSE w \in 1..Len(text) : AtBoundary(text, w) /\ \A l \in 1..(w - 1) : ~AtBoundary(text, l)
RoomAsFloored(rest, max) == FloorBoundary(rest, max)
Room(rest, max) == IF FloorBoundary(rest, max) = 0 THEN FirstChar(rest) ELSE FloorBoundary(rest, max)
CutAt(rest, room) ==
    LET ends == {i \in 1..room : rest[i] = "nl"}
    IN IF ends = {} THEN room ELSE CHOOSE i \in ends : \A j \in ends : j <= i
Paginate(text, start, max) ==
    LET from == FloorBoundary(text, start)
        rest == SubSeq(text, from + 1, Len(text))
    IN IF Len(rest) <= max THEN [content |-> rest, start |-> from, next |-> 0]
       ELSE LET end == CutAt(rest, Room(rest, max))
            IN [content |-> SubSeq(rest, 1, end), start |-> from, next |-> from + end]

-----------------------------------------------------------------------------
(* A call.                                                                  *)

Idle == [phase |-> "idle", host |-> "none", start |-> 0, max |-> 0, previous |-> <<>>, status |-> "ok"]
NoReply == [kind |-> "none", ok |-> FALSE, truncated |-> FALSE, encoding |-> "none",
            content |-> <<>>, start |-> 0, next |-> 0, total |-> 0]
Failure(kind) == [NoReply EXCEPT !.kind = kind]
Ended(r) == fetch' = Idle /\ read' = <<>> /\ reply' = r

WebInit == /\ page \in [bytes : Pages, header : Headers]
           /\ fetch = Idle /\ read = <<>> /\ dialled = {}
           /\ learned = [text |-> <<>>, next |-> 0, done |-> FALSE, stuck |-> FALSE]
           /\ reply = NoReply

\* prepare_typed: max_length zero and a literal internal address are refused,
\* and max_length is capped, which MaxLengths stands for.
Prepare(host, max) ==
    /\ fetch.phase = "idle" /\ ~learned.done
    /\ dialled' = {}
    /\ UNCHANGED <<page, read, learned>>
    /\ LET literal == host \in Literals /\ \E a \in UNION Hosts[host] : IsBlocked(a)
       IN IF literal THEN reply' = Failure("blocked_address") /\ UNCHANGED fetch
          ELSE IF max = 0 THEN reply' = Failure("invalid_arguments") /\ UNCHANGED fetch
          ELSE /\ fetch' = [Idle EXCEPT !.phase = "dial", !.host = host, !.start = learned.next, !.max = max,
                                        !.previous = <<host>>]
               /\ reply' = NoReply

\* GuardedResolver, and the connection to one of the addresses it handed on.
\* A literal host needs no lookup.
Dial ==
    /\ fetch.phase = "dial"
    /\ \E answers \in Hosts[fetch.host] :
          LET usable == IF fetch.host \in Literals THEN answers ELSE Vetted(answers)
          IN IF usable = {} THEN Ended(Failure("fetch")) /\ UNCHANGED dialled
             ELSE \E a \in usable : /\ dialled' = dialled \cup {[host |-> fetch.host, to |-> a]}
                                    /\ fetch' = [fetch EXCEPT !.phase = "head"]
                                    /\ UNCHANGED <<read, reply>>
    /\ UNCHANGED <<page, learned>>

\* same_origin_redirects: the first URL is the one that was authorized.
AnyOrigin(target) == Len(fetch.previous) <= MaxRedirects
Follows(target) == Head(fetch.previous) = target /\ Len(fetch.previous) <= MaxRedirects

\* The response head. A redirect inside the budget is followed; otherwise the
\* response itself comes back, and redirect_refusal names its target. A 300
\* with a Location is never offered to the policy; a redirect without a
\* usable Location is read like any page.
Redirected(target) ==
    /\ fetch.phase = "head"
    /\ IF Follows(target)
       THEN /\ fetch' = [fetch EXCEPT !.phase = "dial", !.host = target, !.previous = Append(@, target)]
            /\ UNCHANGED <<read, reply>>
       ELSE Ended(Failure(IF target = Head(fetch.previous) THEN "too_many_redirects" ELSE "cross_origin_redirect"))
    /\ UNCHANGED <<page, dialled, learned>>
OfferChoices(target) ==
    /\ fetch.phase = "head"
    /\ Ended(Failure(IF target = Head(fetch.previous) THEN "too_many_redirects" ELSE "cross_origin_redirect"))
    /\ UNCHANGED <<page, dialled, learned>>
HeadArrives(status) ==
    /\ fetch.phase = "head"
    /\ fetch' = [fetch EXCEPT !.phase = "body", !.status = status]
    /\ UNCHANGED <<page, read, dialled, learned, reply>>

\* transport_failure: a deadline that passes, a connection that breaks.
Fails(kind) ==
    /\ fetch.phase # "idle"
    /\ Ended(Failure(kind))
    /\ UNCHANGED <<page, dialled, learned>>

\* The result of a body.
Answer(body, cut) ==
    LET encoding == Encoding(body, page.header)
        text == PageText(body, page.header)
        shown == Paginate(text, fetch.start, fetch.max)
    IN /\ Ended([kind |-> IF fetch.status = "ok" THEN "none" ELSE "http_status", ok |-> fetch.status = "ok",
                 truncated |-> cut, encoding |-> encoding, content |-> shown.content, start |-> shown.start,
                 next |-> shown.next, total |-> Len(text)])
       /\ learned' = [text |-> learned.text \o shown.content, next |-> shown.next, done |-> shown.next = 0,
                      stuck |-> shown.next # 0 /\ shown.next <= fetch.start]

\* read_body: a chunk that does not fit is cut, and nothing after it is read.
Fits(size) == size <= MaxBody
Chunk(n) ==
    /\ fetch.phase = "body" /\ Len(read) + n <= Len(page.bytes)
    /\ LET more == SubSeq(page.bytes, Len(read) + 1, Len(read) + n)
       IN IF Fits(Len(read) + n)
          THEN read' = read \o more /\ UNCHANGED <<fetch, reply, learned>>
          ELSE Answer(SubSeq(page.bytes, 1, MaxBody), TRUE)
    /\ UNCHANGED <<page, dialled>>
BodyEnds ==
    /\ fetch.phase = "body" /\ read = page.bytes
    /\ Answer(read, FALSE)
    /\ UNCHANGED <<page, dialled>>

WebNext ==
    \/ \E host \in DOMAIN Hosts, max \in MaxLengths : Prepare(host, max)
    \/ Dial
    \/ \E target \in DOMAIN Hosts : Redirected(target) \/ OfferChoices(target)
    \/ \E status \in {"ok", "error"} : HeadArrives(status)
    \/ \E kind \in {"timeout", "fetch"} : Fails(kind)
    \/ \E n \in 1..Len(page.bytes) : Chunk(n)
    \/ BodyEnds
WebSpec == WebInit /\ [][WebNext]_webVars

-----------------------------------------------------------------------------
(* Properties.                                                              *)

\* Where the packets of a connection end: at the address itself, or at the v4
\* address it carries. Loopback is a target like any other.
Reaches(a) == IF a.carries = "none" \/ a.class = "loopback" THEN a.class ELSE a.carries

\* A call connects only to the host it was authorized for, however the server
\* redirects and whatever the lookups answer, never to an address that leads
\* into the internal network, and never refuses one that does not.
ConnectsAsAuthorized ==
    /\ \A d \in dialled : Reaches(d.to) \notin Internal
    /\ \A d, e \in dialled : d.host = e.host
    /\ fetch.phase # "idle" => \A d \in dialled : d.host = Head(fetch.previous)
    /\ reply.kind = "blocked_address" => \E h \in Literals : \E a \in UNION Hosts[h] : Reaches(a) \in Internal

\* The windows of a page, read by following next_index with any mix of
\* max_length values, join up to the text of the page as far as the body cap
\* let it in, and every window gets further.
WindowsTileThePage ==
    LET seen == SubSeq(page.bytes, 1, IF Len(page.bytes) <= MaxBody THEN Len(page.bytes) ELSE MaxBody)
        whole == PageText(seen, page.header)
    IN /\ ~learned.stuck
       /\ IsPrefix(learned.text, whole)
       /\ learned.done => learned.text = whole
       /\ ~learned.done => Len(learned.text) = learned.next

\* A result is truncated exactly when the page is longer than the body cap,
\* and a page that is sound UTF-8 is read as UTF-8 though the cap cuts its
\* last character: the cap costs the end of a page and nothing before it.
CapCostsOnlyTheEnd ==
    reply.encoding # "none" =>
        /\ reply.truncated <=> Len(page.bytes) > MaxBody
        /\ Utf8ToTheEnd(page.bytes) /\ page.header.charset = "none" /\ ~DeclaredInside(page.bytes)
              => reply.encoding = "utf8"
=============================================================================
