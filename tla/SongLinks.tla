------------------------------ MODULE SongLinks ------------------------------
(***************************************************************************)
(* What becomes of one request for song data: the handlers (song.rs,       *)
(* search.rs, playlist.rs, album.rs, download_meta.rs, and those of the    *)
(* pages under ui/), the services with the quality ladder                  *)
(* (song_service.rs, download_service.rs, quality.rs), the calls of the    *)
(* NetEase API (api.rs), one HTTP exchange with its retries (client.rs,    *)
(* executor.rs) and the names an error has on the way up (http/error.rs,   *)
(* api_error.rs, kernel/error.rs).  The service asked may answer anything  *)
(* at any attempt.  Contents of songs are left out.                        *)
(***************************************************************************)
EXTENDS Integers, SequencesExt

CONSTANTS
  MaxAttempts,  \* RetryPolicy::max_attempts for the Parse profile
  Chunks        \* requests for a playlist's songs, 100 of them each

ASSUME AttemptsAssumption == MaxAttempts \in Nat \ {0} /\ Chunks \in Nat

VARIABLES
  request,  \* kind, quality, fallback.enabled and floor, and whether the id
            \* extract_music_id finds is a number; fixed
  reply,    \* "none", "ok" or the error the caller gets
  leg,      \* per API call: "off", "asking" or what it returned
  tries,    \* per API call: attempts made that are retried
  rungs,    \* the qualities still to ask for, the one being asked first
  chunks,   \* playlist chunks still to ask for
  last,     \* history: the last answer to each call that decides the reply
  heard     \* history: the last answer for each quality

linkVars == <<request, reply, leg, tries, rungs, chunks, last, heard>>

Legs == {"url", "detail", "lyric", "list", "chunk"}
Songs == {"url", "name", "lyric", "json"}
Pages == {"songPage", "playlistPage", "albumPage"}
Kinds == Songs \cup Pages \cup {"info", "meta", "refresh", "search", "album", "playlist"}
Details == {"json", "songPage"}            \* handle_json
Playlists == {"playlist", "playlistPage"}  \* get_playlist

-----------------------------------------------------------------------------
(* Quality::ladder.  One premium quality stands for the four that have no  *)
(* place in the order.                                                     *)

Order == <<"hires", "lossless", "exhigh", "standard">>
Qualities == ToSet(Order) \cup {"premium"}
Requests ==
  [kind : Kinds, quality : Qualities, fallback : BOOLEAN, floor : Qualities, numeric : BOOLEAN]
Rank(q) == CHOOSE i \in DOMAIN Order : Order[i] = q

Ladder(start, floor) ==
  IF {start, floor} \subseteq ToSet(Order) /\ Rank(start) <= Rank(floor)
  THEN SubSeq(Order, Rank(start), Rank(floor))
  ELSE <<start>>

(* resolve_url_with_fallback asks for these; handle_url, handle_json and   *)
(* the refresher, which pins the quality of its `.part`, for one only.     *)
Rungs(r) ==
  IF r.kind = "info" /\ r.fallback THEN Ladder(r.quality, r.floor) ELSE <<r.quality>>

-----------------------------------------------------------------------------
(* One exchange.  "lost" is a network failure, a timeout, a 5xx, a 3xx or  *)
(* a body that is not UTF-8; "throttled" (429), "expelled" (401) and       *)
(* "rejected" (4xx) are error statuses; "risk" and "login" carry a code in *)
(* what from_response or from_response_body_200 peeks at; the others are   *)
(* bodies of a 200.  A code is "Unseen" when it is beyond the first 200    *)
(* bytes, or byte 200 is inside a character and from_utf8 gives up the     *)
(* whole peek.  "hollow" has no /data/0, "blank" an empty url or no song.  *)
Answers ==
  {"lost", "lostUnseen", "throttled", "expelled", "rejected", "rejectedUnseen", "risk",
   "riskUnseen", "login", "loginUnseen", "code", "garbled", "hollow", "blank", "good"}

(* from_response and from_response_body_200: the status decides when the   *)
(* code is not seen.                                                       *)
FailureKind(a) ==
  CASE a \in {"lost", "lostUnseen"} -> "Transient"
    [] a \in {"throttled", "risk"} -> "Quota"
    [] a \in {"expelled", "login"} -> "AuthExpired"
    [] a \in {"rejected", "rejectedUnseen"} -> "Permanent4xx"
    [] OTHER -> "none"

Retryable(k) == k \in {"Transient", "Quota"}

(* with_retry has returned: the names request_with_retry gives.            *)
Transported(a) ==
  CASE FailureKind(a) = "AuthExpired" -> "AuthExpired"
    [] FailureKind(a) = "Quota" -> "RateLimited"
    [] FailureKind(a) = "none" -> "text"
    [] OTHER -> "Api"

(* Mutant: a code in the body is an unspecific error.                      *)
Unclassified(a) == IF a \in {"riskUnseen", "loginUnseen", "code"} THEN "Api" ELSE "ok"

(* classify_netease_code and its conversion to AppError.                   *)
Classified(a) ==
  CASE a = "riskUnseen" -> "RateLimited"
    [] a = "loginUnseen" -> "AuthExpired"
    [] a = "code" -> "Api"
    [] OTHER -> "ok"

(* post_form: the error message slices the text at byte 200, which panics  *)
(* inside a character; get_json and post_eapi do not quote the text.       *)
FormText(a) ==
  IF Transported(a) # "text" THEN {Transported(a)}
  ELSE IF a = "garbled" THEN {"Api", "Panic"} ELSE {"text"}

PlainText(a) ==
  IF Transported(a) # "text" THEN {Transported(a)}
  ELSE IF a = "garbled" THEN {"Api"} ELSE {"text"}

-----------------------------------------------------------------------------
(* The calls of the API.  Each yields the set of results answer a may have.*)

Parsed(texts, a) == {IF t = "text" THEN Classified(a) ELSE t : t \in texts}

GetSongUrl(a) ==
  {IF t # "ok" THEN t
   ELSE IF a = "hollow" THEN "Api" ELSE IF a = "blank" THEN "UrlUnavailable" ELSE "ok"
   : t \in Parsed(PlainText(a), a)}

(* SongDetail may hold no song.                                            *)
GetSongDetail(a) ==
  {IF t = "ok" /\ a \in {"hollow", "blank"} THEN "NoSong" ELSE t : t \in Parsed(FormText(a), a)}

GetLyric(a) == Parsed(FormText(a), a)
Search(a) == Parsed(FormText(a), a)
GetAlbum(a) == Parsed(PlainText(a), a)
GetPlaylist(a) == Parsed(FormText(a), a)

(* The songs of a playlist: the code of this answer is not looked at.      *)
PlaylistChunk(a) == {IF t = "text" THEN "ok" ELSE t : t \in FormText(a)}

Results(l, a) ==
  CASE l = "url" -> GetSongUrl(a)
    [] l = "detail" -> GetSongDetail(a)
    [] l = "lyric" -> GetLyric(a)
    [] l = "chunk" -> PlaylistChunk(a)
    [] l = "list" /\ request.kind = "search" -> Search(a)
    [] l = "list" /\ request.kind \in {"album", "albumPage"} -> GetAlbum(a)
    [] OTHER -> GetPlaylist(a)

-----------------------------------------------------------------------------
(* The services: which calls, in which order, and what their results make. *)

Open(ls) == leg' = [l \in Legs |-> IF l \in ls THEN "asking" ELSE leg[l]]

(* join! in get_music_info; all other services ask one thing at a time.    *)
Opening(k) ==
  CASE k = "info" -> {"url", "detail", "lyric"}
    [] k \in {"url", "meta", "refresh"} -> {"url"}
    [] k \in {"name"} \cup Details -> {"detail"}
    [] k = "lyric" -> {"lyric"}
    [] OTHER -> {"list"}

(* handle_json goes on whatever the url and the lyric return.              *)
Following(l, result) ==
  CASE request.kind \in Details /\ l = "detail" /\ result \in {"ok", "NoSong"} -> {"url"}
    [] request.kind \in Details /\ l = "url" -> {"lyric"}
    [] request.kind \in Playlists /\ result = "ok" /\ chunks > 0 -> {"chunk"}
    [] OTHER -> {}

(* get_music_info: the url's error first, the lyric's never.               *)
InfoReply ==
  IF leg["url"] # "ok" THEN leg["url"]
  ELSE IF leg["detail"] = "NoSong" THEN "Download" ELSE leg["detail"]

JsonReply == IF leg["detail"] = "NoSong" THEN "NotFound" ELSE leg["detail"]

(* handle_name, handle_url, handle_lyric, search, get_album, get_playlist. *)
PlainReply ==
  LET failed == {l \in Legs : leg[l] \notin {"off", "ok", "NoSong"}}
  IN IF failed = {} THEN "ok" ELSE leg[CHOOSE l \in failed : TRUE]

-----------------------------------------------------------------------------
(* Actions.                                                                *)

(* The handlers answer a bad parameter, or 30 seconds without a permit.    *)
Refuse ==
  /\ reply = "none" /\ \A l \in Legs : leg[l] = "off"
  /\ reply' \in {"BadRequest", "ServiceBusy"}
  /\ UNCHANGED <<request, leg, tries, rungs, chunks, last, heard>>

(* No id, an unknown quality or type; no keyword; the link of a page of    *)
(* another kind.                                                           *)
TurnAwaySong == request.kind \in Songs /\ Refuse
TurnAwaySearch == request.kind = "search" /\ Refuse
TurnAwayPlaylist == request.kind = "playlist" /\ Refuse
TurnAwayAlbum == request.kind = "album" /\ Refuse
TurnAwayMeta == request.kind = "meta" /\ Refuse
TurnAwayPage == request.kind \in Pages /\ Refuse
TurnAway ==
  TurnAwaySong \/ TurnAwaySearch \/ TurnAwayPlaylist \/ TurnAwayAlbum \/ TurnAwayMeta
    \/ TurnAwayPage

Begin ==
  /\ reply = "none" /\ \A l \in Legs : leg[l] = "off"
  /\ Open(Opening(request.kind))
  /\ rungs' = Rungs(request)
  /\ UNCHANGED <<request, reply, tries, chunks, last, heard>>

Sent(l) == reply = "none" /\ leg[l] = "asking" /\ (request.numeric \/ l \notin {"url", "detail"})

(* The id is not a number: an error before anything is sent.               *)
InvalidId(l) ==
  /\ reply = "none" /\ leg[l] = "asking" /\ ~Sent(l)
  /\ leg' = [leg EXCEPT ![l] = "Validation"]
  /\ UNCHANGED <<request, reply, tries, rungs, chunks, last, heard>>

(* The calls whose failure the caller is told of.  get_music_info goes on  *)
(* without the lyric, handle_json without the link and the lyric (.ok()):  *)
(* what their answers warn of is dropped there.                            *)
Deciding ==
  CASE request.kind = "info" -> {"url", "detail"}
    [] request.kind \in Details -> {"detail"}
    [] OTHER -> Opening(request.kind)

Heard(l, a) ==
  /\ last' = IF l \in Deciding \cup {"chunk"} THEN [last EXCEPT ![l] = a] ELSE last
  /\ heard' = IF l = "url" THEN [heard EXCEPT ![Head(rungs)] = a] ELSE heard

(* with_retry: wait and ask again.                                         *)
Retry(l) ==
  /\ Sent(l) /\ tries[l] + 1 < MaxAttempts
  /\ \E a \in Answers : Retryable(FailureKind(a)) /\ Heard(l, a)
  /\ tries' = [tries EXCEPT ![l] = @ + 1]
  /\ UNCHANGED <<request, reply, leg, rungs, chunks>>

Final(l, a) == ~Retryable(FailureKind(a)) \/ tries[l] + 1 >= MaxAttempts

(* Mutant: any failure goes on to the next quality.                        *)
StepsDownAlways(l, result) == l = "url" /\ result # "ok" /\ Tail(rungs) # <<>>

StepsDown(l, result) == l = "url" /\ result = "UrlUnavailable" /\ Tail(rungs) # <<>>

StepDown ==
  /\ Sent("url")
  /\ \E a \in Answers :
       /\ Final("url", a) /\ Heard("url", a)
       /\ \E result \in GetSongUrl(a) : StepsDown("url", result)
  /\ rungs' = Tail(rungs)
  /\ tries' = [tries EXCEPT !["url"] = 0]
  /\ UNCHANGED <<request, reply, leg, chunks>>

(* A call returns.                                                         *)
Return(l) ==
  /\ Sent(l)
  /\ \E a \in Answers, result \in {"ok", "NoSong", "Api", "Panic", "RateLimited",
                                   "AuthExpired", "UrlUnavailable"} :
       /\ Final(l, a) /\ result \in Results(l, a) /\ ~StepsDown(l, result)
       /\ Heard(l, a)
       /\ LET next == Following(l, result) IN
          /\ leg' = [k \in Legs |-> IF k \in next THEN "asking"
                                    ELSE IF k = l THEN result ELSE leg[k]]
          /\ chunks' = IF next = {"chunk"} THEN chunks - 1 ELSE chunks
          /\ reply' = IF result = "Panic" THEN "Panic" ELSE reply
  /\ tries' = [tries EXCEPT ![l] = 0]
  /\ UNCHANGED <<request, rungs>>

(* A page's data must fit its view model, or the page says so.             *)
SongPage(r) == IF r = "ok" THEN {"ok", "Unrendered"} ELSE {r}
PlaylistPage(r) == SongPage(r)
AlbumPage(r) == SongPage(r)

Answer ==
  /\ reply = "none"
  /\ \E l \in Legs : leg[l] # "off"
  /\ \A l \in Legs : leg[l] # "asking"
  /\ reply' \in CASE request.kind = "info" -> {InfoReply}
                 [] request.kind = "json" -> {JsonReply}
                 [] request.kind = "songPage" -> SongPage(JsonReply)
                 [] request.kind = "playlistPage" -> PlaylistPage(PlainReply)
                 [] request.kind = "albumPage" -> AlbumPage(PlainReply)
                 [] OTHER -> {PlainReply}
  /\ UNCHANGED <<request, leg, tries, rungs, chunks, last, heard>>

LinkInit ==
  /\ request \in Requests
  /\ reply = "none" /\ leg = [l \in Legs |-> "off"] /\ tries = [l \in Legs |-> 0]
  /\ rungs = <<>> /\ chunks = Chunks
  /\ last = [l \in Legs |-> "none"] /\ heard = [q \in Qualities |-> "none"]

LinkNext ==
  \/ TurnAway \/ Begin \/ StepDown \/ Answer
  \/ \E l \in Legs : InvalidId(l) \/ Retry(l) \/ Return(l)

LinkSpec == LinkInit /\ [][LinkNext]_linkVars

-----------------------------------------------------------------------------
(* Properties.                                                             *)

LinkTypeOK ==
  /\ request \in Requests
  /\ reply \in {"none", "ok", "BadRequest", "ServiceBusy", "Validation", "Api", "Panic", "NotFound",
                "RateLimited", "AuthExpired", "UrlUnavailable", "Download", "Unrendered"}
  /\ leg \in [Legs -> {"off", "asking", "ok", "NoSong", "Validation", "Api", "Panic",
                       "RateLimited", "AuthExpired", "UrlUnavailable"}]
  /\ tries \in [Legs -> 0..(MaxAttempts - 1)]
  /\ rungs \in Seq(Qualities) /\ chunks \in 0..Chunks
  /\ last \in [Legs -> Answers \cup {"none"}] /\ heard \in [Qualities -> Answers \cup {"none"}]

(* The quality asked for, or one that may replace it: neither above it nor *)
(* below the floor, and never for or by premium content.                   *)
Acceptable(q) ==
  \/ q = request.quality
  \/ /\ request.kind = "info" /\ request.fallback
     /\ {q, request.quality, request.floor} \subseteq ToSet(Order)
     /\ Rank(request.quality) < Rank(q) /\ Rank(q) <= Rank(request.floor)

Better(p, q) == Acceptable(p) /\ (p = request.quality \/ Rank(p) < Rank(q)) /\ p # q

(* The song comes in the best acceptable quality there is: a lower one is  *)
(* asked for only when every better one exists without a link, an error of *)
(* another kind ends the search, and "unavailable" means all of them were  *)
(* tried (song_service.rs:36-82, quality.rs:79-103).                       *)
BestAvailable ==
  /\ \A q \in Qualities : heard[q] # "none" =>
       /\ Acceptable(q)
       /\ \A p \in Qualities : Better(p, q) => heard[p] = "blank"
  /\ leg["url"] = "ok" => \E q \in Qualities : heard[q] = "good"
  /\ leg["url"] = "UrlUnavailable" =>
       \A q \in Qualities : Acceptable(q) => heard[q] = "blank"

(* A sign of risk control or of an expired login: where the client reads   *)
(* it, and in an error status beyond the peek, where it does not.          *)
Warning == {"throttled", "expelled", "risk", "riskUnseen", "login", "loginUnseen"}
Unread == {"lostUnseen", "rejectedUnseen"}

(* No warning to a call that decides the reply is answered "ok", read or   *)
(* not, and one the client reads is not drowned in an unspecific error     *)
(* (client.rs:89-119, api.rs:89-100,130-143).  The link and the lyric of   *)
(* handle_json (song_service.rs:126-127), the lyric of get_music_info and  *)
(* the songs of a playlist, whose code is not looked at, decide nothing.   *)
RiskCodesKept ==
  /\ reply \in {"ok", "Unrendered"} => \A l \in Deciding : last[l] \notin Warning \cup Unread
  /\ reply \in {"Api", "UrlUnavailable", "Download", "NotFound"} =>
       \E l \in Deciding \cup {"chunk"} :
         leg[l] \notin {"off", "ok"} /\ last[l] \notin Warning
=============================================================================
