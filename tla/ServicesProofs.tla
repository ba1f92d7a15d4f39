---------------------------- MODULE ServicesProofs ----------------------------
(***************************************************************************)
(* SongLinks: the best acceptable quality is served and no warning is      *)
(* lost, for any number of attempts and of chunks.  Then the services side *)
(* by side: each keeps its specification, so all of their theorems hold of *)
(* the specification the run of MCServices checks.                         *)
(***************************************************************************)
EXTENDS MCServices, StoresProofs, SequenceTheorems

(* Nothing has been asked yet.                                             *)
Unasked == \A l \in Legs : leg[l] = "off"

(* The calls a service makes; only a detail comes without its song.        *)
Calls(k) ==
  Opening(k) \cup (IF k \in Details THEN {"url", "lyric"} ELSE {})
             \cup (IF k \in Playlists THEN {"chunk"} ELSE {})
CallsInv ==
  /\ Unasked \/ \A l \in Opening(request.kind) : leg[l] # "off"
  /\ \A l \in Legs : leg[l] # "off" => l \in Calls(request.kind)
  /\ \A l \in Legs : leg[l] = "NoSong" => l = "detail"
  /\ \A l \in Legs : leg[l] = "UrlUnavailable" => l = "url"

(* The ladder is climbed down to its k-th rung: each one above it has been *)
(* asked for and has no link, none below has been asked for.               *)
Descended(k) ==
  LET full == Rungs(request) IN
  /\ rungs = SubSeq(full, k, Len(full))
  /\ \A i \in 1..(k - 1) : heard[full[i]] = "blank"
  /\ \A q \in Qualities : heard[q] # "none" => \E i \in 1..k : full[i] = q
  /\ leg["url"] = "ok" => heard[full[k]] = "good"
  /\ leg["url"] = "UrlUnavailable" => k = Len(full) /\ heard[full[k]] = "blank"

ClimbInv ==
  IF Unasked THEN \A q \in Qualities : heard[q] = "none"
  ELSE \E k \in DOMAIN Rungs(request) : Descended(k)

(* A call that decides the reply has let no warning pass for a result, nor *)
(* one the client reads for an error that does not name it.                *)
Quiet(l) == last[l] \notin Warning
Clear(l) == last[l] \notin Warning \cup Unread
WarningsKept ==
  /\ \A l \in Deciding : leg[l] \in {"ok", "NoSong"} => Clear(l)
  /\ \A l \in Deciding \cup {"chunk"} : leg[l] \in {"Api", "UrlUnavailable", "NoSong"} => Quiet(l)

LinkInv == LinkTypeOK /\ CallsInv /\ ClimbInv /\ WarningsKept /\ RiskCodesKept

(* The four qualities that have a place in the order.                      *)
LEMMA OrderFacts ==
  /\ ToSet(Order) = {"hires", "lossless", "exhigh", "standard"}
  /\ ToSet(Order) \subseteq Qualities
  /\ \A q \in ToSet(Order) : Rank(q) \in 1..4 /\ Order[Rank(q)] = q
  /\ \A i \in 1..4 : Order[i] \in ToSet(Order) /\ Rank(Order[i]) = i
<1>1. /\ DOMAIN Order = 1..4
      /\ Order[1] = "hires" /\ Order[2] = "lossless" /\ Order[3] = "exhigh" /\ Order[4] = "standard"
  BY DEF Order
<1>2. ToSet(Order) = {"hires", "lossless", "exhigh", "standard"}
  BY <1>1 DEF ToSet
<1>3. \A i \in 1..4 : Order[i] \in ToSet(Order) /\ \A j \in 1..4 : Order[i] = Order[j] => i = j
  BY <1>1, <1>2
<1>4. \A q \in ToSet(Order) : \E i \in DOMAIN Order : Order[i] = q
  BY DEF ToSet
<1>5. \A q \in ToSet(Order) : Rank(q) \in DOMAIN Order /\ Order[Rank(q)] = q
  BY <1>4 DEF Rank
<1>6. \A q \in ToSet(Order) : Rank(q) \in 1..4 /\ Order[Rank(q)] = q
  BY <1>1, <1>5
<1>7. \A i \in 1..4 : Rank(Order[i]) = i
  BY <1>3, <1>6
<1>8. ToSet(Order) \subseteq Qualities
  BY DEF Qualities
<1> QED
  BY <1>2, <1>3, <1>6, <1>7, <1>8, Zenon

(* A ladder is one quality or a stretch of the order.                      *)
LEMMA RungsAre ==
  ASSUME NEW r \in Requests
  PROVE  \/ Rungs(r) = <<r.quality>>
         \/ /\ r.kind = "info" /\ r.fallback
            /\ {r.quality, r.floor} \subseteq ToSet(Order)
            /\ Rank(r.quality) <= Rank(r.floor)
            /\ Rungs(r) \in Seq(Qualities)
            /\ Len(Rungs(r)) = Rank(r.floor) - Rank(r.quality) + 1
            /\ \A i \in 1..Len(Rungs(r)) : Rungs(r)[i] = Order[Rank(r.quality) + i - 1]
<1> DEFINE a == Rank(r.quality)
           b == Rank(r.floor)
<1>1. CASE /\ r.kind = "info" /\ r.fallback
           /\ {r.quality, r.floor} \subseteq ToSet(Order) /\ a <= b
  <2>1. Rungs(r) = SubSeq(Order, a, b)
    BY <1>1 DEF Rungs, Ladder
  <2>2. a \in 1..4 /\ b \in 1..4
    BY <1>1, OrderFacts
  <2> HIDE DEF a, b
  <2>3. /\ SubSeq(Order, a, b) \in Seq(Qualities)
        /\ Len(SubSeq(Order, a, b)) = b - a + 1
        /\ \A i \in 1..(b - a + 1) : SubSeq(Order, a, b)[i] = Order[a + i - 1]
    <3>1. \A i \in a..b : Order[i] \in Qualities
      BY <2>2, OrderFacts
    <3>2. a \in Int /\ b \in Int /\ a <= b
      BY <1>1, <2>2 DEF a, b
    <3> QED
      BY <3>1, <3>2, SubSeqProperties
  <2> QED
    BY <1>1, <2>1, <2>3 DEF a, b
<1>2. CASE ~(/\ r.kind = "info" /\ r.fallback
             /\ {r.quality, r.floor} \subseteq ToSet(Order) /\ a <= b)
  BY <1>2 DEF Rungs, Ladder
<1> QED
  BY <1>1, <1>2

(* No quality is asked for twice.                                          *)
LEMMA RungsSound ==
  ASSUME NEW r \in Requests
  PROVE  /\ Rungs(r) \in Seq(Qualities) /\ Len(Rungs(r)) >= 1
         /\ \A i, j \in 1..Len(Rungs(r)) : Rungs(r)[i] = Rungs(r)[j] => i = j
<1>1. r.quality \in Qualities
  BY DEF Requests
<1>2. CASE Rungs(r) = <<r.quality>>
  BY <1>1, <1>2
<1>3. CASE Rungs(r) # <<r.quality>>
  <2> DEFINE a == Rank(r.quality)
             n == Len(Rungs(r))
  <2>1. /\ {r.quality, r.floor} \subseteq ToSet(Order) /\ a <= Rank(r.floor)
        /\ n = Rank(r.floor) - a + 1 /\ Rungs(r) \in Seq(Qualities)
        /\ \A i \in 1..n : Rungs(r)[i] = Order[a + i - 1]
    BY <1>3, RungsAre
  <2>2. a \in 1..4 /\ Rank(r.floor) \in 1..4
    BY <2>1, OrderFacts
  <2> HIDE DEF a, n
  <2>3. ASSUME NEW i \in 1..n, NEW j \in 1..n, Rungs(r)[i] = Rungs(r)[j] PROVE i = j
    <3>1. a + i - 1 \in 1..4 /\ a + j - 1 \in 1..4
      BY <2>1, <2>2
    <3>2. Order[a + i - 1] = Order[a + j - 1]
      BY <2>1, <2>3
    <3>3. a + i - 1 = a + j - 1
      BY <3>1, <3>2, OrderFacts
    <3> QED
      BY <2>2, <3>3
  <2> QED
    BY <2>1, <2>2, <2>3 DEF n
<1> QED
  BY <1>2, <1>3

(* Its rungs are the acceptable qualities, the better ones first.          *)
LEMMA LadderSound ==
  ASSUME request \in Requests
  PROVE  /\ \A i \in 1..Len(Rungs(request)) : Acceptable(Rungs(request)[i])
         /\ \A q \in Qualities : Acceptable(q) =>
              \E i \in 1..Len(Rungs(request)) : Rungs(request)[i] = q
         /\ \A i, j \in 1..Len(Rungs(request)) :
              Better(Rungs(request)[i], Rungs(request)[j]) => i < j
<1> DEFINE full == Rungs(request)
           n == Len(full)
           a == Rank(request.quality)
           b == Rank(request.floor)
<1>1. full \in Seq(Qualities) /\ n >= 1 /\ request.quality \in Qualities
  BY RungsSound DEF Requests
<1>2. CASE full = <<request.quality>>
  <2>1. n = 1 /\ full[1] = request.quality
    BY <1>2
  <2>2. ASSUME NEW q \in Qualities, Acceptable(q) PROVE q = request.quality
    <3>1. CASE /\ request.kind = "info" /\ request.fallback
               /\ {q, request.quality, request.floor} \subseteq ToSet(Order)
               /\ a < Rank(q) /\ Rank(q) <= b
      <4>1. a \in 1..4 /\ b \in 1..4 /\ Rank(q) \in 1..4
        BY <3>1, OrderFacts
      <4>2. full = SubSeq(Order, a, b) /\ a < b
        BY <3>1, <4>1 DEF Rungs, Ladder
      <4>3. \A i \in a..b : Order[i] \in Qualities
        BY <4>1, OrderFacts
      <4>4. Len(SubSeq(Order, a, b)) = b - a + 1
        <5> HIDE DEF a, b
        <5> QED
          BY <4>1, <4>2, <4>3, SubSeqProperties
      <4> QED
        BY <2>1, <4>1, <4>2, <4>4
    <3> QED
      BY <2>2, <3>1 DEF Acceptable
  <2> QED
    BY <2>1, <2>2 DEF Acceptable, Better
<1>3. CASE full # <<request.quality>>
  <2>1. /\ request.kind = "info" /\ request.fallback
        /\ {request.quality, request.floor} \subseteq ToSet(Order) /\ a <= b
        /\ n = b - a + 1 /\ \A i \in 1..n : full[i] = Order[a + i - 1]
    BY <1>3, RungsAre
  <2>2. a \in 1..4 /\ b \in 1..4 /\ Order[a] = request.quality
    BY <2>1, OrderFacts
  <2> HIDE DEF a, b, n, full
  <2>3. ASSUME NEW i \in 1..n
        PROVE  a + i - 1 \in 1..4 /\ full[i] \in ToSet(Order) /\ Rank(full[i]) = a + i - 1
    BY <2>1, <2>2, OrderFacts
  <2>4. ASSUME NEW i \in 1..n PROVE Acceptable(full[i])
    <3>1. CASE i = 1
      BY <2>1, <2>2, <2>4, <3>1 DEF Acceptable
    <3>2. CASE i # 1
      <4>1. a < Rank(full[i]) /\ Rank(full[i]) <= b
        BY <2>1, <2>2, <2>3, <3>2
      <4> QED
        BY <2>1, <2>3, <4>1 DEF Acceptable, a, b
    <3> QED
      BY <3>1, <3>2
  <2>5. ASSUME NEW q \in Qualities, Acceptable(q) PROVE \E i \in 1..n : full[i] = q
    <3>1. q \in ToSet(Order) /\ a <= Rank(q) /\ Rank(q) <= b
      <4>1. CASE q = request.quality
        <5>1. Rank(q) = a
          BY <4>1 DEF a
        <5> QED
          BY <2>1, <2>2, <4>1, <5>1
      <4>2. CASE q # request.quality
        <5>1. q \in ToSet(Order) /\ a < Rank(q) /\ Rank(q) <= b
          BY <2>5, <4>2 DEF Acceptable, a, b
        <5> QED
          BY <2>2, <5>1, OrderFacts
      <4> QED
        BY <4>1, <4>2
    <3>2. Rank(q) \in 1..4 /\ Order[Rank(q)] = q
      BY <3>1, OrderFacts
    <3>3. Rank(q) - a + 1 \in 1..n /\ a + (Rank(q) - a + 1) - 1 = Rank(q)
      BY <2>1, <2>2, <3>1, <3>2
    <3>4. full[Rank(q) - a + 1] = q
      BY <2>1, <3>2, <3>3
    <3> QED
      BY <3>3, <3>4
  <2>6. ASSUME NEW i \in 1..n, NEW j \in 1..n, Better(full[i], full[j]) PROVE i < j
    <3>1. full[i] # full[j] /\ (full[i] = request.quality \/ Rank(full[i]) < Rank(full[j]))
      BY <2>6 DEF Better
    <3>2. CASE full[i] = request.quality
      BY <2>2, <2>3, <3>1, <3>2 DEF a
    <3>3. CASE Rank(full[i]) < Rank(full[j])
      BY <2>2, <2>3, <3>3
    <3> QED
      BY <3>1, <3>2, <3>3
  <2> QED
    BY <2>4, <2>5, <2>6 DEF n, full
<1> QED
  BY <1>2, <1>3

LEMMA Climbed == LinkTypeOK /\ ClimbInv => BestAvailable
<1> SUFFICES ASSUME LinkTypeOK, ClimbInv PROVE BestAvailable
  OBVIOUS
<1> DEFINE full == Rungs(request)
<1>1. request \in Requests
  BY DEF LinkTypeOK
<1>2. full \in Seq(Qualities) /\ DOMAIN full = 1..Len(full)
  BY <1>1, RungsSound
<1>3. CASE Unasked /\ \A q \in Qualities : heard[q] = "none"
  BY <1>3 DEF BestAvailable, Unasked, Legs
<1>4. ASSUME NEW k \in DOMAIN full, Descended(k) PROVE BestAvailable
  <2>1. ASSUME NEW q \in Qualities, heard[q] # "none"
        PROVE  Acceptable(q) /\ \A p \in Qualities : Better(p, q) => heard[p] = "blank"
    <3>1. PICK i \in 1..k : full[i] = q
      BY <1>4, <2>1 DEF Descended
    <3>2. i \in 1..Len(full)
      BY <1>2
    <3>3. ASSUME NEW p \in Qualities, Better(p, q) PROVE heard[p] = "blank"
      <4>1. PICK j \in 1..Len(full) : full[j] = p
        BY <1>1, <3>3, LadderSound DEF Better
      <4>2. j < i
        BY <1>1, <3>1, <3>2, <3>3, <4>1, LadderSound
      <4> QED
        BY <1>4, <4>1, <4>2 DEF Descended
    <3> QED
      BY <1>1, <3>1, <3>2, <3>3, LadderSound
  <2>2. full[k] \in Qualities
    BY <1>2
  <2>3. ASSUME leg["url"] = "UrlUnavailable", NEW q \in Qualities, Acceptable(q)
        PROVE  heard[q] = "blank"
    <3>1. PICK i \in 1..Len(full) : full[i] = q
      BY <1>1, <2>3, LadderSound
    <3>2. k = Len(full) /\ heard[full[k]] = "blank" /\ \A j \in 1..(k - 1) : heard[full[j]] = "blank"
      BY <1>4, <2>3 DEF Descended
    <3>3. i = k \/ i \in 1..(k - 1)
      BY <3>2
    <3> QED
      BY <3>1, <3>2, <3>3
  <2>4. leg["url"] = "ok" => heard[full[k]] = "good"
    BY <1>4 DEF Descended
  <2> HIDE DEF full
  <2> QED
    BY <2>1, <2>2, <2>3, <2>4 DEF BestAvailable
<1> QED
  BY <1>3, <1>4 DEF ClimbInv

-----------------------------------------------------------------------------
(* The calls.                                                              *)

LEMMA InitLinks == LinkInit => LinkInv
<1> SUFFICES ASSUME LinkInit PROVE LinkInv
  OBVIOUS
<1>1. LinkTypeOK
  BY AttemptsAssumption DEF LinkInit, LinkTypeOK
<1>2. \A l \in Legs : leg[l] = "off"
  BY DEF LinkInit
<1>3. CallsInv /\ ClimbInv
  BY <1>2 DEF LinkInit, CallsInv, ClimbInv, Unasked
<1>4. Deciding \cup {"chunk"} \subseteq Legs
  BY DEF Deciding, LinkInit, Requests, Legs, Opening, Details
<1>5. WarningsKept
  BY <1>2, <1>4 DEF WarningsKept
<1>6. RiskCodesKept
  BY DEF LinkInit, RiskCodesKept
<1> QED
  BY <1>1, <1>3, <1>5, <1>6 DEF LinkInv

(* What becomes of an answer before its result is looked for in it.        *)
LEMMA TransportedAre ==
  ASSUME NEW a \in Answers
  PROVE  \/ /\ a \in {"lost", "lostUnseen", "rejected", "rejectedUnseen"}
            /\ Transported(a) = "Api"
         \/ a \in {"throttled", "risk"} /\ Transported(a) = "RateLimited"
         \/ a \in {"expelled", "login"} /\ Transported(a) = "AuthExpired"
         \/ /\ a \in {"riskUnseen", "loginUnseen", "code", "garbled", "hollow", "blank", "good"}
            /\ Transported(a) = "text"
<1>1. CASE a \in {"lost", "lostUnseen"}
  BY <1>1 DEF Transported, FailureKind
<1>2. CASE a \in {"throttled", "risk"}
  BY <1>2 DEF Transported, FailureKind
<1>3. CASE a \in {"expelled", "login"}
  BY <1>3 DEF Transported, FailureKind
<1>4. CASE a \in {"rejected", "rejectedUnseen"}
  BY <1>4 DEF Transported, FailureKind
<1>5. CASE a \in {"riskUnseen", "loginUnseen", "code", "garbled", "hollow", "blank", "good"}
  BY <1>5 DEF Transported, FailureKind
<1> QED
  BY <1>1, <1>2, <1>3, <1>4, <1>5 DEF Answers

LEMMA ClassifiedAre ==
  ASSUME NEW a
  PROVE  \/ a = "riskUnseen" /\ Classified(a) = "RateLimited"
         \/ a = "loginUnseen" /\ Classified(a) = "AuthExpired"
         \/ a = "code" /\ Classified(a) = "Api"
         \/ a \notin {"riskUnseen", "loginUnseen", "code"} /\ Classified(a) = "ok"
BY DEF Classified

(* A result that warns of nothing was read from an answer that did not.    *)
LEMMA ParsedAre ==
  ASSUME NEW a \in Answers, NEW t \in Parsed(FormText(a), a) \cup Parsed(PlainText(a), a)
  PROVE  /\ t \in {"ok", "Api", "Panic", "RateLimited", "AuthExpired"}
         /\ t = "Api" => a \notin Warning
         /\ t = "ok" => a \in {"hollow", "blank", "good"}
<1>1. PICK u \in FormText(a) \cup PlainText(a) : t = IF u = "text" THEN Classified(a) ELSE u
  BY DEF Parsed
<1>2. CASE Transported(a) # "text"
  <2>1. t = Transported(a)
    BY <1>1, <1>2 DEF FormText, PlainText
  <2> QED
    BY <1>2, <2>1, TransportedAre DEF Warning
<1>3. CASE Transported(a) = "text"
  <2>1. a \in {"riskUnseen", "loginUnseen", "code", "garbled", "hollow", "blank", "good"}
    BY <1>3, TransportedAre
  <2>2. CASE a = "garbled"
    BY <1>1, <1>3, <2>2 DEF FormText, PlainText, Warning
  <2>3. CASE a # "garbled"
    <3>1. t = Classified(a)
      BY <1>1, <1>3, <2>3 DEF FormText, PlainText
    <3> QED
      BY <2>1, <2>3, <3>1, ClassifiedAre DEF Warning
  <2> QED
    BY <2>2, <2>3
<1> QED
  BY <1>2, <1>3

(* What a call of leg l may return for answer a.                           *)
LEMMA ResultsAre ==
  ASSUME NEW l \in Legs, NEW a \in Answers, NEW result \in Results(l, a)
  PROVE  /\ result \in {"ok", "NoSong", "Api", "Panic", "RateLimited", "AuthExpired", "UrlUnavailable"}
         /\ result = "NoSong" => l = "detail"
         /\ result = "UrlUnavailable" => l = "url" /\ a = "blank"
         /\ result = "ok" /\ l = "url" => a = "good"
         /\ result \in {"Api", "UrlUnavailable", "NoSong"} => a \notin Warning
         /\ result \in {"ok", "NoSong"} /\ l # "chunk" => a \notin Warning \cup Unread
<1>1. CASE l = "url"
  <2>1. PICK t \in Parsed(PlainText(a), a) :
          result = IF t # "ok" THEN t
                   ELSE IF a = "hollow" THEN "Api" ELSE IF a = "blank" THEN "UrlUnavailable" ELSE "ok"
    BY <1>1 DEF Results, GetSongUrl
  <2> QED
    BY <1>1, <2>1, ParsedAre DEF Warning, Unread
<1>2. CASE l = "detail"
  <2>1. PICK t \in Parsed(FormText(a), a) :
          result = IF t = "ok" /\ a \in {"hollow", "blank"} THEN "NoSong" ELSE t
    BY <1>2 DEF Results, GetSongDetail
  <2> QED
    BY <1>2, <2>1, ParsedAre DEF Warning, Unread
<1>3. CASE l = "lyric"
  <2>1. result \in Parsed(FormText(a), a)
    BY <1>3 DEF Results, GetLyric
  <2> QED
    BY <1>3, <2>1, ParsedAre DEF Warning, Unread
<1>4. CASE l = "chunk"
  <2>1. PICK t \in FormText(a) : result = IF t = "text" THEN "ok" ELSE t
    BY <1>4 DEF Results, PlaylistChunk
  <2> QED
    BY <1>4, <2>1, TransportedAre DEF FormText, Warning
<1>5. CASE l = "list"
  <2>1. result \in Parsed(FormText(a), a) \cup Parsed(PlainText(a), a)
    BY <1>5 DEF Results, Search, GetAlbum, GetPlaylist
  <2> QED
    BY <1>5, <2>1, ParsedAre DEF Warning, Unread
<1> QED
  BY <1>1, <1>2, <1>3, <1>4, <1>5 DEF Legs

(* What a service opens, and what its reply rests on.                      *)
LEMMA OpeningAre ==
  ASSUME request \in Requests
  PROVE  /\ Opening(request.kind) \subseteq Calls(request.kind)
         /\ Calls(request.kind) \subseteq Legs
         /\ Deciding \subseteq Opening(request.kind) /\ "chunk" \notin Opening(request.kind)
         /\ request.kind \in {"info"} \cup Details => "detail" \in Deciding
         /\ request.kind = "info" => "url" \in Deciding
         /\ request.kind \notin {"info"} \cup Details =>
              /\ Deciding = Opening(request.kind)
              /\ Calls(request.kind) \subseteq Deciding \cup {"chunk"}
<1>1. request.kind \in Kinds
  BY DEF Requests
<1>2. Opening(request.kind) \in
        {{"url", "detail", "lyric"}, {"url"}, {"detail"}, {"lyric"}, {"list"}}
  BY DEF Opening, Details
<1>3. request.kind = "info" => Opening(request.kind) = {"url", "detail", "lyric"}
  BY DEF Opening, Details
<1>4. request.kind \in Details => Opening(request.kind) = {"detail"}
  BY DEF Opening, Details
<1>5. request.kind \in Playlists => Opening(request.kind) = {"list"}
  BY DEF Opening, Playlists, Details
<1>6. /\ request.kind = "info" => Deciding = {"url", "detail"}
      /\ request.kind \in Details => Deciding = {"detail"}
      /\ request.kind \notin {"info"} \cup Details => Deciding = Opening(request.kind)
  BY DEF Deciding, Details
<1>7. Calls(request.kind) \subseteq Legs /\ Opening(request.kind) \subseteq Calls(request.kind)
  BY <1>2 DEF Calls, Legs
<1>8. request.kind \notin {"info"} \cup Details =>
        Calls(request.kind) \subseteq Opening(request.kind) \cup {"chunk"}
  BY DEF Calls
<1> QED
  BY <1>2, <1>3, <1>4, <1>6, <1>7, <1>8

LEMMA FollowingAre ==
  ASSUME NEW l \in Legs, NEW result, result # "off"
  PROVE  /\ Following(l, result) \subseteq Legs
         /\ Following(l, result) \subseteq Calls(request.kind)
         /\ Following(l, result) = {"chunk"} => chunks > 0
<1>1. CASE request.kind \in Details
  BY <1>1 DEF Following, Details, Playlists, Calls, Legs
<1>2. CASE request.kind \notin Details
  BY <1>2 DEF Following, Playlists, Calls, Legs
<1> QED
  BY <1>1, <1>2

-----------------------------------------------------------------------------
(* The steps.                                                              *)

(* A step that asks for no link and leaves what it has been told.          *)
LEMMA ClimbStays ==
  ASSUME ClimbInv, ~Unasked, ~Unasked', UNCHANGED <<request, rungs, heard>>,
         leg'["url"] = leg["url"] \/ leg'["url"] \notin {"ok", "UrlUnavailable"}
  PROVE  ClimbInv'
<1>1. PICK k \in DOMAIN Rungs(request) : Descended(k)
  BY DEF ClimbInv
<1>2. Descended(k)'
  BY <1>1 DEF Descended, Rungs, Ladder
<1>3. Rungs(request)' = Rungs(request)
  BY DEF Rungs, Ladder
<1> QED
  BY <1>1, <1>2, <1>3 DEF ClimbInv

LEMMA ClimbKept ==
  ASSUME ClimbInv, UNCHANGED <<request, rungs, heard, leg>>
  PROVE  ClimbInv'
<1>1. Unasked' <=> Unasked
  BY DEF Unasked
<1>2. CASE Unasked
  BY <1>1, <1>2 DEF ClimbInv
<1>3. CASE ~Unasked
  BY <1>1, <1>3, ClimbStays
<1> QED
  BY <1>2, <1>3

(* A reply that keeps the warnings of the calls it rests on.               *)
Replies == {"none", "ok", "BadRequest", "ServiceBusy", "Validation", "Api", "Panic", "NotFound",
            "RateLimited", "AuthExpired", "UrlUnavailable", "Download", "Unrendered"}
Kept(r) ==
  /\ r \in Replies
  /\ r \in {"ok", "Unrendered"} => \A l \in Deciding : Clear(l)
  /\ r \in {"Api", "UrlUnavailable", "Download", "NotFound"} =>
       \E l \in Deciding \cup {"chunk"} : leg[l] \notin {"off", "ok"} /\ Quiet(l)

LEMMA RepliesKeep ==
  ASSUME LinkInv, ~Unasked, \A l \in Legs : leg[l] # "asking"
  PROVE  /\ request.kind = "info" => Kept(InfoReply)
         /\ request.kind \in Details => Kept(JsonReply)
         /\ request.kind \notin {"info"} \cup Details => Kept(PlainReply)
<1>1. LinkTypeOK /\ CallsInv /\ WarningsKept /\ request \in Requests
  BY DEF LinkInv, LinkTypeOK
<1>2. \A l \in Legs : leg[l] \in {"off", "ok", "NoSong", "Validation", "Api", "Panic",
                                 "RateLimited", "AuthExpired", "UrlUnavailable"}
  BY <1>1 DEF LinkTypeOK
<1>3. \A l \in Opening(request.kind) : leg[l] # "off"
  BY <1>1 DEF CallsInv
<1>4. Deciding \subseteq Opening(request.kind) /\ Opening(request.kind) \subseteq Legs
  BY <1>1, OpeningAre
<1>5. ASSUME NEW l \in Deciding, leg[l] # "NoSong" PROVE leg[l] # "ok" => Kept(leg[l])
  BY <1>1, <1>2, <1>3, <1>4, <1>5 DEF Kept, Replies, WarningsKept
<1>6. CASE request.kind = "info"
  <2>1. {"url", "detail"} \subseteq Deciding /\ Deciding \subseteq {"url", "detail"}
    BY <1>1, <1>6, OpeningAre DEF Deciding
  <2>2. leg["url"] # "NoSong"
    BY <1>1 DEF CallsInv, Legs
  <2>3. ASSUME leg["url"] # "ok" PROVE Kept(InfoReply)
    BY <1>5, <2>1, <2>2, <2>3 DEF InfoReply
  <2>4. ASSUME leg["url"] = "ok" /\ leg["detail"] = "NoSong" PROVE Kept(InfoReply)
    BY <1>1, <2>1, <2>4 DEF InfoReply, Kept, Replies, WarningsKept, Quiet, Clear
  <2>5. ASSUME leg["url"] = "ok" /\ leg["detail"] = "ok" PROVE Kept(InfoReply)
    BY <1>1, <2>1, <2>5 DEF InfoReply, Kept, Replies, WarningsKept, Quiet, Clear
  <2>6. ASSUME leg["url"] = "ok" /\ leg["detail"] \notin {"ok", "NoSong"} PROVE Kept(InfoReply)
    BY <1>5, <2>1, <2>6 DEF InfoReply
  <2> QED
    BY <1>6, <2>3, <2>4, <2>5, <2>6 DEF Details
<1>7. CASE request.kind \in Details
  <2>1. Deciding = {"detail"}
    BY <1>7 DEF Deciding, Details
  <2>2. ASSUME leg["detail"] \in {"ok", "NoSong"} PROVE Kept(JsonReply)
    BY <1>1, <2>1, <2>2 DEF JsonReply, Kept, Replies, WarningsKept, Quiet, Clear
  <2>3. ASSUME leg["detail"] \notin {"ok", "NoSong"} PROVE Kept(JsonReply)
    BY <1>5, <2>1, <2>3 DEF JsonReply
  <2> QED
    BY <1>7, <2>2, <2>3 DEF Details
<1>8. CASE request.kind \notin {"info"} \cup Details
  <2>1. Deciding = Opening(request.kind) /\ Calls(request.kind) \subseteq Deciding \cup {"chunk"}
    BY <1>1, <1>8, OpeningAre
  <2> DEFINE faults == {l \in Legs : leg[l] \notin {"off", "ok", "NoSong"}}
             l == CHOOSE m \in faults : TRUE
  <2>2. CASE faults = {}
    <3>1. PlainReply = "ok"
      BY <2>2 DEF PlainReply
    <3>2. \A m \in Deciding : leg[m] \in {"ok", "NoSong"}
      BY <1>2, <1>3, <1>4, <2>1, <2>2
    <3> QED
      BY <1>1, <1>8, <3>1, <3>2 DEF Kept, Replies, WarningsKept
  <2>3. CASE faults # {}
    <3>1. l \in faults /\ PlainReply = leg[l]
      BY <2>3 DEF PlainReply
    <3>2. l \in Deciding \cup {"chunk"}
      BY <1>1, <2>1, <3>1 DEF CallsInv
    <3>3. leg[l] \in {"Validation", "Api", "Panic", "RateLimited", "AuthExpired", "UrlUnavailable"}
      BY <1>2, <3>1
    <3> HIDE DEF l
    <3>4. Kept(leg[l])
      BY <1>1, <3>2, <3>3 DEF Kept, Replies, WarningsKept
    <3> QED
      BY <1>8, <3>1, <3>4
  <2> QED
    BY <2>2, <2>3
<1> QED
  BY <1>6, <1>7, <1>8, Zenon

LEMMA AnswerKeeps ==
  ASSUME LinkInv, Answer \/ TurnAway
  PROVE  LinkInv'
<1>1. UNCHANGED <<request, leg, tries, rungs, chunks, last, heard>>
  BY DEF Answer, TurnAway, TurnAwaySong, TurnAwaySearch, TurnAwayPlaylist, TurnAwayAlbum,
         TurnAwayMeta, TurnAwayPage, Refuse
<1>2. Kept(reply')
  <2>1. CASE TurnAway
    <3>1. reply' \in {"BadRequest", "ServiceBusy"}
      BY <2>1 DEF TurnAway, TurnAwaySong, TurnAwaySearch, TurnAwayPlaylist, TurnAwayAlbum,
         TurnAwayMeta, TurnAwayPage, Refuse
    <3> QED
      BY <3>1 DEF Kept, Replies
  <2>2. CASE Answer
    <3>1. ~Unasked /\ \A l \in Legs : leg[l] # "asking"
      BY <2>2 DEF Answer, Unasked
    <3>2. ASSUME NEW r, Kept(r), NEW s \in SongPage(r) PROVE Kept(s)
      BY <3>2 DEF SongPage, Kept, Replies
    <3>3. CASE request.kind = "info"
      BY <2>2, <3>1, <3>3, RepliesKeep DEF Answer
    <3>4. CASE request.kind = "json"
      BY <2>2, <3>1, <3>4, RepliesKeep DEF Answer, Details
    <3>5. CASE request.kind = "songPage"
      BY <2>2, <3>1, <3>2, <3>5, RepliesKeep DEF Answer, Details
    <3>6. CASE request.kind = "playlistPage"
      BY <2>2, <3>1, <3>2, <3>6, RepliesKeep DEF Answer, Details, PlaylistPage
    <3>7. CASE request.kind = "albumPage"
      BY <2>2, <3>1, <3>2, <3>7, RepliesKeep DEF Answer, Details, AlbumPage
    <3>8. CASE request.kind \notin {"info", "json", "songPage", "playlistPage", "albumPage"}
      BY <2>2, <3>1, <3>8, RepliesKeep DEF Answer, Details
    <3> QED
      BY <3>3, <3>4, <3>5, <3>6, <3>7, <3>8
  <2> QED
    BY <2>1, <2>2
<1>3. LinkTypeOK'
  BY <1>1, <1>2 DEF LinkInv, LinkTypeOK, Kept, Replies
<1>4. CallsInv' /\ WarningsKept'
  BY <1>1 DEF LinkInv, CallsInv, Unasked, WarningsKept, Quiet, Clear, Deciding
<1>5. ClimbInv'
  BY <1>1, ClimbKept DEF LinkInv
<1>6. RiskCodesKept'
  BY <1>1, <1>2 DEF Kept, Replies, RiskCodesKept, Quiet, Clear, Deciding
<1> QED
  BY <1>3, <1>4, <1>5, <1>6 DEF LinkInv

LEMMA BeginKeeps ==
  ASSUME LinkInv, Begin
  PROVE  LinkInv'
<1>1. /\ request \in Requests /\ Unasked /\ LinkTypeOK /\ ClimbInv /\ reply = "none"
      /\ UNCHANGED <<request, reply, tries, chunks, last, heard>> /\ rungs' = Rungs(request)
      /\ leg' = [l \in Legs |-> IF l \in Opening(request.kind) THEN "asking" ELSE "off"]
  BY DEF LinkInv, LinkTypeOK, Begin, Unasked, Open
<1>2. /\ Opening(request.kind) \subseteq Calls(request.kind) /\ Calls(request.kind) \subseteq Legs
      /\ Deciding \subseteq Legs
  BY <1>1, OpeningAre
<1>3. Rungs(request) \in Seq(Qualities) /\ Len(Rungs(request)) >= 1
  BY <1>1, RungsSound
<1>4. LinkTypeOK'
  BY <1>1, <1>3 DEF LinkTypeOK
<1>5. CallsInv'
  BY <1>1, <1>2 DEF CallsInv, Unasked
<1>6. ClimbInv'
  <2>1. \A q \in Qualities : heard'[q] = "none"
    BY <1>1 DEF ClimbInv
  <2>0. Rungs(request)' = Rungs(request)
    BY <1>1 DEF Rungs, Ladder
  <2>2. Rungs(request)' = Rungs(request) /\ DOMAIN Rungs(request) = 1..Len(Rungs(request))
    BY <1>3, <2>0
  <2>3. rungs' = SubSeq(Rungs(request), 1, Len(Rungs(request)))
    BY <1>1, <1>3, SubSeqFull
  <2>4. leg'["url"] \in {"off", "asking"}
    BY <1>1 DEF Legs
  <2>5. Descended(1)'
    BY <2>1, <2>2, <2>3, <2>4 DEF Descended
  <2> QED
    BY <1>3, <2>1, <2>2, <2>5 DEF ClimbInv
<1>7. WarningsKept'
  BY <1>1, <1>2 DEF WarningsKept, Deciding, Legs
<1>8. RiskCodesKept'
  BY <1>1 DEF RiskCodesKept
<1> QED
  BY <1>4, <1>5, <1>6, <1>7, <1>8 DEF LinkInv

LEMMA InvalidIdKeeps ==
  ASSUME LinkInv, NEW l \in Legs, InvalidId(l)
  PROVE  LinkInv'
<1>1. /\ LinkTypeOK /\ ClimbInv /\ reply = "none" /\ leg[l] = "asking"
      /\ UNCHANGED <<request, reply, tries, rungs, chunks, last, heard>>
      /\ leg' = [leg EXCEPT ![l] = "Validation"]
  BY DEF LinkInv, InvalidId
<1>2. ~Unasked /\ ~Unasked'
  BY <1>1 DEF Unasked
<1>3. LinkTypeOK'
  BY <1>1 DEF LinkTypeOK
<1>4. CallsInv'
  <2>1. Opening(request.kind) \subseteq Legs
    BY <1>1, OpeningAre DEF LinkTypeOK
  <2> QED
    BY <1>1, <1>2, <2>1 DEF LinkInv, CallsInv
<1>5. ClimbInv'
  BY <1>1, <1>2, ClimbStays DEF Legs
<1>6. WarningsKept'
  <2>1. Deciding \subseteq Legs /\ "chunk" \in Legs
    BY <1>1, OpeningAre DEF LinkTypeOK, Legs
  <2> QED
    BY <1>1, <2>1 DEF LinkInv, WarningsKept, Quiet, Clear, Deciding
<1>7. RiskCodesKept'
  BY <1>1 DEF RiskCodesKept
<1> QED
  BY <1>3, <1>4, <1>5, <1>6, <1>7 DEF LinkInv

(* Answer a of leg l, heard on the k-th rung, is not remembered of another.*)
HeardAt(k, l, a) ==
  /\ Descended(k) /\ k \in 1..Len(Rungs(request))
  /\ Head(rungs) = Rungs(request)[k] /\ Rungs(request)[k] \in Qualities
  /\ Tail(rungs) = SubSeq(Rungs(request), k + 1, Len(Rungs(request)))
  /\ heard' = IF l = "url" THEN [heard EXCEPT ![Rungs(request)[k]] = a] ELSE heard
  /\ \A i \in 1..(k - 1) : heard'[Rungs(request)[i]] = "blank"
  /\ \A q \in Qualities : heard'[q] # "none" => \E i \in 1..k : Rungs(request)[i] = q

LEMMA HeardOfOne ==
  ASSUME LinkTypeOK, ClimbInv, ~Unasked, NEW l \in Legs, NEW a \in Answers, Heard(l, a)
  PROVE  /\ last' \in [Legs -> Answers \cup {"none"}]
         /\ heard' \in [Qualities -> Answers \cup {"none"}]
         /\ last' = IF l \in Deciding \cup {"chunk"} THEN [last EXCEPT ![l] = a] ELSE last
         /\ \E k \in DOMAIN Rungs(request) : HeardAt(k, l, a)
<1> DEFINE full == Rungs(request)
<1>1. PICK k \in DOMAIN full : Descended(k)
  BY DEF ClimbInv
<1>2. /\ full \in Seq(Qualities) /\ DOMAIN full = 1..Len(full) /\ Len(full) \in Nat
      /\ \A i, j \in 1..Len(full) : full[i] = full[j] => i = j
  BY RungsSound DEF LinkTypeOK
<1>3. /\ rungs = SubSeq(full, k, Len(full))
      /\ \A i \in 1..(k - 1) : heard[full[i]] = "blank"
      /\ \A q \in Qualities : heard[q] # "none" => \E i \in 1..k : full[i] = q
  BY <1>1 DEF Descended
<1> HIDE DEF full
<1>4. Head(rungs) = full[k] /\ full[k] \in Qualities /\ Tail(rungs) = SubSeq(full, k + 1, Len(full))
  <2>1. k \in 1..Len(full) /\ Len(full) \in k..Len(full) /\ full[k] \in Qualities
    BY <1>1, <1>2
  <2>2. /\ Head(SubSeq(full, k, Len(full))) = full[k]
        /\ Tail(SubSeq(full, k, Len(full))) = SubSeq(full, k + 1, Len(full))
    BY <1>2, <2>1, HeadTailOfSubSeq
  <2> QED
    BY <1>3, <2>1, <2>2, Zenon
<1>5. /\ heard \in [Qualities -> Answers \cup {"none"}] /\ last \in [Legs -> Answers \cup {"none"}]
      /\ last' = IF l \in Deciding \cup {"chunk"} THEN [last EXCEPT ![l] = a] ELSE last
      /\ heard' = IF l = "url" THEN [heard EXCEPT ![full[k]] = a] ELSE heard
  BY <1>4 DEF LinkTypeOK, Heard
<1>6. \A i \in 1..(k - 1) : full[i] # full[k] /\ full[i] \in Qualities
  BY <1>1, <1>2
<1>7. \A i \in 1..(k - 1) : heard'[full[i]] = "blank"
  BY <1>3, <1>5, <1>6
<1>8. \A q \in Qualities : heard'[q] # "none" => \E i \in 1..k : full[i] = q
  BY <1>1, <1>2, <1>3, <1>5
<1>9. /\ last' \in [Legs -> Answers \cup {"none"}] /\ heard' \in [Qualities -> Answers \cup {"none"}]
  BY <1>4, <1>5
<1> QED
  BY <1>1, <1>2, <1>4, <1>5, <1>7, <1>8, <1>9 DEF full, HeardAt

LEMMA RetryKeeps ==
  ASSUME LinkInv, NEW l \in Legs, Retry(l)
  PROVE  LinkInv'
<1>1. PICK a \in Answers : Heard(l, a)
  BY DEF Retry
<1>2. /\ LinkTypeOK /\ ClimbInv /\ reply = "none" /\ leg[l] = "asking" /\ ~Unasked
      /\ UNCHANGED <<request, reply, leg, rungs, chunks>>
      /\ tries[l] + 1 < MaxAttempts /\ tries' = [tries EXCEPT ![l] = @ + 1]
  BY DEF LinkInv, Retry, Sent, Unasked
<1>3. LinkTypeOK'
  <2>1. tries' \in [Legs -> 0..(MaxAttempts - 1)]
    BY <1>2, AttemptsAssumption DEF LinkTypeOK
  <2> QED
    BY <1>1, <1>2, <2>1, HeardOfOne DEF LinkTypeOK
<1>4. CallsInv'
  BY <1>2 DEF LinkInv, CallsInv, Unasked
<1>5. ClimbInv'
  <2>1. PICK k \in DOMAIN Rungs(request) : HeardAt(k, l, a)
    BY <1>1, <1>2, HeardOfOne
  <2>2. Rungs(request)' = Rungs(request) /\ ~Unasked'
    BY <1>2 DEF Rungs, Ladder, Unasked
  <2>3. leg["url"] \in {"ok", "UrlUnavailable"} => heard' = heard
    BY <1>2, <2>1 DEF HeardAt
  <2>4. Descended(k)'
    BY <1>2, <2>1, <2>2, <2>3 DEF Descended, HeardAt
  <2> QED
    BY <2>2, <2>4 DEF ClimbInv
<1>6. WarningsKept'
  <2>1. last' = IF l \in Deciding \cup {"chunk"} THEN [last EXCEPT ![l] = a] ELSE last
    BY <1>1, <1>2, HeardOfOne
  <2> QED
    BY <1>2, <2>1 DEF LinkInv, LinkTypeOK, WarningsKept, Quiet, Clear, Deciding
<1>7. RiskCodesKept'
  BY <1>2 DEF RiskCodesKept
<1> QED
  BY <1>3, <1>4, <1>5, <1>6, <1>7 DEF LinkInv

LEMMA StepDownKeeps ==
  ASSUME LinkInv, StepDown
  PROVE  LinkInv'
<1>1. PICK a \in Answers : Heard("url", a) /\ \E result \in GetSongUrl(a) : StepsDown("url", result)
  BY DEF StepDown
<1>2. /\ LinkTypeOK /\ ClimbInv /\ reply = "none" /\ leg["url"] = "asking" /\ ~Unasked
      /\ UNCHANGED <<request, reply, leg, chunks>> /\ Tail(rungs) # <<>>
      /\ rungs' = Tail(rungs) /\ tries' = [tries EXCEPT !["url"] = 0] /\ "url" \in Legs
  BY <1>1 DEF LinkInv, StepDown, StepsDown, Sent, Unasked, Legs
<1>3. a = "blank"
  <2>1. PICK result \in GetSongUrl(a) : result = "UrlUnavailable"
    BY <1>1 DEF StepsDown
  <2>2. result \in Results("url", a)
    BY <2>1 DEF Results
  <2> QED
    BY <1>2, <2>1, <2>2, ResultsAre
<1>4. PICK k \in DOMAIN Rungs(request) : HeardAt(k, "url", a)
  BY <1>1, <1>2, HeardOfOne
<1>5. Rungs(request) \in Seq(Qualities) /\ Len(Rungs(request)) \in Nat
  BY <1>2, RungsSound DEF LinkTypeOK
<1>6. k + 1 \in 1..Len(Rungs(request))
  <2>1. CASE k = Len(Rungs(request))
    BY <1>2, <1>4, <1>5, <2>1, SubSeqEmpty DEF HeardAt
  <2> QED
    BY <1>4, <1>5, <2>1 DEF HeardAt
<1>7. LinkTypeOK'
  <2>1. rungs' \in Seq(Qualities)
    <3>1. \A i \in (k + 1)..Len(Rungs(request)) : Rungs(request)[i] \in Qualities
      BY <1>4, <1>5 DEF HeardAt
    <3>2. k + 1 \in Int /\ Len(Rungs(request)) \in Int
      BY <1>4, <1>5 DEF HeardAt
    <3>3. SubSeq(Rungs(request), k + 1, Len(Rungs(request))) \in Seq(Qualities)
      BY <3>1, <3>2, SubSeqProperties
    <3> QED
      BY <1>2, <1>4, <3>3 DEF HeardAt
  <2>2. tries' \in [Legs -> 0..(MaxAttempts - 1)]
    BY <1>2, AttemptsAssumption DEF LinkTypeOK
  <2> QED
    BY <1>1, <1>2, <2>1, <2>2, HeardOfOne DEF LinkTypeOK
<1>8. CallsInv'
  BY <1>2 DEF LinkInv, CallsInv, Unasked
<1>9. ClimbInv'
  <2>1. Rungs(request)' = Rungs(request) /\ ~Unasked' /\ leg'["url"] = "asking"
    BY <1>2 DEF Rungs, Ladder, Unasked
  <2>2. heard'[Rungs(request)[k]] = "blank"
    BY <1>2, <1>3, <1>4 DEF LinkTypeOK, HeardAt
  <2>3. \A i \in 1..k : heard'[Rungs(request)[i]] = "blank"
    BY <1>4, <2>2 DEF HeardAt
  <2>4. /\ (k + 1) - 1 = k /\ rungs' = SubSeq(Rungs(request), k + 1, Len(Rungs(request)))
        /\ \A q \in Qualities : heard'[q] # "none" => \E i \in 1..(k + 1) : Rungs(request)[i] = q
    BY <1>2, <1>4 DEF HeardAt
  <2>5. Descended(k + 1)'
    BY <2>1, <2>3, <2>4 DEF Descended
  <2> QED
    BY <1>5, <1>6, <2>1, <2>5 DEF ClimbInv
<1>10. WarningsKept'
  <2>1. last' = IF "url" \in Deciding \cup {"chunk"} THEN [last EXCEPT !["url"] = a] ELSE last
    BY <1>1, <1>2, HeardOfOne
  <2> QED
    BY <1>2, <2>1 DEF LinkInv, LinkTypeOK, WarningsKept, Quiet, Clear, Deciding
<1>11. RiskCodesKept'
  BY <1>2 DEF RiskCodesKept
<1> QED
  BY <1>7, <1>8, <1>9, <1>10, <1>11 DEF LinkInv

LEMMA ReturnKeeps ==
  ASSUME LinkInv, NEW l \in Legs, Return(l)
  PROVE  LinkInv'
<1>1. PICK a \in Answers, result \in {"ok", "NoSong", "Api", "Panic", "RateLimited",
                                      "AuthExpired", "UrlUnavailable"} :
        /\ result \in Results(l, a) /\ ~StepsDown(l, result) /\ Heard(l, a)
        /\ leg' = [k \in Legs |-> IF k \in Following(l, result) THEN "asking"
                                  ELSE IF k = l THEN result ELSE leg[k]]
        /\ chunks' = IF Following(l, result) = {"chunk"} THEN chunks - 1 ELSE chunks
        /\ reply' = IF result = "Panic" THEN "Panic" ELSE reply
  BY DEF Return
<1>2. /\ LinkTypeOK /\ CallsInv /\ ClimbInv /\ reply = "none" /\ leg[l] = "asking" /\ ~Unasked
      /\ UNCHANGED <<request, rungs>> /\ tries' = [tries EXCEPT ![l] = 0]
      /\ request \in Requests
  BY DEF LinkInv, LinkTypeOK, Return, Sent, Unasked
<1>3. /\ result \in {"ok", "NoSong", "Api", "Panic", "RateLimited", "AuthExpired", "UrlUnavailable"}
      /\ result = "NoSong" => l = "detail"
      /\ result = "UrlUnavailable" => l = "url" /\ a = "blank"
      /\ result = "ok" /\ l = "url" => a = "good"
      /\ result \in {"Api", "UrlUnavailable", "NoSong"} => a \notin Warning
      /\ result \in {"ok", "NoSong"} /\ l # "chunk" => a \notin Warning \cup Unread
  BY <1>1, ResultsAre
<1>4. /\ Following(l, result) \subseteq Legs /\ Following(l, result) \subseteq Calls(request.kind)
      /\ Following(l, result) = {"chunk"} => chunks > 0
  BY <1>3, FollowingAre
<1>5. ~Unasked'
  BY <1>1, <1>3 DEF Unasked
<1>6. LinkTypeOK'
  <2>1. tries' \in [Legs -> 0..(MaxAttempts - 1)]
    BY <1>2, AttemptsAssumption DEF LinkTypeOK
  <2>2. chunks' \in 0..Chunks
    BY <1>1, <1>2, <1>4, AttemptsAssumption DEF LinkTypeOK
  <2>3. leg' \in [Legs -> {"off", "asking", "ok", "NoSong", "Validation", "Api", "Panic",
                       "RateLimited", "AuthExpired", "UrlUnavailable"}]
    BY <1>1, <1>2, <1>3 DEF LinkTypeOK
  <2> QED
    BY <1>1, <1>2, <2>1, <2>2, <2>3, HeardOfOne DEF LinkTypeOK
<1>7. CallsInv'
  <2>1. Opening(request.kind) \subseteq Legs
    BY <1>2, OpeningAre
  <2> QED
    BY <1>1, <1>2, <1>3, <1>4, <1>5, <2>1 DEF CallsInv
<1>8. ClimbInv'
  <2>1. PICK k \in DOMAIN Rungs(request) : HeardAt(k, l, a)
    BY <1>1, <1>2, HeardOfOne
  <2>2. Rungs(request)' = Rungs(request)
    BY <1>2 DEF Rungs, Ladder
  <2>3. CASE l # "url"
    <3>1. heard' = heard /\ (leg'["url"] = leg["url"] \/ leg'["url"] = "asking")
      BY <1>1, <2>1, <2>3 DEF Legs, HeardAt
    <3> QED
      BY <1>2, <1>5, <3>1, ClimbStays
  <2>4. CASE l = "url"
    <3>1. heard'[Rungs(request)[k]] = a
      BY <1>2, <2>1, <2>4 DEF LinkTypeOK, HeardAt
    <3>2. leg'["url"] = "ok" => a = "good"
      BY <1>1, <1>3, <2>4
    <3>3. leg'["url"] = "UrlUnavailable" => a = "blank" /\ Tail(rungs) = <<>>
      BY <1>1, <1>3, <2>4 DEF StepsDown
    <3>4. Tail(rungs) = <<>> => k = Len(Rungs(request))
      <4>1. Rungs(request) \in Seq(Qualities) /\ Len(Rungs(request)) \in Nat
        BY <1>2, RungsSound
      <4>2. CASE k # Len(Rungs(request))
        <5>0. Tail(rungs) = SubSeq(Rungs(request), k + 1, Len(Rungs(request)))
          BY <2>1 DEF HeardAt
        <5>1. Len(SubSeq(Rungs(request), k + 1, Len(Rungs(request)))) # 0
          BY <2>1, <4>1, <4>2, SubSeqProperties DEF HeardAt
        <5>2. Len(<<>>) = 0
          OBVIOUS
        <5>3. Tail(rungs) # <<>>
          BY <5>0, <5>1, <5>2, Zenon
        <5> QED
          BY <5>3
      <4> QED
        BY <4>2
    <3>5. Descended(k)'
      BY <1>2, <2>1, <2>2, <3>1, <3>2, <3>3, <3>4 DEF Descended, HeardAt
    <3> QED
      BY <1>5, <2>2, <3>5 DEF ClimbInv
  <2> QED
    BY <2>3, <2>4
<1>9. WarningsKept'
  <2>1. /\ last' = IF l \in Deciding \cup {"chunk"} THEN [last EXCEPT ![l] = a] ELSE last
        /\ last \in [Legs -> Answers \cup {"none"}]
    BY <1>1, <1>2, HeardOfOne DEF LinkTypeOK
  <2>2. Deciding \subseteq Legs /\ "chunk" \notin Deciding /\ "chunk" \in Legs /\ Deciding' = Deciding
    BY <1>2, OpeningAre DEF Deciding, Legs
  <2>3. ASSUME NEW k \in Deciding \cup {"chunk"}
        PROVE  /\ leg'[k] \in {"Api", "UrlUnavailable", "NoSong"} => last'[k] \notin Warning
               /\ k # "chunk" /\ leg'[k] \in {"ok", "NoSong"} => last'[k] \notin Warning \cup Unread
    <3>1. CASE k = l
      BY <1>1, <1>3, <2>1, <2>2, <3>1
    <3>2. CASE k # l
      BY <1>1, <2>1, <2>2, <3>2 DEF LinkInv, WarningsKept, Quiet, Clear
    <3> QED
      BY <3>1, <3>2
  <2> QED
    BY <2>2, <2>3 DEF WarningsKept, Quiet, Clear
<1>10. RiskCodesKept'
  BY <1>1, <1>2 DEF RiskCodesKept
<1> QED
  BY <1>6, <1>7, <1>8, <1>9, <1>10 DEF LinkInv

LEMMA LinkStays ==
  ASSUME LinkInv, UNCHANGED linkVars
  PROVE  LinkInv'
<1> USE DEF linkVars, LinkInv
<1>1. LinkTypeOK' /\ CallsInv'
  BY DEF LinkTypeOK, CallsInv, Unasked
<1>2. ClimbInv'
  BY ClimbKept
<1>3. WarningsKept' /\ RiskCodesKept'
  BY DEF WarningsKept, RiskCodesKept, Quiet, Clear, Deciding
<1> QED
  BY <1>1, <1>2, <1>3

LEMMA NextLinks == LinkInv /\ [LinkNext]_linkVars => LinkInv'
BY AnswerKeeps, BeginKeeps, InvalidIdKeeps, RetryKeeps, StepDownKeeps, ReturnKeeps, LinkStays
   DEF LinkNext

THEOREM LinkInvariant == LinkSpec => []LinkInv
BY InitLinks, NextLinks, PTL DEF LinkSpec

(* The best acceptable quality, whatever the service asked answers at any  *)
(* attempt: none above the rung at hand has a link, none below is asked    *)
(* for, and "unavailable" is said of all of them.                          *)
THEOREM BestIsServed == LinkSpec => []BestAvailable
<1>1. LinkInv => BestAvailable
  BY Climbed DEF LinkInv
<1> QED
  BY <1>1, LinkInvariant, PTL

(* No sequence of answers gets a sign of risk control or of an expired     *)
(* login past the calls that decide the reply as "ok", nor, where the      *)
(* client reads it, as an error that does not name it.                     *)
THEOREM WarningsReachCallers == LinkSpec => []RiskCodesKept
<1>1. LinkInv => RiskCodesKept
  BY DEF LinkInv
<1> QED
  BY <1>1, LinkInvariant, PTL

(* Every variable of SongLinks keeps its type.                             *)
THEOREM LinksTypeCorrect == LinkSpec => []LinkTypeOK
<1>1. LinkInv => LinkTypeOK
  BY DEF LinkInv
<1> QED
  BY <1>1, LinkInvariant, PTL

-----------------------------------------------------------------------------
(* The services side by side.                                              *)

LEMMA SideBySide ==
  MCSpec => LinkSpec /\ AdminSpec /\ StatSpec /\ BucketSpec /\ CoverSpec
<1>1. MCInit => LinkInit /\ AdminInit /\ StatInit /\ BucketInit /\ CoverInit
  BY DEF MCInit
<1>2. [MCNext]_serviceVars =>
        /\ [LinkNext]_linkVars /\ [AdminNext]_adminVars /\ [StatNext]_statVars
        /\ [BucketNext]_bucketVars /\ [CoverNext]_coverVars
  BY DEF MCNext, serviceVars
<1> QED
  BY <1>1, <1>2, PTL DEF MCSpec, LinkSpec, AdminSpec, StatSpec, BucketSpec, CoverSpec

(* Every variable of every service keeps its type.                         *)
THEOREM ServicesTypeCorrect == MCSpec => []ServicesTypeOK
<1>1. AdminInv /\ StatInv /\ BucketInv /\ CoverInv =>
        AdminTypeOK /\ StatTypeOK /\ BucketTypeOK /\ CoverTypeOK
  BY DEF AdminInv, StatInv, BucketInv, CoverInv
<1>2. LinkTypeOK /\ AdminTypeOK /\ StatTypeOK /\ BucketTypeOK /\ CoverTypeOK => ServicesTypeOK
  BY DEF ServicesTypeOK
<1> QED
  BY <1>1, <1>2, SideBySide, LinksTypeCorrect, AdminInvariant, StatInvariant, BucketInvariant,
     CoverInvariant, PTL

(* Neither the rate limiter nor the cover cache outgrows its bound, but by *)
(* one entry for each call that met another (governor_limiter.rs:55-85,    *)
(* cover_cache.rs:33-36,76-94).                                            *)
THEOREM CachesStayBounded == MCSpec => []CachesBounded
<1>1. BucketsBounded /\ CoversBounded => CachesBounded
  BY DEF CachesBounded
<1> QED
  BY <1>1, SideBySide, BucketsStayBounded, CoversStayBounded, PTL
=============================================================================
