----------------------- MODULE ASNetworkImageNodeProofs -----------------------
(***************************************************************************)
(* Proofs about ASNetworkImageNode for any nodes, URLs and bounds: that     *)
(* nothing shows out of the preload range, and that the image is that of    *)
(* the URL where downloads have identifiers and the URL does not change     *)
(* during a cache lookup.                                                   *)
(***************************************************************************)
EXTENDS ASNetworkImageNode, SequenceTheorems, TLAPS

IsOverNodes(f) == f = [n \in Node |-> f[n]]

PreloadInv == preload \in [Node -> BOOLEAN] /\ IsOverNodes(image) /\ NoImageOutOfPreload

(* Only a node in the preload range takes an image, and whoever leaves it   *)
(* is cleared before the main thread does anything else.                    *)
LEMMA PreloadStep ==
  ASSUME PreloadInv, [Next]_vars
  PROVE  PreloadInv'
<1> USE DEF PreloadInv
<1>1. CASE UNCHANGED <<preload, image, main>>
  BY <1>1 DEF NoImageOutOfPreload, IsOverNodes
<1>2. ASSUME NEW n \in Node, enterPreload(n) \/ exitPreload(n) PROVE PreloadInv'
  <2>1. UNCHANGED image /\ main = Idle
    BY <1>2 DEF enterPreload, exitPreload, event
  <2>2. CASE enterPreload(n)
    <3>1. preload' = [preload EXCEPT ![n] = TRUE] /\ main # [do |-> "clear", node |-> n]
      BY <2>1, <2>2 DEF enterPreload, Idle
    <3>2. \A m \in Node : main # [do |-> "clear", node |-> m]
      BY <2>1 DEF Idle
    <3> QED
      BY <2>1, <3>1, <3>2 DEF NoImageOutOfPreload, IsOverNodes
  <2>3. CASE exitPreload(n)
    <3>1. preload' = [preload EXCEPT ![n] = FALSE] /\ main' = [do |-> "clear", node |-> n]
      BY <2>3 DEF exitPreload
    <3>2. \A m \in Node : main # [do |-> "clear", node |-> m]
      BY <2>1 DEF Idle
    <3> QED
      BY <2>1, <3>1, <3>2 DEF NoImageOutOfPreload, IsOverNodes
  <2> QED
    BY <1>2, <2>2, <2>3
<1>3. ASSUME NEW n \in Node, NEW u \in URL \cup {NoImage}, setURL(n, u) PROVE PreloadInv'
  <2>1. UNCHANGED preload /\ main = Idle /\ image' = [image EXCEPT ![n] = NoImage]
    BY <1>3 DEF setURL, event, resetImage
  <2>2. \A m \in Node : main # [do |-> "clear", node |-> m]
    BY <2>1 DEF Idle
  <2>3. IsOverNodes(image') /\ \A m \in Node : image'[m] = IF m = n THEN NoImage ELSE image[m]
    BY <2>1 DEF IsOverNodes
  <2>4. IsOverNodes(image)' /\ preload' \in [Node -> BOOLEAN]
    BY <2>1, <2>3 DEF IsOverNodes
  <2>5. NoImageOutOfPreload'
    BY <2>1, <2>2, <2>3 DEF NoImageOutOfPreload
  <2> QED
    BY <2>4, <2>5
<1>4. ASSUME NEW n \in Node, lazilyLoadImageIfNecessary(n) \/ lookUp(n) PROVE PreloadInv'
  <2>1. UNCHANGED <<preload, image>> /\ \A m \in Node : main # [do |-> "clear", node |-> m]
    BY <1>4 DEF lazilyLoadImageIfNecessary, lookUp, nodeVars
  <2> QED
    BY <2>1 DEF NoImageOutOfPreload, IsOverNodes
<1>5. ASSUME NEW n \in Node, clearImage(n) PROVE PreloadInv'
  <2>1. UNCHANGED preload /\ main = [do |-> "clear", node |-> n] /\ image' = [image EXCEPT ![n] = NoImage]
    BY <1>5 DEF clearImage, resetImage
  <2>2. \A m \in Node : m # n => main # [do |-> "clear", node |-> m]
    BY <2>1
  <2>3. IsOverNodes(image') /\ \A m \in Node : image'[m] = IF m = n THEN NoImage ELSE image[m]
    BY <2>1 DEF IsOverNodes
  <2>4. IsOverNodes(image)' /\ preload' \in [Node -> BOOLEAN]
    BY <2>1, <2>3 DEF IsOverNodes
  <2>5. NoImageOutOfPreload'
    BY <2>1, <2>2, <2>3 DEF NoImageOutOfPreload
  <2> QED
    BY <2>4, <2>5
<1>6. ASSUME NEW a \in answers, finished(a) PROVE PreloadInv'
  <2>1. UNCHANGED <<preload, main>>
    BY <1>6 DEF finished, workVars
  <2>2. UNCHANGED image \/ (preload[a.node] /\ image' = [image EXCEPT ![a.node] = a.image])
    BY <1>6 DEF finished, Shows
  <2>3. \/ UNCHANGED image
        \/ /\ preload[a.node] /\ IsOverNodes(image')
           /\ \A m \in Node : image'[m] = IF m = a.node THEN a.image ELSE image[m]
    BY <2>2 DEF IsOverNodes
  <2>4. IsOverNodes(image)' /\ preload' \in [Node -> BOOLEAN]
    BY <2>1, <2>3 DEF IsOverNodes
  <2>5. NoImageOutOfPreload'
    BY <2>1, <2>3 DEF NoImageOutOfPreload
  <2> QED
    BY <2>4, <2>5
<1>7. ASSUME NEW l \in lookups, cacheHits(l) \/ cacheMisses(l) PROVE PreloadInv'
  BY <1>1, <1>7 DEF cacheHits, cacheMisses, nodeVars
<1>8. ASSUME NEW d \in loading, callDownloader(d) \/ storeIdentifier(d) \/ cancelAndReattempt(d)
      PROVE PreloadInv'
  BY <1>1, <1>8 DEF callDownloader, storeIdentifier, cancelAndReattempt, nodeVars
<1>9. ASSUME UNCHANGED <<nodeVars, workVars>> PROVE PreloadInv'
  BY <1>1, <1>9 DEF nodeVars, workVars
<1> QED
  BY <1>1, <1>2, <1>3, <1>4, <1>5, <1>6, <1>7, <1>8, <1>9
     DEF Next, App, MainThread, Loading, Downloader, Network, Others, vars

(* Nothing late, of cache or downloader, gives a node out of the preload    *)
(* range an image, shared requests or not, whatever the URL does.           *)
THEOREM NothingOutOfPreload == Spec => []NoImageOutOfPreload
<1>1. Init => PreloadInv
  BY DEF Init, PreloadInv, IsOverNodes, NoImageOutOfPreload
<1>2. PreloadInv /\ [Next]_vars => PreloadInv'
  BY PreloadStep
<1>3. PreloadInv => NoImageOutOfPreload
  BY DEF PreloadInv
<1> QED
  BY <1>1, <1>2, <1>3, PTL DEF Spec

-----------------------------------------------------------------------------
(* Downloads with identifiers, and no change of the URL during a lookup.    *)

Context == [url : URL \cup {NoImage}, invalid : BOOLEAN, callbackDatas : SUBSET Nat, sessionTask : Nat]

Request == [node : Node \cup {Other}, context : Nat,
            block : {"dispatched", "added", "created", "ended"},
            task : {"none", "suspended", "running", "succeeded", "failed", "over"}]

(* What a load remembers of its cause makes no difference.                  *)
IsLoad(d) ==
  d \in [node : Node, do : {"read", "store", "cancel"}, url : URL \cup {NoImage}, request : Nat,
         cause : {d.cause}]

DownloaderTypes ==
  /\ contexts \in Seq(Context) /\ requests \in Seq(Request)
  /\ \A r \in 1 .. Len(requests) : requests[r].context \in 1 .. Len(contexts)
  /\ \A a \in answers : a.node \in Node /\ a.id \in Nat

NodeTypes ==
  /\ url \in [Node -> URL \cup {NoImage}] /\ image \in [Node -> URL \cup {NoImage}]
  /\ downloadIdentifier \in [Node -> Nat]
  /\ \A l \in lookups : l.node \in Node
  /\ \A d \in loading : IsLoad(d)

(* What comes is of the URL, or of the context that it names.               *)
ComesOf(a) ==
  IF a.id = 0 THEN a.request = 0 /\ a.image = url[a.node] /\ a.image \in URL \cup {NoImage}
  ELSE a.id \in 1 .. Len(contexts) /\ a.image \in {NoImage, contexts[a.id].url}

IsFor(c, u) == c \in 1 .. Len(contexts) /\ contexts[c].url = u

IsRequestFor(r, u) == r \in 1 .. Len(requests) /\ IsFor(requests[r].context, u)

AnswersMatch == \A a \in answers : ComesOf(a)
LookupsMatch == \A l \in lookups : l.url = url[l.node]
LoadsMatch == \A d \in loading : d.do # "read" => IsRequestFor(d.request, d.url)
IdentifiersMatch == \A n \in Node : downloadIdentifier[n] # 0 => IsFor(downloadIdentifier[n], url[n])
ImagesMatch == \A n \in Node : image[n] \in {NoImage, url[n]}

UrlInv ==
  /\ DownloaderTypes /\ NodeTypes
  /\ AnswersMatch /\ LookupsMatch /\ LoadsMatch /\ IdentifiersMatch /\ ImagesMatch

(* Contexts keep their URLs and requests their contexts.                    *)
Grows ==
  /\ contexts' \in Seq(Context) /\ requests' \in Seq(Request)
  /\ Len(contexts) <= Len(contexts') /\ Len(requests) <= Len(requests')
  /\ \A c \in 1 .. Len(contexts) : contexts'[c].url = contexts[c].url
  /\ \A r \in 1 .. Len(requests) : requests'[r].context = requests[r].context
  /\ \A r \in 1 .. Len(requests') : requests'[r].context \in 1 .. Len(contexts')

LEMMA SequencePut ==
  ASSUME NEW S, NEW s \in Seq(S), NEW t \in [DOMAIN s -> S]
  PROVE  t \in Seq(S) /\ Len(t) = Len(s)
<1>1. Len(s) \in Nat /\ DOMAIN s = 1 .. Len(s)
  BY LenProperties
<1>2. t \in Seq(S)
  BY <1>1, SeqDef
<1> QED
  BY <1>1, <1>2, LenProperties

(* A step that replaces contexts and requests by others of the same URL and *)
(* context.                                                                 *)
LEMMA PutGrows ==
  ASSUME DownloaderTypes,
         contexts' \in [DOMAIN contexts -> Context], requests' \in [DOMAIN requests -> Request],
         \A c \in DOMAIN contexts : contexts'[c].url = contexts[c].url,
         \A r \in DOMAIN requests : requests'[r].context = requests[r].context
  PROVE  Grows
<1>1. /\ DOMAIN contexts = 1 .. Len(contexts) /\ DOMAIN requests = 1 .. Len(requests)
      /\ Len(contexts) \in Nat /\ Len(requests) \in Nat
  BY LenProperties DEF DownloaderTypes
<1>2. contexts' \in Seq(Context) /\ Len(contexts') = Len(contexts)
  BY SequencePut DEF DownloaderTypes
<1>3. requests' \in Seq(Request) /\ Len(requests') = Len(requests)
  BY SequencePut DEF DownloaderTypes
<1>4. \A r \in 1 .. Len(requests) : requests[r].context \in 1 .. Len(contexts)
  BY DEF DownloaderTypes
<1>5. \A r \in 1 .. Len(requests') : requests'[r].context \in 1 .. Len(contexts')
  BY <1>1, <1>2, <1>3, <1>4
<1>6. Len(contexts) <= Len(contexts') /\ Len(requests) <= Len(requests')
  BY <1>1, <1>2, <1>3
<1> QED
  BY <1>1, <1>2, <1>3, <1>5, <1>6 DEF Grows

LEMMA DomainFacts ==
  ASSUME DownloaderTypes
  PROVE  /\ contexts \in [DOMAIN contexts -> Context] /\ requests \in [DOMAIN requests -> Request]
         /\ DOMAIN contexts = 1 .. Len(contexts) /\ DOMAIN requests = 1 .. Len(requests)
         /\ Len(contexts) \in Nat /\ Len(requests) \in Nat
BY LenProperties DEF DownloaderTypes

LEMMA CallbacksPut ==
  ASSUME NEW x \in Context, NEW K \in SUBSET Nat
  PROVE  /\ [x EXCEPT !.callbackDatas = K] \in Context
         /\ [x EXCEPT !.callbackDatas = K].url = x.url
         /\ [x EXCEPT !.callbackDatas = K, !.sessionTask = 0] \in Context
         /\ [x EXCEPT !.callbackDatas = K, !.sessionTask = 0].url = x.url
BY DEF Context

LEMMA BlockPut ==
  ASSUME NEW x \in Request
  PROVE  /\ [x EXCEPT !.block = "added"] \in Request
         /\ [x EXCEPT !.block = "added"].context = x.context
         /\ [x EXCEPT !.block = "ended"] \in Request
         /\ [x EXCEPT !.block = "ended"].context = x.context
         /\ [x EXCEPT !.block = "created", !.task = "suspended"] \in Request
         /\ [x EXCEPT !.block = "created", !.task = "suspended"].context = x.context
BY DEF Request

LEMMA CancelGrows ==
  ASSUME DownloaderTypes, NEW c, cancel(c)
  PROVE  Grows /\ UNCHANGED answers
<1>1. /\ contexts' = [contexts EXCEPT ![c].invalid = TRUE, ![c].sessionTask = 0]
      /\ requests' = TaskIsCancelled(c) /\ UNCHANGED answers
  BY DEF cancel
<1>2. /\ contexts' \in [DOMAIN contexts -> Context]
      /\ \A k \in DOMAIN contexts : contexts'[k].url = contexts[k].url
  BY <1>1, DomainFacts DEF Context
<1>3. /\ requests' \in [DOMAIN requests -> Request]
      /\ \A r \in DOMAIN requests : requests'[r].context = requests[r].context
  BY <1>1, DomainFacts DEF TaskIsCancelled, Request
<1> QED
  BY <1>1, <1>2, <1>3, PutGrows

LEMMA DownloadGrows ==
  ASSUME DownloaderTypes, ~sharesRequests, NEW n \in Node, NEW u \in URL \cup {NoImage}, downloadImage(n, u)
  PROVE  /\ Grows /\ UNCHANGED answers
         /\ Len(requests') = Len(requests) + 1
         /\ requests'[Len(requests) + 1].context \in 1 .. Len(contexts')
         /\ contexts'[requests'[Len(requests) + 1].context].url = u
<1> DEFINE new == [node |-> n, context |-> Len(contexts) + 1, block |-> "ended", task |-> "running"]
<1>1. contexts' = Append(contexts, NewContext(u)) /\ requests' = Append(requests, new) /\ UNCHANGED answers
  <2>1. contextForURL(u) = Len(contexts) + 1
    BY DEF contextForURL
  <2>2. ~(Len(contexts) + 1 <= Len(contexts))
    BY DomainFacts
  <2> QED
    BY <2>1, <2>2 DEF downloadImage
<1>2. NewContext(u) \in Context /\ NewContext(u).url = u /\ new \in Request /\ new.context = Len(contexts) + 1
  BY DomainFacts DEF NewContext, Context, Request
<1> HIDE DEF new
<1>3. /\ contexts' \in Seq(Context) /\ Len(contexts') = Len(contexts) + 1
      /\ \A c \in 1 .. Len(contexts) : contexts'[c] = contexts[c]
      /\ contexts'[Len(contexts) + 1] = NewContext(u)
  BY <1>1, <1>2, AppendProperties DEF DownloaderTypes
<1>4. /\ requests' \in Seq(Request) /\ Len(requests') = Len(requests) + 1
      /\ \A r \in 1 .. Len(requests) : requests'[r] = requests[r]
      /\ requests'[Len(requests) + 1] = new
  BY <1>1, <1>2, AppendProperties DEF DownloaderTypes
<1>5. Len(contexts) \in Nat /\ Len(requests) \in Nat
  BY DomainFacts
<1>6. \A r \in 1 .. Len(requests') : requests'[r].context \in 1 .. Len(contexts')
  BY <1>2, <1>3, <1>4, <1>5 DEF DownloaderTypes
<1>7. Grows
  BY <1>3, <1>4, <1>5, <1>6 DEF Grows
<1>8. /\ requests'[Len(requests) + 1].context \in 1 .. Len(contexts')
      /\ contexts'[requests'[Len(requests) + 1].context].url = u
  BY <1>2, <1>3, <1>4, <1>5
<1> QED
  BY <1>1, <1>4, <1>7, <1>8

(* What a context answers names it and is of its URL.                       *)
NewAnswersMatch ==
  \A a \in answers' : \/ a \in answers
                      \/ /\ a.node \in Node /\ a.id \in 1 .. Len(contexts)
                         /\ a.image \in {NoImage, contexts[a.id].url}

LEMMA CompleteGrows ==
  ASSUME DownloaderTypes, ~sharesRequests, NEW r \in DOMAIN requests,
         NEW new \in {NoImage, ContextOf(r).url}, complete(requests[r].context, new),
         requests' = [requests EXCEPT ![r].task = "over"]
  PROVE  Grows /\ NewAnswersMatch
<1> DEFINE c == requests[r].context
<1>1. c \in 1 .. Len(contexts) /\ c \in DOMAIN contexts
  BY DomainFacts DEF DownloaderTypes
<1>2. contexts' = [contexts EXCEPT ![c].callbackDatas = {}, ![c].sessionTask = 0]
  BY DEF complete
<1> DEFINE put == [contexts[c] EXCEPT !.callbackDatas = {}, !.sessionTask = 0]
<1>7. put \in Context /\ put.url = contexts[c].url
  BY <1>1, DomainFacts, CallbacksPut
<1>8. /\ DOMAIN contexts' = DOMAIN contexts /\ contexts' = [k \in DOMAIN contexts |-> contexts'[k]]
      /\ \A k \in DOMAIN contexts : contexts'[k] = IF k = c THEN put ELSE contexts[k]
  BY <1>1, <1>2, DomainFacts
<1> HIDE DEF put
<1>3. /\ contexts' \in [DOMAIN contexts -> Context]
      /\ \A k \in DOMAIN contexts : contexts'[k].url = contexts[k].url
  BY <1>7, <1>8, DomainFacts
<1>4. /\ requests' \in [DOMAIN requests -> Request]
      /\ \A k \in DOMAIN requests : requests'[k].context = requests[k].context
  BY DomainFacts DEF Request
<1>5. Grows
  BY <1>3, <1>4, PutGrows
<1>6. \A a \in answers' : a \in answers \/ (a.node \in Node /\ a.id = c /\ a.image = new)
  BY DEF complete
<1> QED
  BY <1>1, <1>5, <1>6 DEF NewAnswersMatch, ContextOf

LEMMA DownloaderGrows ==
  ASSUME DownloaderTypes, ~sharesRequests, NEW r \in DOMAIN requests,
         DownloadStep(r) \/ failTask(r) \/ otherCancels(r)
  PROVE  Grows /\ NewAnswersMatch
<1>1. CASE otherCancels(r)
  BY <1>1, CancelGrows DEF otherCancels, NewAnswersMatch
<1>2. CASE didFinishDownloading(r) /\ ~ContextOf(r).invalid
  <2>1. complete(requests[r].context, ContextOf(r).url) /\ requests' = [requests EXCEPT ![r].task = "over"]
    BY <1>2 DEF didFinishDownloading
  <2> QED
    BY <2>1, CompleteGrows
<1>3. CASE didCompleteWithError(r)
  <2>1. complete(requests[r].context, NoImage) /\ requests' = [requests EXCEPT ![r].task = "over"]
    BY <1>3 DEF didCompleteWithError
  <2> QED
    BY <2>1, CompleteGrows
<1>4. ASSUME UNCHANGED answers,
             contexts' \in [DOMAIN contexts -> Context],
             \A k \in DOMAIN contexts : contexts'[k].url = contexts[k].url,
             requests' \in [DOMAIN requests -> Request],
             \A k \in DOMAIN requests : requests'[k].context = requests[k].context
      PROVE Grows /\ NewAnswersMatch
  BY <1>4, PutGrows DEF NewAnswersMatch
<1>5. CASE addCallbackData(r)
  <2>1. /\ UNCHANGED answers
        /\ requests' = [requests EXCEPT ![r].block = "added"]
        /\ contexts' = [contexts EXCEPT ![requests[r].context].callbackDatas = @ \cup {r}]
    BY <1>5 DEF addCallbackData
  <2> DEFINE c == requests[r].context
  <2>2. r \in Nat /\ c \in DOMAIN contexts
    BY DomainFacts DEF DownloaderTypes
  <2> DEFINE put == [contexts[c] EXCEPT !.callbackDatas = @ \cup {r}]
  <2>5. contexts[c].callbackDatas \in SUBSET Nat /\ contexts[c] \in Context
    BY <2>2, DomainFacts DEF Context
  <2>6. put \in Context /\ put.url = contexts[c].url
    BY <2>2, <2>5, CallbacksPut
  <2>7. /\ DOMAIN contexts' = DOMAIN contexts /\ contexts' = [k \in DOMAIN contexts |-> contexts'[k]]
        /\ \A k \in DOMAIN contexts : contexts'[k] = IF k = c THEN put ELSE contexts[k]
    BY <2>1, <2>2, DomainFacts
  <2> HIDE DEF put
  <2>3. /\ contexts' \in [DOMAIN contexts -> Context]
        /\ \A k \in DOMAIN contexts : contexts'[k].url = contexts[k].url
    BY <2>6, <2>7, DomainFacts
  <2>4. /\ requests' \in [DOMAIN requests -> Request]
        /\ \A k \in DOMAIN requests : requests'[k].context = requests[k].context
    BY <2>1, DomainFacts, BlockPut
  <2> QED
    BY <1>4, <2>1, <2>3, <2>4
<1>6. CASE createSessionTaskIfNecessary(r)
  <2> DEFINE c == requests[r].context
             put == [contexts[c] EXCEPT !.sessionTask = r]
             created == [requests[r] EXCEPT !.block = "created", !.task = "suspended"]
  <2>1. r \in Nat /\ requests[r] \in Request /\ c \in DOMAIN contexts /\ contexts[c] \in Context
    BY DomainFacts DEF DownloaderTypes
  <2>2. put \in Context /\ put.url = contexts[c].url
    BY <2>1 DEF Context
  <2>3. created \in Request /\ created.context = requests[r].context
    BY <2>1, BlockPut
  <2>4. CASE /\ requests' = [requests EXCEPT ![r].block = "ended"]
             /\ UNCHANGED <<answers, contexts>>
    <3>1. /\ requests' \in [DOMAIN requests -> Request]
          /\ \A k \in DOMAIN requests : requests'[k].context = requests[k].context
      BY <2>4, DomainFacts, BlockPut
    <3> QED
      BY <1>4, <2>4, <3>1, DomainFacts
  <2>5. CASE /\ requests' = [requests EXCEPT ![r].block = "created", ![r].task = "suspended"]
             /\ contexts' = [contexts EXCEPT ![c].sessionTask = r] /\ UNCHANGED answers
    <3>1. /\ DOMAIN contexts' = DOMAIN contexts /\ contexts' = [k \in DOMAIN contexts |-> contexts'[k]]
          /\ \A k \in DOMAIN contexts : contexts'[k] = IF k = c THEN put ELSE contexts[k]
      BY <2>1, <2>5, DomainFacts
    <3>2. /\ DOMAIN requests' = DOMAIN requests /\ requests' = [k \in DOMAIN requests |-> requests'[k]]
          /\ \A k \in DOMAIN requests : requests'[k] = IF k = r THEN created ELSE requests[k]
      BY <2>1, <2>5, DomainFacts
    <3> HIDE DEF put, created
    <3>3. /\ contexts' \in [DOMAIN contexts -> Context]
          /\ \A k \in DOMAIN contexts : contexts'[k].url = contexts[k].url
      BY <2>2, <3>1, DomainFacts
    <3>4. /\ requests' \in [DOMAIN requests -> Request]
          /\ \A k \in DOMAIN requests : requests'[k].context = requests[k].context
      BY <2>3, <3>2, DomainFacts
    <3> QED
      BY <1>4, <2>5, <3>3, <3>4
  <2> QED
    BY <1>6, <2>4, <2>5 DEF createSessionTaskIfNecessary
<1>7. CASE resume(r)
  <2> DEFINE put == [requests[r] EXCEPT !.block = "ended", !.task = IF @ = "suspended" THEN "running" ELSE @]
  <2>1. requests[r] \in Request /\ UNCHANGED <<answers, contexts>>
    BY <1>7, DomainFacts DEF resume
  <2>2. put \in Request /\ put.context = requests[r].context
    BY <2>1 DEF Request
  <2>3. /\ DOMAIN requests' = DOMAIN requests /\ requests' = [k \in DOMAIN requests |-> requests'[k]]
        /\ \A k \in DOMAIN requests : requests'[k] = IF k = r THEN put ELSE requests[k]
    BY <1>7, DomainFacts DEF resume
  <2> HIDE DEF put
  <2>4. /\ requests' \in [DOMAIN requests -> Request]
        /\ \A k \in DOMAIN requests : requests'[k].context = requests[k].context
    BY <2>2, <2>3, DomainFacts
  <2> QED
    BY <1>4, <2>1, <2>4, DomainFacts
<1>8. CASE finishTask(r) \/ failTask(r) \/ (didFinishDownloading(r) /\ ContextOf(r).invalid)
  <2>1. /\ UNCHANGED <<answers, contexts>>
        /\ \E task \in {"succeeded", "failed", "over"} : requests' = [requests EXCEPT ![r].task = task]
    BY <1>8 DEF finishTask, failTask, didFinishDownloading
  <2>2. /\ requests' \in [DOMAIN requests -> Request]
        /\ \A k \in DOMAIN requests : requests'[k].context = requests[k].context
    BY <2>1, DomainFacts DEF Request
  <2> QED
    BY <1>4, <2>1, <2>2, DomainFacts
<1> QED
  BY <1>1, <1>2, <1>3, <1>5, <1>6, <1>7, <1>8 DEF DownloadStep

(* What matches goes on matching as long as the URL stays.                  *)
LEMMA Kept ==
  ASSUME DownloaderTypes, Grows
  PROVE  /\ \A a \in answers : ComesOf(a) /\ url'[a.node] = url[a.node] => ComesOf(a)'
         /\ \A c, u : IsFor(c, u) => IsFor(c, u)'
         /\ \A r, u : IsRequestFor(r, u) => IsRequestFor(r, u)'
         /\ (\A a \in answers' : a.node \in Node /\ a.id \in Nat) => DownloaderTypes'
<1>1. /\ Len(contexts) \in Nat /\ Len(requests) \in Nat
      /\ Len(contexts') \in Nat /\ Len(requests') \in Nat
  BY DomainFacts, LenProperties DEF Grows
<1>2. \A c, u : IsFor(c, u) => IsFor(c, u)'
  BY <1>1 DEF IsFor, Grows
<1>3. \A r, u : IsRequestFor(r, u) => IsRequestFor(r, u)'
  BY <1>1, <1>2 DEF IsRequestFor, Grows
<1>4. \A a \in answers : ComesOf(a) /\ url'[a.node] = url[a.node] => ComesOf(a)'
  BY <1>1 DEF ComesOf, Grows
<1>5. (\A a \in answers' : a.node \in Node /\ a.id \in Nat) => DownloaderTypes'
  BY DEF Grows, DownloaderTypes
<1> QED
  BY <1>2, <1>3, <1>4, <1>5

LEMMA StaysGrows ==
  ASSUME DownloaderTypes, UNCHANGED <<contexts, requests>>
  PROVE  Grows
BY DomainFacts DEF Grows, DownloaderTypes

(* The downloader goes on by itself.                                        *)
LEMMA DownloaderUrl ==
  ASSUME UrlInv, Grows, NewAnswersMatch,
         UNCHANGED <<url, image, downloadIdentifier, lookups, loading>>
  PROVE  UrlInv'
<1> USE DEF UrlInv
<1>1. NodeTypes' /\ LookupsMatch' /\ ImagesMatch'
  BY DEF NodeTypes, LookupsMatch, ImagesMatch
<1>2. IdentifiersMatch' /\ LoadsMatch'
  BY Kept DEF IdentifiersMatch, LoadsMatch
<1>3. \A a \in answers' : \/ a \in answers
                         \/ /\ a.node \in Node /\ a.id \in 1 .. Len(contexts')
                            /\ a.image \in {NoImage, contexts'[a.id].url}
  <2>1. \A c \in 1 .. Len(contexts) : c \in 1 .. Len(contexts')
    BY DomainFacts, LenProperties DEF Grows
  <2> QED
    BY <2>1 DEF NewAnswersMatch, Grows
<1>4. DownloaderTypes'
  <2>1. \A a \in answers' : a.node \in Node /\ a.id \in Nat
    BY <1>3, LenProperties DEF DownloaderTypes, Grows
  <2> QED
    BY <2>1, Kept
<1>5. AnswersMatch'
  <2>1. ASSUME NEW a \in answers', a \in answers PROVE ComesOf(a)'
    BY <2>1, Kept DEF AnswersMatch
  <2>2. ASSUME NEW a \in answers', a \notin answers PROVE ComesOf(a)'
    BY <1>3, <2>2 DEF ComesOf
  <2> QED
    BY <2>1, <2>2 DEF AnswersMatch
<1> QED
  BY <1>1, <1>2, <1>4, <1>5

(* The node gives up its download, which cancels for the identifier.        *)
LEMMA CancelUrl ==
  ASSUME UrlInv, NEW n \in Node, cancelImageDownload(n)
  PROVE  /\ Grows /\ UNCHANGED answers
         /\ downloadIdentifier' \in [Node -> Nat] /\ downloadIdentifier'[n] = 0
         /\ \A m \in Node \ {n} : downloadIdentifier'[m] = downloadIdentifier[m]
<1> USE DEF UrlInv
<1>1. CASE downloadIdentifier[n] = 0
  BY <1>1, StaysGrows DEF cancelImageDownload, NodeTypes, downloaderVars
<1>2. CASE downloadIdentifier[n] # 0
  <2>1. cancel(downloadIdentifier[n]) /\ downloadIdentifier' = [downloadIdentifier EXCEPT ![n] = 0]
    BY <1>2 DEF cancelImageDownload
  <2>2. Grows /\ UNCHANGED answers
    BY <2>1, CancelGrows
  <2> QED
    BY <2>1, <2>2 DEF NodeTypes
<1> QED
  BY <1>1, <1>2

(* A node that resets its image, and perhaps changes its URL while the      *)
(* cache is not asked.                                                      *)
LEMMA ResetUrl ==
  ASSUME UrlInv, NEW n \in Node, cancelImageDownload(n), resetImage(n),
         UNCHANGED <<lookups, loading>>,
         \/ UNCHANGED url
         \/ ~LooksUp(n) /\ \E u \in URL \cup {NoImage} : url' = [url EXCEPT ![n] = u]
  PROVE  UrlInv'
<1> USE DEF UrlInv
<1>1. /\ Grows /\ UNCHANGED answers
      /\ downloadIdentifier' \in [Node -> Nat] /\ downloadIdentifier'[n] = 0
      /\ \A m \in Node \ {n} : downloadIdentifier'[m] = downloadIdentifier[m]
  BY CancelUrl
<1>2. /\ url' \in [Node -> URL \cup {NoImage}]
      /\ \A m \in Node \ {n} : url'[m] = url[m]
      /\ LooksUp(n) => UNCHANGED url
  BY DEF NodeTypes
<1>3. /\ image' \in [Node -> URL \cup {NoImage}] /\ image'[n] = NoImage
      /\ \A m \in Node \ {n} : image'[m] = image[m]
  BY DEF resetImage, NodeTypes
<1>4. NodeTypes' /\ DownloaderTypes'
  BY <1>1, <1>2, <1>3, Kept DEF NodeTypes, DownloaderTypes
<1>5. ImagesMatch'
  BY <1>2, <1>3 DEF ImagesMatch
<1>6. LoadsMatch'
  BY <1>1, Kept DEF LoadsMatch
<1>7. IdentifiersMatch'
  BY <1>1, <1>2, Kept DEF IdentifiersMatch
<1>8. LookupsMatch'
  BY <1>2 DEF LookupsMatch, LooksUp, NodeTypes
<1>9. AnswersMatch'
  <2>1. ASSUME NEW a \in answers PROVE ComesOf(a)'
    <3>1. CASE a.id = 0
      <4>1. url'[a.node] = url[a.node]
        BY <1>2, <3>1 DEF AnswersMatch, ComesOf, LooksUp, DownloaderTypes
      <4> QED
        BY <1>1, <4>1, Kept DEF AnswersMatch
    <3>2. CASE a.id # 0
      <4>1. a.id \in 1 .. Len(contexts) /\ a.image \in {NoImage, contexts[a.id].url}
        BY <3>2 DEF AnswersMatch, ComesOf
      <4>2. a.id \in 1 .. Len(contexts') /\ contexts'[a.id].url = contexts[a.id].url
        BY <1>1, <4>1, DomainFacts, LenProperties DEF Grows
      <4> QED
        BY <3>2, <4>1, <4>2 DEF ComesOf
    <3> QED
      BY <3>1, <3>2
  <2> QED
    BY <1>1, <2>1 DEF AnswersMatch
<1> QED
  BY <1>4, <1>5, <1>6, <1>7, <1>8, <1>9

LEMMA LoadUrl ==
  ASSUME UrlInv, ~sharesRequests, NEW d \in loading,
         callDownloader(d) \/ storeIdentifier(d) \/ cancelAndReattempt(d)
  PROVE  UrlInv'
<1> USE DEF UrlInv
<1>1. IsLoad(d) /\ d.node \in Node /\ url[d.node] \in URL \cup {NoImage}
  BY DEF NodeTypes, IsLoad
<1>2. UNCHANGED <<url, image, lookups>>
  BY DEF callDownloader, storeIdentifier, cancelAndReattempt, nodeVars
<1>3. ASSUME Grows, UNCHANGED answers, downloadIdentifier' \in [Node -> Nat],
             \A e \in loading' : e \in loading \/ (IsLoad(e) /\ (e.do # "read" => IsRequestFor(e.request, e.url)')),
             IdentifiersMatch'
      PROVE  UrlInv'
  <2>1. DownloaderTypes' /\ AnswersMatch'
    BY <1>2, <1>3, Kept DEF DownloaderTypes, AnswersMatch
  <2>2. NodeTypes' /\ LookupsMatch' /\ ImagesMatch'
    BY <1>2, <1>3 DEF NodeTypes, LookupsMatch, ImagesMatch
  <2>3. LoadsMatch'
    BY <1>3, Kept DEF LoadsMatch
  <2> QED
    BY <1>3, <2>1, <2>2, <2>3
<1>4. CASE callDownloader(d)
  <2> DEFINE to == [d EXCEPT !.do = "store", !.url = url[d.node], !.request = Len(requests) + 1]
  <2>1. downloadImage(d.node, url[d.node]) /\ UNCHANGED downloadIdentifier /\ Goes(d, to)
    BY <1>4 DEF callDownloader, nodeVars
  <2>2. /\ Grows /\ UNCHANGED answers /\ Len(requests') = Len(requests) + 1 /\ Len(requests) \in Nat
        /\ requests'[Len(requests) + 1].context \in 1 .. Len(contexts')
        /\ contexts'[requests'[Len(requests) + 1].context].url = url[d.node]
    BY <1>1, <2>1, DownloadGrows, DomainFacts
  <2>3. PICK e : e = to
    OBVIOUS
  <2>4. loading' = (loading \ {d}) \cup {e}
    BY <2>1, <2>3 DEF Goes
  <2>5. Len(requests) + 1 \in Nat /\ url[d.node] \in URL \cup {NoImage} /\ IsLoad(d)
    BY <1>1, <2>2
  <2>6. /\ IsLoad(e) /\ e.request = Len(requests) + 1 /\ e.url = url[d.node]
        /\ loading' = (loading \ {d}) \cup {e}
    <3>1. PICK r \in Nat, u \in URL \cup {NoImage} : r = Len(requests) + 1 /\ u = url[d.node]
      BY <2>5
    <3>2. e = [d EXCEPT !.do = "store", !.url = u, !.request = r]
      BY <2>3, <3>1
    <3>3. IsLoad(e) /\ e.request = r /\ e.url = u
      BY <2>5, <3>1, <3>2 DEF IsLoad
    <3> QED
      BY <2>4, <3>1, <3>3
  <2> HIDE DEF to
  <2>7. IsRequestFor(e.request, e.url)'
    BY <2>2, <2>6 DEF IsRequestFor, IsFor
  <2>8. IdentifiersMatch'
    BY <1>2, <2>1, <2>2, Kept DEF IdentifiersMatch
  <2> QED
    BY <1>3, <2>1, <2>2, <2>6, <2>7, <2>8 DEF NodeTypes
<1>5. CASE storeIdentifier(d)
  <2>1. UNCHANGED <<contexts, requests, answers>> /\ IsRequestFor(d.request, d.url)
    BY <1>5 DEF storeIdentifier, downloaderVars, LoadsMatch
  <2>2. Grows /\ IsRequestFor(d.request, d.url)'
    BY <2>1, StaysGrows, Kept
  <2>3. CASE url[d.node] = d.url
    <3>1. /\ downloadIdentifier' = [downloadIdentifier EXCEPT ![d.node] = requests[d.request].context]
          /\ loading' = loading \ {d}
      BY <1>5, <2>3 DEF storeIdentifier
    <3>2. requests[d.request].context \in Nat /\ IsFor(requests[d.request].context, url[d.node])
      BY <2>1, <2>3, DomainFacts DEF IsRequestFor, IsFor
    <3>3. downloadIdentifier' \in [Node -> Nat]
      BY <3>1, <3>2 DEF NodeTypes
    <3>4. IdentifiersMatch'
      BY <1>2, <2>1, <3>1, <3>2 DEF IdentifiersMatch, IsFor, NodeTypes
    <3> QED
      BY <1>3, <2>1, <2>2, <3>1, <3>3, <3>4
  <2>4. CASE url[d.node] # d.url
    <3> DEFINE to == [d EXCEPT !.do = "cancel"]
    <3>1. Goes(d, to) /\ UNCHANGED downloadIdentifier
      BY <1>5, <2>4 DEF storeIdentifier
    <3>2. IsLoad(to) /\ to.request = d.request /\ to.url = d.url
      BY <1>1 DEF IsLoad
    <3> HIDE DEF to
    <3>3. IsRequestFor(to.request, to.url)'
      BY <2>2, <3>2
    <3>4. IdentifiersMatch'
      BY <1>2, <2>2, <3>1, Kept DEF IdentifiersMatch
    <3> QED
      BY <1>3, <2>1, <2>2, <3>1, <3>2, <3>3, <3>4 DEF Goes, NodeTypes
  <2> QED
    BY <2>3, <2>4
<1>6. CASE cancelAndReattempt(d)
  <2> DEFINE to == [d EXCEPT !.do = "read"]
  <2>1. cancel(requests[d.request].context) /\ UNCHANGED downloadIdentifier /\ Goes(d, to)
    BY <1>6 DEF cancelAndReattempt, nodeVars
  <2>2. Grows /\ UNCHANGED answers
    BY <2>1, CancelGrows
  <2>3. IsLoad(to) /\ to.do = "read"
    BY <1>1 DEF IsLoad
  <2> HIDE DEF to
  <2>4. IdentifiersMatch'
    BY <1>2, <2>1, <2>2, Kept DEF IdentifiersMatch
  <2> QED
    BY <1>3, <2>1, <2>2, <2>3, <2>4 DEF Goes, NodeTypes
<1> QED
  BY <1>4, <1>5, <1>6

(* A result that names its download shows only if it is the current one.    *)
LEMMA FinishedUrl ==
  ASSUME UrlInv, NEW a \in answers, finished(a)
  PROVE  UrlInv'
<1> USE DEF UrlInv
<1>1. /\ UNCHANGED <<contexts, requests, url, lookups, loading>> /\ answers' = answers \ {a}
      /\ UNCHANGED downloadIdentifier \/ downloadIdentifier' = [downloadIdentifier EXCEPT ![a.node] = 0]
      /\ \/ UNCHANGED image
         \/ ~IsOfOtherDownload(a) /\ a.image # NoImage /\ image' = [image EXCEPT ![a.node] = a.image]
  BY DEF finished, Ends, Shows, workVars
<1>2. Grows
  BY <1>1, StaysGrows
<1>3. DownloaderTypes' /\ AnswersMatch' /\ LoadsMatch' /\ LookupsMatch'
  <2>1. \A b \in answers' : b.node \in Node /\ b.id \in Nat
    BY <1>1 DEF DownloaderTypes
  <2> QED
    BY <1>1, <1>2, <2>1, Kept DEF AnswersMatch, LoadsMatch, LookupsMatch
<1>4. /\ downloadIdentifier' \in [Node -> Nat]
      /\ \A n \in Node : downloadIdentifier'[n] \in {0, downloadIdentifier[n]}
  BY <1>1 DEF NodeTypes
<1>5. IdentifiersMatch'
  BY <1>1, <1>2, <1>4, Kept DEF IdentifiersMatch
<1>6. ~IsOfOtherDownload(a) /\ a.image # NoImage => a.image = url[a.node] /\ a.node \in Node
  BY DEF IsOfOtherDownload, AnswersMatch, ComesOf, IdentifiersMatch, IsFor, DownloaderTypes
<1>7. image' \in [Node -> URL \cup {NoImage}] /\ ImagesMatch'
  BY <1>1, <1>6 DEF NodeTypes, ImagesMatch
<1> QED
  BY <1>1, <1>3, <1>4, <1>5, <1>7 DEF NodeTypes

(* The main thread and the cache, where contexts and requests stay.         *)
LEMMA CacheUrl ==
  ASSUME UrlInv,
         \/ \E n \in Node : enterPreload(n) \/ exitPreload(n) \/ lazilyLoadImageIfNecessary(n) \/ lookUp(n)
         \/ \E l \in lookups : cacheHits(l) \/ cacheMisses(l)
         \/ UNCHANGED vars
  PROVE  UrlInv'
<1> USE DEF UrlInv
<1>1. UNCHANGED <<contexts, requests, url, image, downloadIdentifier>>
  BY DEF enterPreload, exitPreload, lazilyLoadImageIfNecessary, lookUp, cacheHits, cacheMisses,
         downloaderVars, nodeVars, vars
<1>2. Grows
  BY <1>1, StaysGrows
<1>3. \A l \in lookups' : l \in lookups \/ (l.node \in Node /\ l.url = url[l.node])
  BY DEF enterPreload, exitPreload, lazilyLoadImageIfNecessary, lookUp, cacheHits, cacheMisses,
         workVars, vars
<1>4. \A d \in loading' : d \in loading \/ (IsLoad(d) /\ d.do = "read")
  <2>1. ASSUME NEW n \in Node, NEW cause, beginDownload(n, cause)
        PROVE  \A d \in loading' : d \in loading \/ (IsLoad(d) /\ d.do = "read")
    BY <2>1 DEF beginDownload, IsLoad
  <2>2. ASSUME NEW n \in Node, lazilyLoadImageIfNecessary(n)
        PROVE  UNCHANGED loading \/ beginDownload(n, events)
    BY <2>2 DEF lazilyLoadImageIfNecessary
  <2>3. ASSUME NEW l \in lookups, cacheMisses(l)
        PROVE  UNCHANGED loading \/ (l.node \in Node /\ beginDownload(l.node, l.sentinel))
    BY <2>3 DEF cacheMisses, NodeTypes
  <2>4. \/ UNCHANGED loading
        \/ \E n \in Node : lazilyLoadImageIfNecessary(n)
        \/ \E l \in lookups : cacheMisses(l)
    BY DEF enterPreload, exitPreload, lookUp, cacheHits, workVars, vars
  <2> QED
    BY <2>1, <2>2, <2>3, <2>4
<1>5. \A a \in answers' : \/ a \in answers
                         \/ \E l \in lookups : a = [node |-> l.node, request |-> 0, image |-> l.url, id |-> 0]
  BY DEF enterPreload, exitPreload, lazilyLoadImageIfNecessary, lookUp, cacheHits, cacheMisses,
         downloaderVars, vars
<1>6. \A a \in answers' : a.node \in Node /\ a.id \in Nat /\ ComesOf(a)
  <2>1. ASSUME NEW l \in lookups, NEW a, a = [node |-> l.node, request |-> 0, image |-> l.url, id |-> 0]
        PROVE  a.node \in Node /\ a.id \in Nat /\ ComesOf(a)
    BY <2>1 DEF ComesOf, LookupsMatch, NodeTypes
  <2> QED
    BY <1>5, <2>1 DEF DownloaderTypes, AnswersMatch
<1>7. DownloaderTypes' /\ AnswersMatch' /\ LookupsMatch' /\ IdentifiersMatch' /\ ImagesMatch'
  BY <1>1, <1>2, <1>3, <1>6, Kept
     DEF AnswersMatch, LookupsMatch, IdentifiersMatch, ImagesMatch, ComesOf, IsFor
<1>8. NodeTypes' /\ LoadsMatch'
  BY <1>1, <1>2, <1>3, <1>4, Kept DEF NodeTypes, LoadsMatch
<1> QED
  BY <1>7, <1>8

LEMMA StepUrl ==
  ASSUME ~ChangesInLookups, ~sharesRequests, UrlInv, [Next]_vars
  PROVE  UrlInv' /\ ~sharesRequests'
<1>1. UNCHANGED sharesRequests
  BY DEF Next, vars
<1>2. CASE UNCHANGED vars
  BY <1>1, <1>2, CacheUrl
<1>3. ASSUME NEW n \in Node, NEW u \in URL \cup {NoImage}, setURL(n, u) PROVE UrlInv'
  <2>1. /\ cancelImageDownload(n) /\ resetImage(n) /\ ~LooksUp(n)
        /\ UNCHANGED <<lookups, loading>> /\ url' = [url EXCEPT ![n] = u]
    BY <1>3 DEF setURL
  <2> QED
    BY <2>1, ResetUrl
<1>4. ASSUME NEW n \in Node, clearImage(n) PROVE UrlInv'
  <2>1. cancelImageDownload(n) /\ resetImage(n) /\ UNCHANGED <<lookups, loading, url>>
    BY <1>4 DEF clearImage
  <2> QED
    BY <2>1, ResetUrl
<1>5. ASSUME NEW r \in DOMAIN requests, Downloader(r) \/ Network(r) PROVE UrlInv'
  <2>1. /\ DownloadStep(r) \/ failTask(r) \/ otherCancels(r)
        /\ UNCHANGED <<url, image, downloadIdentifier, lookups, loading>>
    BY <1>5 DEF Downloader, Network, nodeVars, workVars
  <2> QED
    BY <2>1, DownloaderGrows, DownloaderUrl DEF UrlInv
<1>6. ASSUME NEW u \in URL, Others(u) PROVE FALSE
  BY <1>6 DEF Others, otherDownloads
<1>7. CASE App
  BY <1>1, <1>3, <1>7, CacheUrl DEF App
<1>8. CASE MainThread
  BY <1>1, <1>4, <1>8, CacheUrl DEF MainThread
<1>9. CASE Loading
  BY <1>1, <1>9, CacheUrl, LoadUrl, FinishedUrl DEF Loading
<1> QED
  BY <1>1, <1>2, <1>5, <1>6, <1>7, <1>8, <1>9 DEF Next

(* Where downloads have identifiers and the URL does not change during a    *)
(* cache lookup, nothing late shows the image of another URL.               *)
THEOREM ImagesMatchURLs == ASSUME ~ChangesInLookups PROVE Spec => []ImageMatchesURL
<1> DEFINE Inv == ~sharesRequests => UrlInv
<1>1. Init => Inv
  <2> SUFFICES ASSUME Init PROVE UrlInv
    OBVIOUS
  <2>1. FirstURL \in URL
    BY URLAssumption DEF FirstURL
  <2>2. contexts = <<>> /\ requests = <<>> /\ answers = {} /\ lookups = {} /\ loading = {}
    BY DEF Init, DownloaderInit
  <2>3. DownloaderTypes
    BY <2>2, EmptySeq DEF DownloaderTypes
  <2>4. NodeTypes
    BY <2>1, <2>2 DEF NodeTypes, Init
  <2>5. AnswersMatch /\ LookupsMatch /\ LoadsMatch /\ IdentifiersMatch /\ ImagesMatch
    BY <2>2 DEF AnswersMatch, LookupsMatch, LoadsMatch, IdentifiersMatch, ImagesMatch, Init
  <2> QED
    BY <2>3, <2>4, <2>5 DEF UrlInv
<1>2. Inv /\ [Next]_vars => Inv'
  <2>1. [Next]_vars => UNCHANGED sharesRequests
    BY DEF Next, vars
  <2> QED
    BY <2>1, StepUrl
<1>3. Inv => ImageMatchesURL
  BY DEF UrlInv, ImagesMatch, ImageMatchesURL
<1> QED
  BY <1>1, <1>2, <1>3, PTL DEF Spec
=============================================================================
