-------------------------- MODULE ASNetworkImageNode --------------------------
(***************************************************************************)
(* ASNetworkImageNode.mm over its downloader: image nodes that enter and    *)
(* leave the preload range and change their URL on the main thread, while   *)
(* cache and downloader answer on threads of the global queue.              *)
(* A node changes its URL with setURL:, which resets the image; images set  *)
(* from outside, progress images and file URLs are left out.                *)
(***************************************************************************)
EXTENDS ASBasicImageDownloader

CONSTANTS
  ChangesInLookups, \* the URL may change while the cache is asked for the old one
  MaxEvents,        \* bound on the calls the nodes get, by sharesRequests
  MaxLoading        \* bound on the calls of _downloadImageWithCompletion: under way before one

ASSUME EventAssumption ==
  /\ ChangesInLookups \in BOOLEAN
  /\ MaxEvents \in [BOOLEAN -> Nat] /\ MaxLoading \in [BOOLEAN -> Nat]
ASSUME URLAssumption == URL # {}

VARIABLES
  url,                 \* _URL, or NoImage
  preload,             \* _interfaceState includes preload
  image,               \* the image shown, NoImage for the default image
  imageLoaded,
  downloadIdentifier,  \* _downloadIdentifier, 0 for nil
  cacheSentinel,       \* _cacheSentinel
  main,                \* what the main thread has to do next
  lookups,             \* cache requests under way
  loading,             \* calls of _downloadImageWithCompletion: under way
  events,              \* calls the nodes got
  droppedEarly         \* history: downloads that answered before they were stored

nodeVars == <<url, preload, image, imageLoaded, downloadIdentifier, cacheSentinel>>
workVars == <<main, lookups, loading, events>>
vars == <<sharesRequests, downloaderVars, nodeVars, workVars, droppedEarly>>

Idle == [do |-> "nothing"]

(* -init pairs PINRemoteImage's cache with its downloader and none with     *)
(* ASBasicImageDownloader.                                                  *)
hasCache == ~sharesRequests

(* The URL nodes begin with: which one it is makes no difference.           *)
FirstURL == CHOOSE u \in URL : TRUE

Init ==
  /\ DownloaderInit
  /\ url = [n \in Node |-> FirstURL] /\ preload = [n \in Node |-> FALSE]
  /\ image = [n \in Node |-> NoImage] /\ imageLoaded = [n \in Node |-> FALSE]
  /\ downloadIdentifier = [n \in Node |-> 0] /\ cacheSentinel = [n \in Node |-> 0]
  /\ main = Idle /\ lookups = {} /\ loading = {} /\ events = 0
  /\ droppedEarly = {}

(* The cache is asked, or has answered and the answer is on its way.        *)
LooksUp(n) == \/ \E l \in lookups : l.node = n
              \/ \E a \in answers : a.node = n /\ a.request = 0
Loads(n) == \E d \in loading : d.node = n

(* _locked_cancelImageDownloadWithResumePossibility:                        *)
cancelImageDownload(n) ==
  IF downloadIdentifier[n] = 0 THEN UNCHANGED <<downloaderVars, downloadIdentifier, cacheSentinel>>
  ELSE /\ cancel(downloadIdentifier[n])
       /\ downloadIdentifier' = [downloadIdentifier EXCEPT ![n] = 0]
       /\ cacheSentinel' = [cacheSentinel EXCEPT ![n] = @ + 1]

resetImage(n) ==
  /\ image' = [image EXCEPT ![n] = NoImage]
  /\ imageLoaded' = [imageLoaded EXCEPT ![n] = FALSE]

-----------------------------------------------------------------------------
(* The main thread.                                                         *)
event ==
  /\ main = Idle /\ Cardinality(loading) < MaxLoading[sharesRequests]
  /\ events < MaxEvents[sharesRequests] /\ events' = events + 1

enterPreload(n) ==
  /\ event /\ ~preload[n]
  /\ preload' = [preload EXCEPT ![n] = TRUE]
  /\ main' = [do |-> "load", node |-> n]
  /\ UNCHANGED <<downloaderVars, url, image, imageLoaded, downloadIdentifier, cacheSentinel, lookups, loading>>

exitPreload(n) ==
  /\ event /\ preload[n]
  /\ preload' = [preload EXCEPT ![n] = FALSE]
  /\ main' = [do |-> "clear", node |-> n]
  /\ UNCHANGED <<downloaderVars, url, image, imageLoaded, downloadIdentifier, cacheSentinel, lookups, loading>>

(* The URL changes to nil only when no download is about to be started.     *)
setURL(n, u) ==
  /\ event /\ url[n] # u
  /\ ChangesInLookups \/ ~LooksUp(n)
  /\ u = NoImage => ~Loads(n)
  /\ cancelImageDownload(n)
  /\ url' = [url EXCEPT ![n] = u]
  /\ resetImage(n)
  /\ main' = IF preload[n] THEN [do |-> "load", node |-> n] ELSE Idle
  /\ UNCHANGED <<preload, lookups, loading>>

beginDownload(n, cause) ==
  loading' = loading \cup {[node |-> n, do |-> "read", url |-> NoImage, request |-> 0, cause |-> cause]}

(* _lazilyLoadImageIfNecessary                                              *)
lazilyLoadImageIfNecessary(n) ==
  /\ main = [do |-> "load", node |-> n]
  /\ IF imageLoaded[n] \/ url[n] = NoImage \/ downloadIdentifier[n] # 0
     THEN main' = Idle /\ UNCHANGED loading
     ELSE IF hasCache THEN main' = [do |-> "lookup", node |-> n] /\ UNCHANGED loading
     ELSE main' = Idle /\ beginDownload(n, events)
  /\ UNCHANGED <<downloaderVars, nodeVars, lookups, events>>

lookUp(n) ==
  /\ main = [do |-> "lookup", node |-> n]
  /\ cacheSentinel' = [cacheSentinel EXCEPT ![n] = @ + 1]
  /\ lookups' = lookups \cup {[node |-> n, url |-> url[n], sentinel |-> cacheSentinel[n] + 1]}
  /\ main' = Idle
  /\ UNCHANGED <<downloaderVars, url, preload, image, imageLoaded, downloadIdentifier, loading, events>>

(* didExitPreloadState                                                      *)
clearImage(n) ==
  /\ main = [do |-> "clear", node |-> n]
  /\ cancelImageDownload(n)
  /\ resetImage(n)
  /\ main' = Idle
  /\ UNCHANGED <<url, preload, lookups, loading, events>>

-----------------------------------------------------------------------------
(* The cache answers on a thread of the global queue.                       *)
IsCurrent(l) == cacheSentinel[l.node] = l.sentinel

cacheHits(l) ==
  /\ lookups' = lookups \ {l}
  /\ answers' = answers \cup
       IF IsCurrent(l)
       THEN {[node |-> l.node, request |-> 0, image |-> l.url, id |-> 0]} ELSE {}
  /\ UNCHANGED <<contexts, currentRequests, requests, failures, nodeVars, main, loading, events>>

cacheMisses(l) ==
  /\ lookups' = lookups \ {l}
  /\ IF IsCurrent(l) THEN beginDownload(l.node, l.sentinel) ELSE UNCHANGED loading
  /\ UNCHANGED <<downloaderVars, nodeVars, main, events>>

-----------------------------------------------------------------------------
(* _downloadImageWithCompletion:, on a thread of the global queue.          *)
Goes(d, to) == loading' = (loading \ {d}) \cup {to}

(* The URL is read and the downloader called.                               *)
callDownloader(d) ==
  /\ d.do = "read"
  /\ downloadImage(d.node, url[d.node])
  /\ Goes(d, [d EXCEPT !.do = "store", !.url = url[d.node], !.request = Len(requests) + 1])
  /\ UNCHANGED <<nodeVars, main, lookups, events>>

(* Mutated: the identifier is stored whatever became of the URL.            *)
storeAnyway(d) ==
  /\ d.do = "store"
  /\ downloadIdentifier' = [downloadIdentifier EXCEPT ![d.node] = requests[d.request].context]
  /\ loading' = loading \ {d}
  /\ UNCHANGED <<downloaderVars, url, preload, image, imageLoaded, cacheSentinel, main, lookups, events>>

storeIdentifier(d) ==
  /\ d.do = "store"
  /\ IF url[d.node] = d.url
     THEN /\ downloadIdentifier' = [downloadIdentifier EXCEPT ![d.node] = requests[d.request].context]
          /\ loading' = loading \ {d}
     ELSE Goes(d, [d EXCEPT !.do = "cancel"]) /\ UNCHANGED downloadIdentifier
  /\ UNCHANGED <<downloaderVars, url, preload, image, imageLoaded, cacheSentinel, main, lookups, events>>

cancelAndReattempt(d) ==
  /\ d.do = "cancel"
  /\ cancel(requests[d.request].context)
  /\ Goes(d, [d EXCEPT !.do = "read"])
  /\ UNCHANGED <<nodeVars, main, lookups, events>>

-----------------------------------------------------------------------------
(* The completion of a load, in the lock of the node.                       *)
Ends(n) ==
  /\ downloadIdentifier' = [downloadIdentifier EXCEPT ![n] = 0]
  /\ cacheSentinel' = [cacheSentinel EXCEPT ![n] = @ + 1]

Shows(n, new) ==
  IF new = NoImage THEN UNCHANGED <<image, imageLoaded>>
  ELSE image' = [image EXCEPT ![n] = new] /\ imageLoaded' = [imageLoaded EXCEPT ![n] = TRUE]

IsOfOtherDownload(a) == a.id # 0 /\ a.id # downloadIdentifier[a.node]

(* Mutated: a result of a download that is not the current one is taken.    *)
finishedAny(a) ==
  /\ answers' = answers \ {a}
  /\ Ends(a.node)
  /\ IF ~preload[a.node] THEN UNCHANGED <<image, imageLoaded>> ELSE Shows(a.node, a.image)
  /\ UNCHANGED <<contexts, currentRequests, requests, failures, url, preload, workVars>>

(* Mutated: a result that comes out of the preload range is taken.          *)
finishedAnywhere(a) ==
  /\ answers' = answers \ {a}
  /\ IF IsOfOtherDownload(a) THEN UNCHANGED <<image, imageLoaded, downloadIdentifier, cacheSentinel>>
     ELSE Ends(a.node) /\ Shows(a.node, a.image)
  /\ UNCHANGED <<contexts, currentRequests, requests, failures, url, preload, workVars>>

finished(a) ==
  /\ answers' = answers \ {a}
  /\ IF IsOfOtherDownload(a) THEN UNCHANGED <<image, imageLoaded, downloadIdentifier, cacheSentinel>>
     ELSE /\ Ends(a.node)
          /\ IF preload[a.node] THEN Shows(a.node, a.image) ELSE UNCHANGED <<image, imageLoaded>>
  /\ UNCHANGED <<contexts, currentRequests, requests, failures, url, preload, workVars>>

(* An answer may come before the identifier that it names is stored, and is *)
(* then dropped.  No guard reads what is recorded of it.                    *)
ComesEarly(a) == a.id # 0 /\ \E d \in loading : d.request = a.request

RecordsDrops ==
  droppedEarly' = droppedEarly \cup {a.request : a \in {b \in answers \ answers' : ComesEarly(b)}}

-----------------------------------------------------------------------------
App == \E n \in Node :
  enterPreload(n) \/ exitPreload(n) \/ \E u \in URL \cup {NoImage} : setURL(n, u)

MainThread == \E n \in Node : lazilyLoadImageIfNecessary(n) \/ lookUp(n) \/ clearImage(n)

Loading ==
  \/ \E l \in lookups : cacheHits(l) \/ cacheMisses(l)
  \/ \E d \in loading : callDownloader(d) \/ storeIdentifier(d) \/ cancelAndReattempt(d)
  \/ \E a \in answers : finished(a)

Downloader(r) == DownloadStep(r) /\ UNCHANGED <<nodeVars, workVars>>
Network(r) == (failTask(r) \/ otherCancels(r)) /\ UNCHANGED <<nodeVars, workVars>>
Others(u) == otherDownloads(u) /\ UNCHANGED <<nodeVars, workVars>>

Next ==
  /\ \/ App \/ MainThread \/ Loading
     \/ \E r \in DOMAIN requests : Downloader(r) \/ Network(r)
     \/ \E u \in URL : Others(u)
  /\ UNCHANGED sharesRequests /\ RecordsDrops

Spec == Init /\ [][Next]_vars

(* Threads and the network go on; nobody has to call a node.                *)
Works == MainThread \/ Loading \/ \E r \in DOMAIN requests : Downloader(r)
FairSpec == Spec /\ WF_vars(Works /\ UNCHANGED sharesRequests /\ RecordsDrops)

-----------------------------------------------------------------------------
(* "download must not have been successfully canceled": where answers name  *)
(* their download, one that is late never shows the image of another URL,   *)
(* however the URL changed while the download was started, stored,          *)
(* cancelled or answered.                                                   *)
ImageMatchesURL == ~sharesRequests => \A n \in Node : image[n] \in {NoImage, url[n]}

(* "No longer in preload range, no point in setting the results (they won't *)
(* be cleared in exit preload range)": once a node has left the preload     *)
(* range nothing late, of cache or downloader, gives it an image.           *)
NoImageOutOfPreload ==
  \A n \in Node : ~preload[n] /\ main # [do |-> "clear", node |-> n] => image[n] = NoImage

(* A node that stays in the preload range with a URL gets its image,        *)
(* whatever was cancelled and started before, unless the network fails or   *)
(* the download answered too early: "the download we kicked off is correct" *)
(* holds of one that is over, too, whose answer was dropped as that of      *)
(* another download.  Its identifier is then kept, and nothing is loaded.   *)
StaysWith(n, u) == preload[n] /\ url[n] = u /\ failures = 0
HoldsDeadIdentifier(n) == \E r \in droppedEarly : requests[r].context = downloadIdentifier[n]
LoadsIfItStays ==
  \A n \in Node, u \in URL :
    <>[]StaysWith(n, u) => <>[](image[n] = u) \/ <>[]HoldsDeadIdentifier(n)

SettledIsLoaded == sharesRequests \/ LoadsIfItStays
=============================================================================
