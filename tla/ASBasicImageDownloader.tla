------------------------ MODULE ASBasicImageDownloader ------------------------
(***************************************************************************)
(* ASBasicImageDownloader.mm: all downloads of one URL share a context, the *)
(* identifier that is given back to who asked.  The callback is added and   *)
(* the session task is created on a global queue, where blocks run in any   *)
(* order; the session calls its delegate on threads of its own.             *)
(*                                                                         *)
(* With sharesRequests FALSE the module stands for a downloader that gives  *)
(* each download an identifier and passes it to the callback, as            *)
(* ASPINRemoteImageDownloader.mm does with the UUIDs of PINRemoteImage: a   *)
(* context then has one download, which runs at once.                       *)
(*                                                                         *)
(* A download is known by its number, and so are its callback and the       *)
(* session task that its block creates; 0 is none.                          *)
(***************************************************************************)
EXTENDS Integers, Sequences, FiniteSets

CONSTANTS
  Node,        \* the image nodes that download
  Other,       \* who else does
  URL,
  NoImage,     \* neither a URL nor an image, which is named after its URL
  MaxFailures, \* bound on the downloads that fail by themselves
  MaxOthers,   \* bound on the downloads of others
  Shares       \* values of sharesRequests

ASSUME NoImageAssumption == NoImage \notin URL
ASSUME OtherAssumption == Other \notin Node
ASSUME BoundAssumption == MaxFailures \in Nat /\ MaxOthers \in Nat
ASSUME SharesAssumption == Shares \subseteq BOOLEAN

VARIABLES
  sharesRequests,   \* the downloader is ASBasicImageDownloader
  contexts,         \* the contexts so far
  currentRequests,  \* the context of each URL, 0 for none
  requests,         \* the calls of downloadImageWithURL: so far
  answers,          \* callbacks dispatched to the callback queue
  failures          \* downloads that failed by themselves

downloaderVars == <<contexts, currentRequests, requests, answers, failures>>

DownloaderInit ==
  /\ sharesRequests \in Shares
  /\ contexts = <<>> /\ currentRequests = [u \in URL |-> 0]
  /\ requests = <<>> /\ answers = {} /\ failures = 0

ContextOf(r) == contexts[requests[r].context]

(* contextForURL:                                                           *)
contextForURL(u) ==
  IF sharesRequests /\ currentRequests[u] # 0 THEN currentRequests[u] ELSE Len(contexts) + 1

NewContext(u) ==
  [url |-> u, invalid |-> FALSE,
   callbackDatas |-> IF sharesRequests THEN {} ELSE {Len(requests) + 1},
   sessionTask |-> IF sharesRequests THEN 0 ELSE Len(requests) + 1]

(* downloadImageWithURL: of node n, up to the block it dispatches.          *)
downloadImage(n, u) ==
  \E c \in {contextForURL(u)} :
    /\ contexts' = IF c <= Len(contexts) THEN contexts ELSE Append(contexts, NewContext(u))
    /\ currentRequests' = IF sharesRequests THEN [currentRequests EXCEPT ![u] = c] ELSE currentRequests
    /\ requests' = Append(requests,
         [node |-> n, context |-> c,
          block |-> IF sharesRequests THEN "dispatched" ELSE "ended",
          task |-> IF sharesRequests THEN "none" ELSE "running"])
    /\ UNCHANGED <<answers, failures>>

TaskIs(c, states) == contexts[c].sessionTask # 0 /\ requests[contexts[c].sessionTask].task \in states

TaskIsCancelled(c) ==
  IF TaskIs(c, {"suspended", "running"})
  THEN [requests EXCEPT ![contexts[c].sessionTask].task = "failed"]
  ELSE requests

(* cancelImageDownloadForIdentifier: for whoever shares the context; who    *)
(* asks for one between its two locked regions still gets this one.         *)
cancel(c) ==
  /\ contexts' = [contexts EXCEPT ![c].invalid = TRUE, ![c].sessionTask = 0]
  /\ requests' = TaskIsCancelled(c)
  /\ currentRequests' = [currentRequests EXCEPT ![contexts[c].url] = 0]
  /\ UNCHANGED <<answers, failures>>

(* Others use the shared downloader.                                        *)
OthersRequests == {r \in DOMAIN requests : requests[r].node = Other}
otherDownloads(u) == sharesRequests /\ Cardinality(OthersRequests) < MaxOthers /\ downloadImage(Other, u)
otherCancels(r) == requests[r].node = Other /\ ~ContextOf(r).invalid /\ cancel(requests[r].context)

-----------------------------------------------------------------------------
(* The block of downloadImageWithURL:                                       *)
addCallbackData(r) ==
  /\ requests[r].block = "dispatched"
  /\ requests' = [requests EXCEPT ![r].block = "added"]
  /\ contexts' = [contexts EXCEPT ![requests[r].context].callbackDatas = @ \cup {r}]
  /\ UNCHANGED <<currentRequests, answers, failures>>

(* A task that is through may report to be running until its delegate is    *)
(* called.                                                                  *)
IsRunning(c) == TaskIs(c, {"running"})
MayReportRunning(c) == TaskIs(c, {"running", "succeeded", "failed"})

(* Mutated: only the first callback has a task created.                     *)
createForFirst(r) ==
  /\ requests[r].block = "added"
  /\ IF ContextOf(r).invalid \/ ContextOf(r).callbackDatas # {r}
     THEN requests' = [requests EXCEPT ![r].block = "ended"] /\ UNCHANGED contexts
     ELSE /\ requests' = [requests EXCEPT ![r].block = "created", ![r].task = "suspended"]
          /\ contexts' = [contexts EXCEPT ![requests[r].context].sessionTask = r]
  /\ UNCHANGED <<currentRequests, answers, failures>>

(* The second check decides; what two threads create both is resumed.       *)
createSessionTaskIfNecessary(r) ==
  /\ requests[r].block = "added"
  /\ \/ /\ ContextOf(r).invalid \/ MayReportRunning(requests[r].context)
        /\ requests' = [requests EXCEPT ![r].block = "ended"] /\ UNCHANGED contexts
     \/ /\ ~ContextOf(r).invalid /\ ~IsRunning(requests[r].context)
        /\ requests' = [requests EXCEPT ![r].block = "created", ![r].task = "suspended"]
        /\ contexts' = [contexts EXCEPT ![requests[r].context].sessionTask = r]
  /\ UNCHANGED <<currentRequests, answers, failures>>

resume(r) ==
  /\ requests[r].block = "created"
  /\ requests' = [requests EXCEPT ![r].block = "ended",
                                  ![r].task = IF @ = "suspended" THEN "running" ELSE @]
  /\ UNCHANGED <<contexts, currentRequests, answers, failures>>

(* The session.                                                             *)
finishTask(r) ==
  /\ requests[r].task = "running"
  /\ requests' = [requests EXCEPT ![r].task = "succeeded"]
  /\ UNCHANGED <<contexts, currentRequests, answers, failures>>

failTask(r) ==
  /\ requests[r].task = "running" /\ failures < MaxFailures
  /\ requests' = [requests EXCEPT ![r].task = "failed"]
  /\ failures' = failures + 1
  /\ UNCHANGED <<contexts, currentRequests, answers>>

-----------------------------------------------------------------------------
(* Its delegate.                                                            *)
complete(c, image) ==
  /\ answers' = answers \cup
       {[node |-> requests[k].node, request |-> k, image |-> image,
         id |-> IF sharesRequests THEN 0 ELSE c] :
        k \in {j \in contexts[c].callbackDatas : requests[j].node \in Node}}
  /\ contexts' = [contexts EXCEPT ![c].callbackDatas = {}, ![c].sessionTask = 0]

didFinishDownloading(r) ==
  /\ requests[r].task = "succeeded"
  /\ requests' = [requests EXCEPT ![r].task = "over"]
  /\ IF ContextOf(r).invalid THEN UNCHANGED <<contexts, answers>>
     ELSE complete(requests[r].context, ContextOf(r).url)
  /\ UNCHANGED <<currentRequests, failures>>

didCompleteWithError(r) ==
  /\ requests[r].task = "failed" /\ requests[r].block = "ended"
  /\ requests' = [requests EXCEPT ![r].task = "over"]
  /\ complete(requests[r].context, NoImage)
  /\ UNCHANGED <<currentRequests, failures>>

(* What has to happen without the network failing.                          *)
DownloadStep(r) ==
  \/ addCallbackData(r) \/ createSessionTaskIfNecessary(r) \/ resume(r)
  \/ finishTask(r) \/ didFinishDownloading(r) \/ didCompleteWithError(r)

-----------------------------------------------------------------------------
(* "testAsynchronouslyDownloadTheSameURLTwice": the callback of each        *)
(* download is called unless its context is cancelled, although a callback  *)
(* may be added while another is answered and threads race to create the    *)
(* task.                                                                    *)
IsAnswered(r) == requests[r].block # "dispatched" /\ r \notin ContextOf(r).callbackDatas

EveryDownloadAnswers == []<>(\A r \in DOMAIN requests : IsAnswered(r) \/ ContextOf(r).invalid)
=============================================================================
