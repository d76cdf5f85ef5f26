-------------------------------- MODULE GetFile --------------------------------
(***************************************************************************)
(* The gflib programs together: gfclient_download.c requests the paths of  *)
(* its workload one after the other with gfc_perform (GfClient), each over *)
(* a connection of its own to gfserver_main.c, which runs gfserver_serve   *)
(* (GfServer).  The bytes one side sends are what the other receives.      *)
(*                                                                         *)
(* The handler handler.o is outside src/.  It is modelled as content.c and *)
(* gfserver.h let it work: content_get, which rewinds the shared           *)
(* descriptor, a header, and read and gfs_send until the file ends.        *)
(***************************************************************************)
EXTENDS Integers, SequencesExt

CONSTANTS Workloads,      \* sequences of paths that workload.txt may hold
          MaxRequests,    \* bound on nrequests
          Content,        \* the content table: path to the bytes of its file
          LongPaths,      \* those whose local name has no room for a number
          PathLength,     \* symbols of a path, the same for all
          BufSize, HeaderSize, WordSize, \* as in GfClient and GfServer
          NoFile,         \* there is no file of a name
          Troubles        \* which of "disk", "reset", "read" may happen

VARIABLES
  (* gfclient_download.c *)
  dpc,            \* "start", "request", "open", "perform", "check", "done",
                  \* "exited", "crashed"
  workload, nrequests,
  count,          \* how many requests have been started, 0 at first
  disk,           \* the local directory: the bytes of a file, or NoFile
  outcome,        \* result and status of each finished request
  troubled,       \* whether something went wrong on the way of a request
  (* gfc_perform, the variables of GfClient *)
  cpc, addr, sfd, sent, buffer, headerEnd, status, fileLength, bytesReceived,
  delivered, ret, response, cincoming, cpeer,
  (* gfserver_serve, the variables of GfServer *)
  spc, res, lfd, cur, pending, fd, ctx, header, request, sincoming, speer,
  handled, reply, fault, up,
  (* the handler *)
  sending,        \* it has announced a file and sends it
  position        \* the offset of the descriptor of each file

Number == 1..MaxRequests    \* of a request, and of its connection

C == INSTANCE GfClient WITH
       Addresses <- 1, RequestLength <- PathLength + 5, Responses <- {<< >>},
       pc <- cpc, incoming <- cincoming, peer <- cpeer

S == INSTANCE GfServer WITH
       Conn <- Number, NoConn <- 0, Requests <- {},
       pc <- spc, incoming <- sincoming, peer <- speer

program == <<dpc, workload, nrequests, count, disk, outcome, troubled>>
toClient == <<response, cincoming, cpeer>>
perform == <<cpc, addr, sfd, sent, buffer, headerEnd, status, fileLength, bytesReceived,
             delivered, ret>>
toServer == <<request, sincoming, speer>>
serve == <<spc, res, lfd, cur, fd, ctx, header, handled, reply, fault, up>>
handler == <<sending, position>>
server == <<serve, pending, toServer, handler>>
vars == <<program, perform, toClient, server>>

Path(k) == workload[((k - 1) % Len(workload)) + 1]

(* localPath: the number of the request behind the path, unless snprintf has
   cut it off. *)
LocalName(k) == <<Path(k), IF Path(k) \in LongPaths THEN 0 ELSE k>>
Names == (UNION {Range(w) : w \in Workloads}) \X (0..MaxRequests)

Init == /\ dpc = "start"
        /\ workload \in Workloads /\ nrequests \in 0..MaxRequests
        /\ count = 0
        /\ disk = [n \in Names |-> NoFile]
        /\ outcome = [k \in Number |-> <<1, "none">>]
        /\ troubled = [k \in Number |-> FALSE]
        /\ C!Init
        /\ S!Init
        /\ sending = FALSE /\ position = [p \in DOMAIN Content |-> 0]

----------------------------------------------------------------------------
(* main of gfclient_download.c *)

LoadWorkload == /\ dpc = "start"
                /\ dpc' \in {"request", "exited"}
                /\ UNCHANGED <<workload, nrequests, count, disk, outcome, troubled, perform,
                               toClient, server>>

(* workload_get_path divides by the number of paths. *)
NextRequest == /\ dpc = "request"
               /\ IF count = nrequests     THEN dpc' = "done" /\ UNCHANGED count
                  ELSE IF workload = << >> THEN dpc' = "crashed" /\ UNCHANGED count
                                           ELSE dpc' = "open" /\ count' = count + 1
               /\ UNCHANGED <<workload, nrequests, disk, outcome, troubled, perform, toClient,
                              server>>

(* gfc_create and the setters. *)
NewHandle == /\ cpc' = "connect" /\ addr' = 1 /\ sfd' = "none" /\ sent' = 0
             /\ buffer' = << >> /\ headerEnd' = 0
             /\ status' = "INVALID" /\ fileLength' = 0 /\ bytesReceived' = 0
             /\ delivered' = << >> /\ ret' = 1

(* openFile, which may end the program. *)
OpenFile == /\ dpc = "open"
            /\ \/ /\ dpc' = "perform"
                  /\ disk' = [disk EXCEPT ![LocalName(count)] = << >>]
                  /\ NewHandle
                  /\ response' = << >> /\ cincoming' = << >> /\ cpeer' = "open"
               \/ /\ "disk" \in Troubles
                  /\ dpc' = "exited"
                  /\ UNCHANGED <<disk, perform, toClient>>
            /\ UNCHANGED <<workload, nrequests, count, outcome, troubled, server>>

\* Mutant: the file stays whatever gfc_perform returns.
CloseFile_Keep == /\ dpc = "perform" /\ cpc = "returned"
                  /\ disk' = [disk EXCEPT ![LocalName(count)] = delivered]
                  /\ dpc' = "check"
                  /\ UNCHANGED <<workload, nrequests, count, outcome, troubled, perform,
                                 toClient, server>>

(* fclose, and the first unlink when gfc_perform failed. *)
CloseFile == /\ dpc = "perform" /\ cpc = "returned"
             /\ disk' = [disk EXCEPT ![LocalName(count)] = IF ret < 0 THEN NoFile ELSE delivered]
             /\ dpc' = "check"
             /\ UNCHANGED <<workload, nrequests, count, outcome, troubled, perform, toClient,
                            server>>

(* The second unlink, and gfc_cleanup. *)
CheckStatus == /\ dpc = "check"
               /\ disk' = IF status = "OK" THEN disk
                          ELSE [disk EXCEPT ![LocalName(count)] = NoFile]
               /\ outcome' = [outcome EXCEPT ![count] = <<ret, status>>]
               /\ dpc' = "request"
               /\ UNCHANGED <<workload, nrequests, count, troubled, perform, toClient, server>>

Program == LoadWorkload \/ NextRequest \/ OpenFile \/ CloseFile \/ CheckStatus

----------------------------------------------------------------------------
(* gfc_perform, and what its calls do to the server's end *)

RequestText == <<S!Scheme>> \o Path(count) \o C!Delimiter

Running == dpc = "perform"

Trouble(k) == troubled' = [troubled EXCEPT ![k] = TRUE]

Connect == /\ Running /\ up
           /\ C!Connects
           /\ S!ClientConnects(count, << >>)
           /\ UNCHANGED <<program, handler>>

ConnectFails == /\ Running
                /\ C!ConnectFails \/ C!NoConnection
                /\ Trouble(count)
                /\ UNCHANGED <<dpc, workload, nrequests, count, disk, outcome, server>>

SendRequest == /\ Running
               /\ C!SendRequest
               /\ LET bytes == SubSeq(RequestText, sent + 1, sent')
                  IN  /\ request' = [request EXCEPT ![count] = @ \o bytes]
                      /\ sincoming' = [sincoming EXCEPT ![count] = @ \o bytes]
               /\ UNCHANGED <<program, serve, pending, speer, handler>>

Receive == /\ Running
           /\ C!ReceiveHeader \/ C!HeaderEnds \/ C!HeaderOK \/ C!ReceiveBody
           /\ UNCHANGED <<program, server>>

(* Every way back to the caller closes the socket. *)
Return == /\ Running /\ cpc # "connect"
          /\ \/ C!SendFails \/ C!HeaderFails
             \/ C!StatusRefuses \/ C!StatusInvalid \/ C!LengthInvalid
             \/ C!BodyEnds \/ C!BodyFails \/ C!BodyComplete
          /\ speer' = IF speer[count] = "waiting" THEN [speer EXCEPT ![count] = "left"] ELSE speer
          /\ UNCHANGED <<program, serve, pending, request, sincoming, handler>>

Perform == Connect \/ ConnectFails \/ SendRequest \/ Receive \/ Return

----------------------------------------------------------------------------
(* gfserver_serve, and what its calls do to the client's end *)

Deliver(bytes) == /\ response' = response \o bytes
                  /\ cincoming' = cincoming \o bytes

ServeStep == /\ up /\ spc # "handler"
             /\ S!Serve
             /\ IF reply' = reply
                  THEN UNCHANGED toClient
                  ELSE Deliver(<<C!GETFILE, C!Unknown>> \o C!Delimiter) /\ cpeer' = "closed"
             /\ UNCHANGED <<program, perform, handler>>

Asked == handled[cur]

OKHeader == <<C!GETFILE, C!Word.OK, 48 + Len(Content[Asked])>> \o C!Delimiter
NotFoundHeader == <<C!GETFILE, C!Word.FILE_NOT_FOUND>> \o C!Delimiter

(* gfs_sendheader or gfs_send of the handler. *)
HandlerSends(bytes) == /\ S!Send("answer")
                       /\ IF speer[cur] = "waiting" THEN Deliver(bytes)
                                                    ELSE UNCHANGED <<response, cincoming>>
                       /\ UNCHANGED cpeer

InHandler == up /\ spc = "handler"

HandlerReturns == /\ spc' = "listening" /\ cur' = 0
                  /\ sending' = FALSE

\* Mutant: content_get without lseek.
Rewound_Not(k) == position

(* lseek in content_get. *)
Rewound(k) == [position EXCEPT ![k] = 0]

HandlerFinds == /\ InHandler /\ ~sending /\ Asked \in DOMAIN Content
                /\ HandlerSends(OKHeader)
                /\ position' = Rewound(Asked)
                /\ sending' = TRUE
                /\ UNCHANGED <<program, perform, spc, res, lfd, cur, pending, fd, ctx, header,
                               toServer, handled, fault>>

HandlerRefuses == /\ InHandler /\ ~sending /\ Asked \notin DOMAIN Content
                  /\ HandlerSends(NotFoundHeader)
                  /\ HandlerReturns
                  /\ UNCHANGED <<program, perform, res, lfd, pending, fd, ctx, header, toServer,
                                 handled, fault, position>>

HandlerReads == /\ InHandler /\ sending
                /\ LET at == position[Asked]
                   IN  \E n \in 1..Len(Content[Asked]) - at :
                         /\ HandlerSends(SubSeq(Content[Asked], at + 1, at + n))
                         /\ position' = [position EXCEPT ![Asked] = at + n]
                /\ UNCHANGED <<program, perform, spc, res, lfd, cur, pending, fd, ctx, header,
                               toServer, handled, fault, sending>>

HandlerEnds == /\ InHandler /\ sending /\ position[Asked] = Len(Content[Asked])
               /\ HandlerReturns
               /\ UNCHANGED <<program, perform, toClient, res, lfd, pending, fd, ctx, header,
                              toServer, handled, reply, fault, up, position>>

(* A read fails: gfs_abort. *)
HandlerAborts == /\ InHandler /\ sending /\ "read" \in Troubles
                 /\ S!Discard
                 /\ cpeer' = IF speer[cur] = "waiting" THEN "closed" ELSE cpeer
                 /\ Trouble(cur)
                 /\ HandlerReturns
                 /\ UNCHANGED <<dpc, workload, nrequests, count, disk, outcome, perform,
                                response, cincoming, res, lfd, pending, header, toServer,
                                handled, reply, fault, up, position>>

Handler == \/ HandlerFinds \/ HandlerRefuses \/ HandlerReads \/ HandlerEnds \/ HandlerAborts

----------------------------------------------------------------------------

(* The connection breaks, which it does at the latest when the server dies. *)
Break == /\ Running
         /\ speer[count] = "waiting"
         /\ "reset" \in Troubles \/ ~up
         /\ C!PeerResets
         /\ speer' = [speer EXCEPT ![count] = "reset"]
         /\ Trouble(count)
         /\ UNCHANGED <<dpc, workload, nrequests, count, disk, outcome, serve, pending, request,
                        sincoming, handler>>

Next == Program \/ Perform \/ ServeStep \/ Handler \/ Break

(* Both programs run whenever they are not blocked, and the connections of a
   server that has died break. *)
Spec == Init /\ [][Next]_vars
FairSpec == /\ Spec
            /\ WF_vars(Program \/ Perform) /\ WF_vars(ServeStep \/ Handler)
            /\ WF_vars(~up /\ Break)
----------------------------------------------------------------------------

Finished(k) == outcome[k] # <<1, "none">>
Succeeded(k) == outcome[k] = <<0, "OK">>

(* The local directory when the program is between two requests or has ended:
   under every name there is the complete file if the last request that used
   the name has succeeded, and nothing if it has failed, whichever side failed
   and at which byte.  A name is used twice only by paths so long that
   snprintf cuts the number off. *)
KeptFilesComplete ==
  dpc \in {"request", "done"} =>
    \A k \in 1..count :
      (\A j \in k + 1..count : LocalName(j) # LocalName(k)) =>
        disk[LocalName(k)] = IF Succeeded(k) THEN Content[Path(k)] ELSE NoFile

(* What the server should say of a path. *)
Expected(p) == IF p[1] # S!Slash         THEN <<-1, "INVALID">>
               ELSE IF p \in DOMAIN Content THEN <<0, "OK">>
                                            ELSE <<0, "FILE_NOT_FOUND">>

(* Every request gets the answer to its own path, whatever happened to the
   requests before it and however the bytes of both directions were cut; when
   its connection or its handler fails, it gets that answer or an error, and
   never another one. *)
AnswerMatchesRequest ==
  \A k \in 1..count : Finished(k) =>
    \/ outcome[k] = Expected(Path(k))
    \/ troubled[k] /\ outcome[k][1] = -1

(* The program ends: with its last request, or because a call fails.  It never
   waits for ever for an answer, although neither side has a timeout and the
   server never closes a connection it has answered.  An empty workload is the
   only way to the division by zero. *)
ProgramEnds ==
  <>(\/ dpc = "done" /\ count = nrequests
     \/ dpc = "exited"
     \/ dpc = "crashed" /\ workload = << >>
     \/ cpc = "killed" /\ troubled[count])
=============================================================================
