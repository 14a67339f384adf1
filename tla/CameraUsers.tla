----------------------------- MODULE CameraUsers -----------------------------
(***************************************************************************)
(* The camera: Application's list of camera users with the three handlers  *)
(* that keep it (client connected, client disconnected, message 50), and   *)
(* Frame's capture, its list of video writers and its thread.              *)
(*                                                                         *)
(* The handlers run on the server's network thread, one at a time; the     *)
(* video thread walks the list of writers while they change it.            *)
(***************************************************************************)
EXTENDS Naturals, Sequences, FiniteSets, SequencesExt

CONSTANTS IPs,        \* addresses of clients
          MaxWriters  \* bound: video writers ever created

ASSUME WritersAssumption == MaxWriters \in Nat

\* No address is the name of a video backend.
ASSUME AddressAssumption == "GSTREAMER" \notin IPs

VARIABLES
  users,       \* m_CameraUsers: ip and IsCreatedVideoWriter, in order
  cameraOpen,  \* m_IsCameraOpen
  camera,      \* cap: "closed", "open"; a failed open leaves it closed
  writers,     \* m_VideoWriters: the address each one streams to
  video,       \* the video thread: not started, grabbing, writing, ended
  position,    \* the next writer the thread writes to
  last,        \* the end of the list when the thread began to walk it
  handling,    \* whether the network thread is in the handler of message 50
  streaming    \* FALSE once an invalidated iterator crashed the process

cameraVars == <<users, cameraOpen, camera, writers, video, position, last, handling, streaming>>

User == [ip : IPs, created : BOOLEAN]

CameraTypeOK ==
  /\ users \in Seq(User) /\ cameraOpen \in BOOLEAN
  /\ camera \in {"closed", "open"}
  /\ writers \in Seq(IPs)
  /\ video \in {"none", "grab", "write", "ended"}
  /\ position \in Nat /\ last \in Nat /\ handling \in BOOLEAN /\ streaming \in BOOLEAN

CameraInit ==
  /\ users = <<>> /\ cameraOpen = FALSE /\ camera = "closed"
  /\ writers = <<>> /\ video = "none" /\ position = 1 /\ last = 0
  /\ handling = FALSE /\ streaming = TRUE

IsUser(ip) == \E i \in DOMAIN users : users[i].ip = ip

-----------------------------------------------------------------------------
(* Handlers on the network thread. The one of message 50 takes several      *)
(* steps, between which the video thread goes on.                           *)

\* An address is listed once, however often it connects.
UserConnected(ip) ==
  /\ streaming /\ ~handling
  /\ users' = IF IsUser(ip) THEN users ELSE Append(users, [ip |-> ip, created |-> FALSE])
  /\ UNCHANGED <<cameraOpen, camera, writers, video, position, last, handling, streaming>>

\* The name of the backend a writer was made with.
BackendName(w) == "GSTREAMER"

\* Mutant: the writer's own address is compared. (The repair one would think of
\* first: it lets the network thread erase what the video thread walks.)
RemoveWritersTo(ip) == writers' = SelectSeq(writers, LAMBDA w : w # ip)

\* Frame::RemoveVideoWriterWithIP compares the address with the backend's name; its
\* loop returns after the first writer it erases.
RemoveVideoWriterWithIP(ip) ==
  \/ \E i \in DOMAIN writers :
       /\ BackendName(writers[i]) = ip /\ \A j \in 1..(i - 1) : BackendName(writers[j]) # ip
       /\ writers' = RemoveAt(writers, i)
  \/ (\A i \in DOMAIN writers : BackendName(writers[i]) # ip) /\ UNCHANGED writers

\* Mutant: the first user of the list goes, whoever that is.
FirstUserLeaves(ip) ==
  /\ streaming /\ ~handling
  /\ users' = IF users = <<>> THEN users ELSE Tail(users)
  /\ UNCHANGED <<cameraOpen, camera, writers, video, position, last, handling, streaming>>

UserDisconnected(ip) ==
  /\ streaming /\ ~handling
  /\ \/ \E i \in DOMAIN users :
          /\ users[i].ip = ip /\ \A j \in 1..(i - 1) : users[j].ip # ip
          /\ users' = RemoveAt(users, i)
          /\ RemoveVideoWriterWithIP(ip)
     \/ ~IsUser(ip) /\ UNCHANGED <<users, writers>>
  /\ UNCHANGED <<cameraOpen, camera, video, position, last, handling, streaming>>

\* The users that still wait for a writer, by their place in the list.
Waiting == {i \in DOMAIN users : ~users[i].created}

\* Message 50: the camera is opened on the first request, whether or not that succeeds, and
\* the video thread started. (The bound is on the writers the request may come to.)
CameraRequest ==
  /\ streaming /\ ~handling /\ Len(writers) + Cardinality(Waiting) <= MaxWriters
  /\ handling' = TRUE
  /\ IF cameraOpen THEN UNCHANGED <<cameraOpen, camera, video>>
     ELSE /\ camera' \in {"closed", "open"}
          /\ cameraOpen' = TRUE /\ video' = "grab"
  /\ UNCHANGED <<users, writers, position, last, streaming>>

\* Then a writer is appended for every user that has none, in order. The list may be moved
\* under the video thread while that walks it or reads its two ends.
PushWriter ==
  /\ streaming /\ handling
  /\ \E i \in Waiting :
       /\ \A j \in Waiting : i <= j
       /\ writers' = Append(writers, users[i].ip)
       /\ users' = [users EXCEPT ![i].created = TRUE]
  /\ streaming' \in IF video \in {"grab", "write"} THEN BOOLEAN ELSE {TRUE}
  /\ UNCHANGED <<cameraOpen, camera, video, position, last, handling>>

RequestDone ==
  /\ streaming /\ handling /\ Waiting = {}
  /\ handling' = FALSE
  /\ UNCHANGED <<users, cameraOpen, camera, writers, video, position, last, streaming>>

-----------------------------------------------------------------------------
(* Frame::VideoProcessingThread.                                            *)

\* cap >> localFrame: an empty frame (camera closed, unplugged) ends the thread for
\* good. The frame is stored for GetFrame; then the writers are walked.
GrabFrame ==
  /\ streaming /\ video = "grab"
  /\ \/ /\ camera = "open" /\ writers # <<>>
        /\ video' = "write" /\ position' = 1 /\ last' = Len(writers)
     \/ /\ camera = "open" /\ writers = <<>>
        /\ UNCHANGED <<video, position, last>>
     \/ video' = "ended" /\ UNCHANGED <<position, last>>
  /\ UNCHANGED <<users, cameraOpen, camera, writers, handling, streaming>>

WriteFrame ==
  /\ streaming /\ video = "write"
  /\ IF position = last THEN video' = "grab" /\ UNCHANGED position
                        ELSE position' = position + 1 /\ UNCHANGED video
  /\ UNCHANGED <<users, cameraOpen, camera, writers, last, handling, streaming>>

VideoThread == GrabFrame \/ WriteFrame

CameraNext ==
  \/ \E ip \in IPs : UserConnected(ip) \/ UserDisconnected(ip)
  \/ CameraRequest \/ PushWriter \/ RequestDone \/ VideoThread

CameraSpec == CameraInit /\ [][CameraNext]_cameraVars

-----------------------------------------------------------------------------
(* Properties.                                                              *)

\* The video thread never writes through an index past the list of writers.
WalkInsideList == video = "write" => (position <= last /\ last <= Len(writers))
=============================================================================
