------------------------------ MODULE SFTPStore ------------------------------
(***************************************************************************)
(* The SFTP provider (storage/sftp.go): one connection that its callers    *)
(* share, dialed by whoever needs it first, watched by a keepalive         *)
(* goroutine, invalidated by whoever sees it fail and dialed again.        *)
(*                                                                         *)
(* Connections are named by their generation.  Every caller works on the   *)
(* same object, which Put replaces through a temporary file of its own.    *)
(* The server and the network between are external: a connection may break *)
(* at any time, before or after the server has done what it was asked.     *)
(***************************************************************************)
EXTENDS Integers, FiniteSets

CONSTANTS
    Caller,         \* goroutines that use the store
    MaxSFTPFaults   \* bound: broken connections and failed dials

ASSUME SFTPAssumption == IsFiniteSet(Caller) /\ MaxSFTPFaults \in Nat

VARIABLES
    connection,   \* SFTPStore.connection: a generation, 0 for nil
    dialing,      \* SFTPStore.dialing is not nil
    retryAt,      \* SFTPStore.retryAt lies in the future
    shut,         \* SFTPStore.closed
    generation,   \* SFTPStore.nextGeneration
    established,  \* the connections dialed
    broken,       \* the ones the network has lost
    ended,        \* the ones closed on this side: sftpConnection.done
    keeper,       \* the keepalive goroutine of each connection
    closer,       \* the connection Close is about to close, 0 for none
    call,         \* the call each goroutine is in
    temporary,    \* how much of its payload each Put has uploaded
    object,       \* the object on the server
    sftpFaults

sftpVars == <<connection, dialing, retryAt, shut, generation, established, broken, ended,
              keeper, closer, call, temporary, object, sftpFaults>>

(* A connection is only dialed anew after a fault. *)
Generations == 1..(MaxSFTPFaults + 1)

(* withSFTPConnection tries Open and Delete twice, and Stat and Capacity,   *)
(* which go no further than an Open that fails.  Put has one connection     *)
(* only, and so has Walk, which goes no further than a Put that fails       *)
(* before it uploads.                                                       *)
TriedTwice == {"open", "delete"}
Operations == TriedTwice \cup {"put"}

CallSteps == {"idle", "get", "dial", "use", "reading", "upload", "publish", "invalidate", "close"}

SFTPTypeOK ==
    /\ connection \in Generations \cup {0} /\ closer \in Generations \cup {0}
    /\ {dialing, retryAt, shut} \subseteq BOOLEAN
    /\ generation \in Generations \cup {0}
    /\ established \subseteq Generations /\ broken \subseteq established
    /\ ended \subseteq established
    /\ keeper \in [Generations -> {"none", "runs", "closes"}]
    /\ call \in [Caller -> [step : CallSteps, op : Operations, conn : Generations \cup {0},
                            again : BOOLEAN]]
    /\ temporary \in [Caller -> {"none", "part", "whole"}]
    /\ object \in {"none", "part", "whole"}
    /\ sftpFaults \in 0..MaxSFTPFaults

NoCall == [step |-> "idle", op |-> "put", conn |-> 0, again |-> FALSE]

(* A store before its first connection: NewSFTPStore is the first caller. *)
SFTPInit ==
    /\ connection = 0 /\ generation = 0 /\ closer = 0 /\ sftpFaults = 0
    /\ dialing = FALSE /\ retryAt = FALSE /\ shut = FALSE
    /\ established = {} /\ broken = {} /\ ended = {}
    /\ keeper = [g \in Generations |-> "none"]
    /\ call = [c \in Caller |-> NoCall]
    /\ temporary = [c \in Caller |-> "none"]
    /\ object = "none"

(* A request on the connection is answered. *)
Up(g) == g \notin broken /\ g \notin ended

Goes(c, step) == call' = [call EXCEPT ![c].step = step]
Returns(c) == call' = [call EXCEPT ![c] = NoCall]

-----------------------------------------------------------------------------
(* getConnection and the connection's life.                                *)

sftpFiles == <<temporary, object>>

SFTPBegin(c, op) ==
    /\ call[c].step = "idle"
    /\ call' = [call EXCEPT ![c] = [step |-> "get", op |-> op, conn |-> 0,
                                    again |-> op \in TriedTwice]]
    /\ UNCHANGED <<connection, dialing, retryAt, shut, generation, established, broken, ended,
                   keeper, closer, sftpFiles, sftpFaults>>

(* Who finds no connection, nobody dialing and no delay left dials. *)
GetConnection(c) ==
    /\ call[c].step = "get"
    /\ \/ /\ shut
          /\ Returns(c)
          /\ UNCHANGED <<dialing, generation>>
       \/ /\ ~shut /\ connection # 0
          /\ call' = [call EXCEPT ![c].step = "use", ![c].conn = connection]
          /\ UNCHANGED <<dialing, generation>>
       \/ /\ ~shut /\ connection = 0 /\ ~dialing /\ ~retryAt
          /\ dialing' = TRUE
          /\ generation' = generation + 1
          /\ call' = [call EXCEPT ![c].step = "dial", ![c].conn = generation + 1]
    /\ UNCHANGED <<connection, retryAt, shut, established, broken, ended, keeper, closer,
                   sftpFiles, sftpFaults>>

(* The caller's context ends while it waits for a connection. *)
GetCanceled(c) ==
    /\ call[c].step = "get"
    /\ Returns(c)
    /\ UNCHANGED <<connection, dialing, retryAt, shut, generation, established, broken, ended,
                   keeper, closer, sftpFiles, sftpFaults>>

(* The delay after a failed dial is over. *)
RetryDelayEnds ==
    /\ retryAt
    /\ retryAt' = FALSE
    /\ UNCHANGED <<connection, dialing, shut, generation, established, broken, ended, keeper,
                   closer, call, sftpFiles, sftpFaults>>

(* Mutant: a store closed during the dial keeps the connection. *)
DialedIntoClosedStore(c) ==
    /\ call[c].step = "dial"
    /\ dialing' = FALSE
    /\ established' = established \cup {call[c].conn}
    /\ connection' = call[c].conn /\ retryAt' = FALSE
    /\ keeper' = [keeper EXCEPT ![call[c].conn] = "runs"]
    /\ Goes(c, "use")
    /\ UNCHANGED <<shut, generation, broken, ended, closer, sftpFiles, sftpFaults>>

(* A dial that succeeded: a store closed meanwhile gives it up again. *)
Dialed(c) ==
    /\ call[c].step = "dial"
    /\ dialing' = FALSE
    /\ established' = established \cup {call[c].conn}
    /\ IF shut
       THEN /\ call' = [call EXCEPT ![c].step = "close", ![c].again = FALSE]
            /\ UNCHANGED <<connection, retryAt, keeper>>
       ELSE /\ connection' = call[c].conn /\ retryAt' = FALSE
            /\ keeper' = [keeper EXCEPT ![call[c].conn] = "runs"]
            /\ Goes(c, "use")
    /\ UNCHANGED <<shut, generation, broken, ended, closer, sftpFiles, sftpFaults>>

(* Mutant: after a failed dial the store still counts as dialing. *)
DialFailsDialing(c) ==
    /\ call[c].step = "dial"
    /\ sftpFaults < MaxSFTPFaults
    /\ sftpFaults' = sftpFaults + 1
    /\ retryAt' = TRUE
    /\ Returns(c)
    /\ UNCHANGED <<connection, dialing, shut, generation, established, broken, ended, keeper,
                   closer, sftpFiles>>

(* One that failed, for whatever reason, or was canceled by its caller. *)
DialFails(c) ==
    /\ call[c].step = "dial"
    /\ sftpFaults < MaxSFTPFaults
    /\ sftpFaults' = sftpFaults + 1
    /\ dialing' = FALSE
    /\ retryAt' = TRUE
    /\ Returns(c)
    /\ UNCHANGED <<connection, shut, generation, established, broken, ended, keeper, closer,
                   sftpFiles>>

(* The network loses a connection. *)
ConnectionBreaks(g) ==
    /\ sftpFaults < MaxSFTPFaults
    /\ g \in established /\ Up(g)
    /\ sftpFaults' = sftpFaults + 1
    /\ broken' = broken \cup {g}
    /\ UNCHANGED <<connection, dialing, retryAt, shut, generation, established, ended, keeper,
                   closer, call, sftpFiles>>

(* invalidate: only the connection that failed is taken from the store. *)
Without(g) == IF connection = g THEN 0 ELSE connection

Invalidate(c) ==
    /\ call[c].step = "invalidate"
    /\ connection' = Without(call[c].conn)
    /\ Goes(c, "close")
    /\ UNCHANGED <<dialing, retryAt, shut, generation, established, broken, ended, keeper,
                   closer, sftpFiles, sftpFaults>>

(* sftpConnection.close, and the second attempt of withSFTPConnection. *)
ClosesConnection(c) ==
    /\ call[c].step = "close"
    /\ ended' = ended \cup {call[c].conn}
    /\ IF call[c].again
       THEN call' = [call EXCEPT ![c].step = "get", ![c].conn = 0, ![c].again = FALSE]
       ELSE Returns(c)
    /\ temporary' = [temporary EXCEPT ![c] = "none"]
    /\ UNCHANGED <<connection, dialing, retryAt, shut, generation, established, broken, keeper,
                   closer, object, sftpFaults>>

(* keepalive ends with the connection, or finds it broken and ends it. *)
Keepalive(g) ==
    /\ \/ /\ keeper[g] = "runs" /\ g \in ended
          /\ keeper' = [keeper EXCEPT ![g] = "none"]
          /\ UNCHANGED <<connection, ended>>
       \/ /\ keeper[g] = "runs" /\ g \in broken \ ended
          /\ connection' = Without(g)
          /\ keeper' = [keeper EXCEPT ![g] = "closes"]
          /\ UNCHANGED ended
       \/ /\ keeper[g] = "closes"
          /\ ended' = ended \cup {g}
          /\ keeper' = [keeper EXCEPT ![g] = "none"]
          /\ UNCHANGED connection
    /\ UNCHANGED <<dialing, retryAt, shut, generation, established, broken, closer, call,
                   sftpFiles, sftpFaults>>

CloseStore ==
    /\ ~shut
    /\ shut' = TRUE
    /\ closer' = connection
    /\ connection' = 0
    /\ UNCHANGED <<dialing, retryAt, generation, established, broken, ended, keeper, call,
                   sftpFiles, sftpFaults>>

CloseStoreReturns ==
    /\ closer # 0
    /\ ended' = ended \cup {closer}
    /\ closer' = 0
    /\ UNCHANGED <<connection, dialing, retryAt, shut, generation, established, broken, keeper,
                   call, sftpFiles, sftpFaults>>

-----------------------------------------------------------------------------
(* The operations on a connection.                                         *)

sftpConnections == <<connection, dialing, retryAt, shut, generation, established, broken, ended,
                     keeper, closer, sftpFaults>>

(* Any request on a connection that is lost or closed: a transport error. *)
RequestFails(c) ==
    /\ call[c].step \in {"use", "reading", "upload", "publish"}
    /\ ~Up(call[c].conn)
    /\ call' = [call EXCEPT ![c].step = "invalidate", ![c].again = @ /\ call[c].step = "use"]
    /\ UNCHANGED <<sftpConnections, sftpFiles>>

Open(c) ==
    /\ call[c].step = "use" /\ call[c].op = "open" /\ Up(call[c].conn)
    /\ \/ object # "none" /\ Goes(c, "reading")
       \/ Returns(c)
    /\ UNCHANGED <<sftpConnections, sftpFiles>>

(* The body of an opened object is read and closed. *)
BodyClosed(c) ==
    /\ call[c].step = "reading" /\ Up(call[c].conn)
    /\ Returns(c)
    /\ UNCHANGED <<sftpConnections, sftpFiles>>

Delete(c) ==
    /\ call[c].step = "use" /\ call[c].op = "delete" /\ Up(call[c].conn)
    /\ object' = "none"
    /\ Returns(c)
    /\ UNCHANGED <<sftpConnections, temporary>>

(* Put up to the creation of its temporary file. *)
PutTemporary(c) ==
    /\ call[c].step = "use" /\ call[c].op = "put" /\ Up(call[c].conn)
    /\ \/ /\ temporary' = [temporary EXCEPT ![c] = "part"]
          /\ Goes(c, "upload")
       \/ Returns(c) /\ UNCHANGED temporary
    /\ UNCHANGED <<sftpConnections, object>>

(* Mutant: a short or failed upload is published. *)
PutUploadAny(c) ==
    /\ call[c].step = "upload" /\ Up(call[c].conn)
    /\ \/ temporary' = [temporary EXCEPT ![c] = "whole"]
       \/ UNCHANGED temporary
    /\ Goes(c, "publish")
    /\ UNCHANGED <<sftpConnections, object>>

(* The deferred removal of a temporary file that was not published; a lost  *)
(* connection leaves it behind.                                             *)
PutFails(c) ==
    /\ temporary' = [temporary EXCEPT ![c] = "none"]
    /\ Returns(c)

(* The upload is complete, or its source or its context ends too early. *)
PutUpload(c) ==
    /\ call[c].step = "upload" /\ Up(call[c].conn)
    /\ \/ /\ temporary' = [temporary EXCEPT ![c] = "whole"]
          /\ Goes(c, "publish")
       \/ PutFails(c)
    /\ UNCHANGED <<sftpConnections, object>>

(* publishSFTPObject: a rename that replaces the object, or one that the    *)
(* server refuses, as one without posix-rename does where an object exists. *)
PublishSFTPObject(c) ==
    /\ call[c].step = "publish" /\ Up(call[c].conn)
    /\ \/ /\ object' = temporary[c]
          /\ temporary' = [temporary EXCEPT ![c] = "none"]
          /\ Returns(c)
       \/ PutFails(c) /\ UNCHANGED object
    /\ UNCHANGED sftpConnections

(* The server has done what it was asked when the connection breaks. *)
AnswerLost(c) ==
    /\ sftpFaults < MaxSFTPFaults /\ Up(call[c].conn)
    /\ \/ /\ call[c].step = "use" /\ call[c].op = "delete"
          /\ object' = "none" /\ UNCHANGED temporary
       \/ /\ call[c].step = "publish"
          /\ object' = temporary[c]
          /\ temporary' = [temporary EXCEPT ![c] = "none"]
    /\ sftpFaults' = sftpFaults + 1
    /\ broken' = broken \cup {call[c].conn}
    /\ Goes(c, "invalidate")
    /\ UNCHANGED <<connection, dialing, retryAt, shut, generation, established, ended, keeper,
                   closer>>

-----------------------------------------------------------------------------

(* What a goroutine inside the store does next. *)
CallGoesOn(c) ==
    \/ GetConnection(c) \/ Dialed(c) \/ DialFails(c)
    \/ Invalidate(c) \/ ClosesConnection(c)
    \/ RequestFails(c) \/ Open(c) \/ BodyClosed(c) \/ Delete(c)
    \/ PutTemporary(c) \/ PutUpload(c) \/ PublishSFTPObject(c)

SFTPNext ==
    \/ \E c \in Caller : \/ (\E op \in Operations : SFTPBegin(c, op))
                         \/ GetCanceled(c) \/ CallGoesOn(c) \/ AnswerLost(c)
    \/ RetryDelayEnds
    \/ \E g \in Generations : ConnectionBreaks(g) \/ Keepalive(g)
    \/ CloseStore \/ CloseStoreReturns

SFTPSpec == SFTPInit /\ [][SFTPNext]_sftpVars

-----------------------------------------------------------------------------

(* Somebody is about to close the connection. *)
InHand(g) ==
    \/ \E c \in Caller : call[c].conn = g /\ call[c].step \in {"invalidate", "close"}
    \/ keeper[g] = "closes" \/ closer = g

(* No connection leaks: one that was dialed and is not closed yet is the    *)
(* store's own or in the hands of somebody who closes it, whoever dials,    *)
(* invalidates or closes the store at the same time; a closed store has     *)
(* none (getConnection, invalidate, Close).                                 *)
ConnectionsOwned ==
    /\ \A g \in established \ ended : connection = g \/ InHand(g)
    /\ shut => connection = 0

(* Whatever breaks, is canceled or closed during a Put, and whatever other  *)
(* callers do meanwhile, the object under a key is absent or the whole of    *)
(* what one Put uploaded (Put, publishSFTPObject).                          *)
ObjectWhole == object # "part"

(* A call returns: nobody waits forever for a dial that failed or for a     *)
(* connection that a closed store will not have again (getConnection).      *)
CallsReturn == \A c \in Caller : call[c].step # "idle" ~> call[c].step = "idle"

=============================================================================
