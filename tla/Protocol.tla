------------------------------ MODULE Protocol ------------------------------
(***************************************************************************)
(* What every part of the server shares (include/protocol.h,               *)
(* include/common_defs.h): the people who own a UID, the mark for a file   *)
(* that is not on the disk, and the last answer the server sent.           *)
(*                                                                         *)
(* The server keeps nothing in memory between two requests, so the answer  *)
(* is the only thing a client learns.  "uid" and "eid" repeat the request  *)
(* the answer belongs to; the message itself holds rsp, status and data.   *)
(***************************************************************************)
EXTENDS Integers

CONSTANTS
    Users,      \* the UIDs
    NoFile,     \* in place of the contents of a file that does not exist
    NoUser      \* in place of the UID of a request that could not be parsed

VARIABLE reply

\* Names of UIDs are not mistaken for the marks.
ASSUME MarksAssumption == NoFile \notin Users /\ NoUser \notin Users

UdpResponses == {"RLI", "RLO", "RUR", "RME", "RMR"}
TcpResponses == {"RCE", "RCL", "RLS", "RSE", "RRI", "RCP"}

Statuses == {"OK", "NOK", "ERR", "REG", "UNR", "NLG", "WRP", "NOE", "EOW",
             "SLD", "PST", "CLO", "ACC", "REJ", "CLS", "NID"}

NoReply == [rsp |-> "none", uid |-> NoUser, eid |-> 0,
            status |-> "none", data |-> {}]

Answer(rsp, uid, eid, status, data) ==
    reply' = [rsp |-> rsp, uid |-> uid, eid |-> eid,
              status |-> status, data |-> data]

\* An answer that carries only a status.
AnswerStatus(rsp, uid, eid, status) == Answer(rsp, uid, eid, status, {})

\* sscanf or one of the validate_... functions rejects the text of a request.
\* handle_show_event is the one handler that answers NOK instead of ERR.
AnswerMalformed(rsp) ==
    AnswerStatus(rsp, NoUser, 0, IF rsp = "RSE" THEN "NOK" ELSE "ERR")

ReplyTypeOK ==
    /\ reply.rsp \in UdpResponses \cup TcpResponses \cup {"none"}
    /\ reply.uid \in Users \cup {NoUser}
    /\ reply.status \in Statuses \cup {"none"}
=============================================================================
