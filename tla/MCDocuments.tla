----------------------------- MODULE MCDocuments -----------------------------
(***************************************************************************)
(* The kinds of documents, and the statuses and columns that calls use.    *)
(***************************************************************************)
EXTENDS Documents

AllKinds == {"letter", "content", "creative", "partner", "shipment", "trip", "milestone",
             "announcement", "meeting", "event", "decision", "budget", "transaction"}

\* For a kind with a table: its first steps, a fork, and a status out of it.
SomeStatuses == [k \in AllKinds |->
    CASE k = "letter"    -> {"submitted", "needs_completion", "verified", "drafting", "sent"}
      [] k = "content"   -> {"idea", "brief", "copywriting", "visual_request"}
      [] k = "creative"  -> {"request_received", "brief", "queued"}
      [] k = "partner"   -> {"prospect", "not_contacted", "initial_contact", "negotiation",
                             "proposal_sent"}
      [] k = "shipment"  -> {"processing", "shipped"}
      [] k = "trip"      -> {"planned", "ongoing"}
      [] k = "milestone" -> {"backlog", "done"}
      [] k = "decision"  -> {"backlog", "done"}
      [] k = "budget"    -> {"draft", "submitted"}
      [] OTHER           -> {}]

SomeColumns == [k \in AllKinds |-> IF k = "letter" THEN {"letterDate"} ELSE {"note"}]

\* For the run about letters: every status of letter_status, and the columns that
\* its steps need.
LetterStatuses == [k \in AllKinds |->
    IF k = "letter" THEN {"submitted", "needs_completion", "verified", "drafting", "review",
                          "awaiting_signature", "ready_to_send", "sent", "done"} ELSE {}]
LetterColumns == [k \in AllKinds |->
    IF k = "letter" THEN {"signerName", "letterDate"} ELSE {}]
=============================================================================
