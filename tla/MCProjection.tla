---------------------------- MODULE MCProjection ----------------------------
(* Small instances of Projection for TLC. *)
EXTENDS Projection

Of(kind, of, by) == [kind |-> kind, of |-> of, by |-> by]

\* Three messages and an end; ends, a count and receipts about one message; two
\* deliveries and counts of a message of one's own, two versions of the
\* conversation, and the end of a message the device never gets.
SmallStreams == {
  <<Of("message", 1, Other), Of("message", 2, Me), Of("message", 3, Other), Of("recall", 1, Other)>>,
  <<Of("message", 1, Other), Of("readCount", 1, Me), Of("recall", 1, Other), Of("burn", 1, Me),
    Of("message", 2, Other), Of("receipt", 1, Me), Of("receipt", 2, Me)>>,
  <<Of("conversation", 0, Other), Of("message", 1, Me), Of("delivery", 1, Me), Of("readCount", 1, Me),
    Of("delivery", 1, Me), Of("readCount", 1, Me), Of("conversation", 0, Other), Of("recall", 2, Other)>>}

=============================================================================
