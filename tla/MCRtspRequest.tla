---------------------------- MODULE MCRtspRequest ----------------------------
(* Dialogues for RtspRequest, after the one in the repository's README.     *)
EXTENDS RtspRequest

\* a whole session of a client that tries UDP, falls back to TCP and then sets
\* up two tracks with the headers in the order of buildSetupTcpReq
Session ==
    <<[method |-> "OPTIONS", headers |-> <<"CSeq", "other">>],
      [method |-> "DESCRIBE", headers |-> <<"CSeq", "other", "Accept">>],
      [method |-> "SETUP", headers |-> <<"CSeq", "TransportUdp">>],
      [method |-> "SETUP", headers |-> <<"CSeq", "TransportTcp">>],
      [method |-> "SETUP", headers |-> <<"TransportTcp", "CSeq">>],
      [method |-> "SETUP", headers |-> <<"TransportTcp", "CSeq">>],
      [method |-> "PLAY", headers |-> <<"CSeq", "Session">>],
      [method |-> "PLAY", headers |-> <<"Session", "CSeq">>],
      [method |-> "GET_PARAMETER", headers |-> <<"CSeq", "Session">>],
      [method |-> "TEARDOWN", headers |-> <<"CSeq", "Session">>]>>

\* the first two requests of the README
Begin ==
    <<[method |-> "OPTIONS", headers |-> <<"CSeq", "other">>],
      [method |-> "DESCRIBE", headers |-> <<"CSeq", "other", "Accept">>]>>

=============================================================================
