--------------------------- MODULE MCRemoteCapture ---------------------------
(* RemoteCapture for TLC.                                                    *)
EXTENDS RemoteCapture

\* The file alone, and with what is sent before it.
WithFile == {{"jpg"}, {"raw", "jpg"}, {"dng", "raw", "jpg"}}

\* Nothing but the raw data.
RawOnly == {{"raw"}}
=============================================================================
