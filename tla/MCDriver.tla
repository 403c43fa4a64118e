------------------------------ MODULE MCDriver ------------------------------
(* Two IRPs in Dispatch; every kind of value the helpers tell apart, and     *)
(* arrays with strings on either side of the 127 characters at which the     *)
(* UCHAR of RegistryAnsiToSz wraps.                                          *)
EXTENDS Driver

CONSTANTS i1, i2

ASSUME PowerThreads

MCValues ==
    {Absent, Dword, Binary(8), Sz(<<"short">>), MultiSz(<<"short", "fits">>)}

MCBufferNames == <<"Buffer1", "Buffer2", "Buffer3">>

MCArrays ==
    { <<"short">>, <<"wide">>, <<"fits", "short">>, <<"empty">>,
      <<"short", "empty", "wide">>, <<"wide", "wide">> }

=============================================================================
