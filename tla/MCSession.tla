----------------------------- MODULE MCSession -----------------------------
(***************************************************************************)
(* TLC's instance of Session.  A word stands for all its spellings; share, *)
(* point, port and host for any others.                                    *)
(***************************************************************************)
EXTENDS Session

MCCommandLines ==
    {<<"Mile.Cirno">>, <<"Mile.Cirno", "Help">>, <<"Mile.Cirno", "Unmount", "point">>,
     <<"Mile.Cirno", "Mount", "TCP", "host", "port", "share", "point">>,
     <<"Mile.Cirno", "Mount", "TCP", "HvSocket", "port", "share", "point">>,
     <<"Mile.Cirno", "Mount", "TCP", "host", "port", "share">>,
     <<"Mile.Cirno", "Mount", "HvSocket", "port", "share", "point">>,
     <<"Mile.Cirno", "Mount", "HvSocket", "port", "share">>}

MCDokanErrors == {-1, -5}

=============================================================================
