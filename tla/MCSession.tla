------------------------------ MODULE MCSession ------------------------------
(* Session for TLC: replay files of each kind, among them one that goes on *)
(* after its own finish, and configuration files with every sort of line.  *)
EXTENDS Session, TLC

MCReplayPlaces ==
    {<<>>,
     << <<"data">> >>,
     << <<"data", "wrong", "finish">>, <<"blank", "knownPacks", "data", "finish">> >>,
     << <<"blank">>, <<"data", "finish", "blank", "data">>, <<"data">> >>}
MCLeaps == {-2, 2}

MCNumeral == ("-1" :> -1) @@ ("0" :> 0) @@ ("1" :> 1) @@ ("2" :> 2) @@ ("3" :> 3) @@ ("3601" :> 3601)

Line(key, word) == <<key, "=", word>>
Interval == <<"keep_alive_interval_seconds", "=", "2", "#", "seconds">>
Exact == Line("idle_position_epsilon_milliblocks", "1")
Idle(word) == Line("play_idle_timeout_seconds", word)

Files == {
    <<Interval, Exact>>,
    <<Interval, Idle("0"), <<>>, Exact, Idle("3"), Line("idle_timeout_counts_keep_alive", "yes"),
      <<"server_brand", "=", "\"", "a", "=", "\"", ";", "b">> >>,
    <<Interval, Exact, Idle("3"), Line("idle_timeout_requires_position_change", "off"),
      <<"motd", "=", "\"", "a", "#", "b", "\"">>, Line("world_source", "debug")>>,
    <<Interval, Exact, Idle("3"), Line("idle_timeout_requires_position_change", "0"),
      Line("idle_timeout_counts_keep_alive", "1"), Line("world_path", "\"")>> }
WrongFiles == {
    <<Idle("3601"), Exact>>, <<Idle("-1")>>, <<Line("max_mobs", "1")>>, <<Interval, <<"yes">>, Exact>>,
    <<Line("log_chunk_sends", "2")>>, <<<<"motd", "=", "a", "b", "c">>>>, <<<<"=", "1">>>>,
    <<<<"port", "=", "#", "1">>>>}

(* A world path that was given is left blank again; and a comment that is  *)
(* longer than the buffer, of which the second piece reads "... = 2 ;".    *)
BlankPath == <<Interval, Exact, Line("world_path", "a"), <<"world_path", "=", "#", "b">> >>
LongComment ==
    <<Interval, Exact, Idle("3"), <<"#", "a", "b", "c", "d", "e", "f", "g">> \o Idle("2") \o <<";">> >>

MCPlace == {<<>>} \cup {<<file>> : file \in Files \cup WrongFiles \cup {BlankPath, LongComment}}
MCForgotten == [named |-> <<>>, places |-> <<<<>>, <<>>>>]
MCBuiltIn == {MCForgotten}
MCConfigurations ==
    [named : {<<>>}, places : MCPlace \X MCPlace] \cup
    [named : {<<place>> : place \in MCPlace}, places : {<<<<>>, <<CHOOSE file \in Files : TRUE>>>>}]
=============================================================================
