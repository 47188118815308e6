------------------------------ MODULE MCServices ------------------------------
EXTENDS Services

CONSTANTS i1, i2, i3

\* Stored replies: long ones, one too long for any answer, and short ones.
MCReplies == 1 .. MaxMsgs
MCSize == [m \in MCReplies |-> IF m = 3 THEN 50 ELSE IF m = 2 THEN 7 ELSE 4]
MCBodies == {0, 6, 25}

\* Two ids with one hash, one of which has no ten digits.
MCIds == {i1, i2, i3}
MCRows == 1 .. 4
MCHash9 == [i \in MCIds |-> IF i = i3 THEN 2 ELSE 1]
MCHash10 == [i \in MCIds |-> IF i = i1 THEN 3 ELSE IF i = i2 THEN 2 ELSE None]
MCPairs == {<<i1, i2>>, <<i2, i1>>}
MCRowPairs == {<<1, 1>>, <<1, 2>>}

\* What processes in lotus mode ask for at once: numbers of ids and new ones
\* of an operator, numbers of pairs, and the lookups.
MCMixes == {{<<1, i1>>, <<1, i2>>, <<13, i1>>, <<5, <<1, 4>> >>},
            {<<8, <<i1, i2>> >>, <<12, << <<1, 1>>, <<1, 2>> >> >>, <<9, <<1, 1>> >>,
             <<9, <<i1, i2>> >>, <<11, <<1, 1>> >>, <<14, i1>>},
            {<<1, i1>>, <<2, 1>>, <<7, i1>>, <<3, "v">>, <<4, None>>}}

\* The template, and contents whole, out of order, outdated and torn.
MCTemplate == <<"version", "settings", "p1", "visual", "item", "white", "p2">>
MCOutside == {<<"version", "settings", "visual", "item", "white">>,
              <<"version", "settings", "p1", "visualOld">>,
              <<"settings", "p1", "visualInline">>,
              <<"settings", "visual", "item", "white", "version">>,
              <<"version", "settings", "p1", "p2">>}

\* Long links: a good one, one in capitals, and one each that is refused
\* for its scheme, its host and its tags.  All have the same hash.
MCLong(name, scheme, host, html) ==
    [name |-> name, scheme |-> scheme, host |-> host, html |-> html]
MCLongs == {MCLong("a", "http", "public", FALSE), MCLong("b", "HTTP", "public", FALSE),
            MCLong("d", "javascript", "public", FALSE),
            MCLong("e", "http", "private", FALSE), MCLong("f", "HTTP", "localhost", FALSE),
            MCLong("g", "http", "public", TRUE)}
MCHash == [l \in LnkLongs |-> "c1"]

\* Replies in every form: text next to images and recordings, broken segments,
\* cards whose keyboard does not fit or has a blank button.
MCReply(form, parts, long, keys) == [form |-> form, parts |-> parts, long |-> long, keys |-> keys]
MCMessages == {MCReply("string", <<"text">>, FALSE, "none"),
               MCReply("string", <<"text", "image64", "at">>, FALSE, "none"),
               MCReply("list", <<"at", "text", "imageHttps", "other">>, FALSE, "none"),
               MCReply("list", <<"text", "broken">>, FALSE, "none"),
               MCReply("list", <<"record64", "image64">>, FALSE, "none"),
               MCReply("map", <<"recordHttp">>, FALSE, "none"),
               MCReply("map", <<"imageHttp">>, FALSE, "none"),
               MCReply("card", <<"tag", "text", "imageHttp", "text">>, FALSE, "rows"),
               MCReply("card", <<"text">>, TRUE, "rows"),
               MCReply("card", <<"text">>, FALSE, "blank")}
MCDefaults == {MCReply("string", <<"imageHttp", "text">>, FALSE, "none")}

\* What the audits find of the images.
MCJudged == [i \in MedImages |-> IF i = "bad" THEN "refuse" ELSE "pass"]

\* Callbacks of two users; replies to them with ids and echoes of all JSON types,
\* queries that can and cannot be read, and an action nobody knows.
MCObUser == [o1 |-> "u1", o2 |-> "u2"]
MCAsk(action, user, group, echo, params) ==
    [action |-> action, user |-> user, group |-> group, echo |-> echo, params |-> params]
MCRequests ==
    {MCAsk("send_msg", "number", "absent", "integer", "given"),
     MCAsk("send_msg", "text", "text", "text", "given"),
     MCAsk("send_msg", "absent", "number", "absent", "given"),
     MCAsk("send_msg", "object", "absent", "absent", "given"),
     MCAsk("send_msg", "absent", "absent", "list", "absent"),
     MCAsk("get_login_info", "absent", "absent", "object", "absent"),
     MCAsk("get_friend_list", "absent", "absent", "text", "given"),
     MCAsk("get_version_info", "absent", "absent", "float", "absent"),
     MCAsk("get_status", "absent", "absent", "integer", "absent"),
     MCAsk("get_group_list", "absent", "absent", "integer", "null")}

\* Bodies WeChat writes as usual and otherwise, around the end of a block, and
\* one that is for another account.
MCMsg(from, to, type, size, mark, usual) ==
    [from |-> from, to |-> to, type |-> type, size |-> size, mark |-> mark, usual |-> usual]
MCPosted == {MCMsg("u1", "account", "text", 10, 11, TRUE),
             MCMsg("u2", "account", "text", 11, 12, FALSE),
             MCMsg("u2", "account", "click", 1, 13, TRUE),
             MCMsg("u1", "account", "other", 42, 14, TRUE),
             MCMsg("u1", "another", "text", 5, 15, TRUE)}
MCAppId == <<201, 202>>
=============================================================================
