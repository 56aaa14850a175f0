--------------------------- MODULE MCPandaEpisodes ---------------------------
(* PandaEpisodes with two joints, of which one starts in reach of a limit. *)
EXTENDS PandaEpisodes

MCLowerLimit == <<-3, -3>>
MCUpperLimit == <<3, 1>>
MCHome == <<0, 0>>

(* At home, at a limit, outside a limit, and after a diverged simulation. *)
MCPositions == {<<0, 0>>, <<2, 1>>, <<-4, 0>>, <<NotFinite, 0>>}

(* Small, too fast for one joint, too fast downwards, gripper too wide. *)
MCActions == {<<1, 0, 1>>, <<0, 2, 0>>, <<-2, -1, 1>>, <<0, -1, 3>>}
=============================================================================
