---------------------------- MODULE MCMachines ------------------------------
(* A small instance of Machines for TLC. *)
EXTENDS Machines, TLC

Plane == (0..3) \X (0..3)
Grid(lethal, unknown) == [c \in Plane |-> IF c \in lethal THEN 254 ELSE IF c \in unknown THEN 255 ELSE 0]

Fires == {t \in SUBSET Plane : /\ Cardinality(t) <= 3 /\ <<0, 0>> \in t
                              /\ \A c \in t : c[1] # 0 \/ c[2] = 0}

SmallFires == {Grid(t, {}) : t \in Fires}
               \cup {Grid({c}, {<<1, 1>>, <<2, 1>>}) : c \in Plane}

FireWindows == {[lo |-> <<0, 0>>, hi |-> <<4, 4>>], [lo |-> <<2, 0>>, hi |-> <<4, 2>>]}

Map(o, r, c) == [origin |-> o, res |-> r, cells |-> c]

SomeMasters == {Map(o, 2, c) : o \in {0, 1}, c \in {<<0, 100, 255>>, <<254, 50, 0>>}}
                 \cup {Map(0, 8, <<0, 100>>)}

SomeMasksAt == {Map(o, r, c) : o \in -5..6, r \in {2, 4}, c \in {<<100>>, <<255, 254>>, <<60, 254>>}}

SomeShifts == {0, -3, 2}

SomeRegions == {<<0, 4>>, <<1, 5>>, <<2, 6>>, <<3, 7>>, <<4, 8>>, <<0, 5>>, <<1, 4>>}

ImagesOf(rows, columns, costs) == [(0..rows - 1) \X (0..columns - 1) -> costs]

SmallImages == ImagesOf(3, 3, {0, 254}) \cup ImagesOf(2, 2, {0, 100, 254, 255})
                 \cup ImagesOf(2, 4, {0, 254}) \cup ImagesOf(1, 5, {0, 254})

SomeSquare == (0..4) \X (0..4)

SomeCorner == (0..2) \X (0..3)

Field(n, k, costs) == [(0..n - 1) \X (0..k - 1) -> costs]

Blocked(g) == {c \in DOMAIN g : g[c] = 254}

Fields == {g \in Field(3, 3, {0, 254}) : Cardinality(Blocked(g)) <= 3}
            \cup {[g EXCEPT ![<<1, 1>>] = 255] : g \in {f \in Field(3, 3, {0, 254}) :
                     f[<<1, 1>>] = 0 /\ Cardinality(Blocked(f)) <= 2}}
            \cup {g \in Field(4, 2, {0, 254}) : Cardinality(Blocked(g)) <= 4}

SomeQueries == {<<<<0, 1>>, <<2, 1>>>>, <<<<0, 1>>, <<3, 0>>>>, <<<<2, 0>>, <<0, 0>>>>,
                <<<<3, 0>>, <<0, 0>>>>}

Plan(from, to, yaw) == [from |-> from, to |-> to, yaw |-> yaw]

SomePlans == {Plan(0, -53, 79), Plan(0, 180, 79)}

SomeCheckers == {<<"simple", "simple">>, <<"stopped", "pose">>, <<"position", "simple">>}

Floor == (0..4) \X (0..3)

Wall(lethal, unknown) == [c \in Floor |-> IF c \in lethal THEN 254 ELSE IF c \in unknown THEN 255 ELSE 0]

SomeWalls == {Wall({<<3, 2>>}, {}), Wall({<<3, 2>>}, {<<2, 0>>}), Wall({}, {<<2, 1>>})}

Wedge == <<<<1, 0>>, <<-1, 1>>, <<-1, -1>>>>

Stand(col, row, turns) == [x |-> col, y |-> row, yaw |-> turns]

SomeStands == {Stand(1, 1, 0), Stand(3, 1, 1)}

ShownMissions == {<<0>>, <<3, 0>>, <<0, 3, 0>>}

DroneHome == [x |-> 0, z |-> 1]

DroneDefault == [x |-> 5, z |-> 4]

DroneGoals == {[x |-> 2, z |-> 3]}

DroneTasks == {[areas |-> <<[type |-> 0, data |-> <<2, 1>>], [type |-> 2, data |-> <<0, 2>>]>>,
                path |-> <<0, 2>>]}
=============================================================================
