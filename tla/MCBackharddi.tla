---------------------------- MODULE MCBackharddi ----------------------------
(***************************************************************************)
(* Instances of Backharddi: three devices, of which the machine lacks one, *)
(* geometries a..c.  Partition a of device 3 holds the backups.            *)
(***************************************************************************)
EXTENDS Backharddi, TLC

MCGeoms == {"a", "b", "c"}
MCUso == <<3, "a">>
MCSinFs == {<<3, "c">>}

T(x, y, z) == [d \in 1..3 |-> CASE d = 1 -> x [] d = 2 -> y [] OTHER -> z]

\* The disk as it is, and as it is after somebody repartitioned device 1.
MCDiscos == {T({"a", "b"}, {}, {"a"}), T({"b", "c"}, {}, {"a"})}

C(pt, grande, img, label, prof) ==
    [pt |-> pt, mbr |-> pt, grande |-> grande, img |-> img, label |-> label, prof |-> prof]

\* Backups of all three devices in another layout; of devices 1 and 3 with labels,
\* where 3 was bigger; and of the same without the partition in use.
MCEntera   == C(T({"b", "c"}, {"a"}, {"a", "c"}), {},
                {<<1, "c">>, <<2, "a">>, <<3, "a">>, <<3, "c">>}, {}, 1)
MCConLabel == C(T({"a", "b"}, {}, {"a", "c"}), {3},
                {<<1, "a">>, <<1, "b">>, <<3, "a">>}, {<<1, "a">>}, 1)
MCAjena    == C(T({"c"}, {}, {"c"}), {}, {<<1, "c">>}, {}, 1)

MCCopias == ("entera" :> MCEntera) @@ ("con_label" :> MCConLabel) @@ ("ajena" :> MCAjena)

\* On a CD or a server there need not be a directory: two backups in the top
\* one, of two geometries.
MCDosGeoms == {"a", "b"}
MCSinFsB == {<<2, "b">>}
MCDiscoB == {T({"a", "b"}, {"a"}, {})}
MCEnRaiz == ("dos" :> C(T({"a"}, {"a", "b"}, {"a"}), {}, {<<1, "a">>, <<2, "a">>}, {}, 0))
            @@ ("etiquetada" :> C(T({"b"}, {"a"}, {}), {2}, {<<1, "b">>}, {<<1, "b">>}, 0))
=============================================================================
