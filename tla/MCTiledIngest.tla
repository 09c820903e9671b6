---------------------------- MODULE MCTiledIngest ----------------------------
(* Instances of TiledIngest for TLC. *)
EXTENDS TiledIngest

\* An area that is the raster, one that cuts its pixels, two that reach out of
\* it on different sides, and one inside a single pixel.
MCAreas == {<<0, 0, 6, 4>>, <<1, 1, 5, 3>>, <<-3, 1, 4, 4>>, <<3, -1, 9, 3>>, <<2, 2, 3, 3>>}
MCSizes == {3, 4, 12}

Fits == [p \in Pixel |-> "fit"]
MCRasters ==
    {[Fits EXCEPT ![<<1, 0>>] = k[1], ![<<2, 1>>] = k[2]] :
        k \in {<<"fit", "fit">>, <<"second", "fit">>, <<"bad", "off">>, <<"dropped", "few">>}}
=============================================================================
