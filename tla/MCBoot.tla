--------------------------------- MODULE MCBoot ---------------------------------
\* The boot sequence with four tasks, one of each preset
EXTENDS Boot

CONSTANTS boot, sockets, bundle, update

PresetOf == [t \in {boot, sockets, bundle, update} |->
                CASE t = boot -> "disabled" [] t = sockets -> "periodic"
                  [] t = bundle -> "once" [] t = update -> "delayed"]
=============================================================================
