SPECIFICATION FairSpec
CONSTANTS
    NParts = 2
    Size = 2
    PipeCap = 1
    MaxFallos = 1
    FallosDe = {"prep","port","cloner","compr","sink","feed","status","meta"}
    Medios = {"hd-media","net"}
    Acciones = {"none","gen","rest"}
    Cloners = {"partclone","dd"}
    Compresiones = {"lzo"}
    Imagenes = {1,2}
INVARIANTS IInv NoSpuriousFailure
PROPERTIES Termination ImplementsActionList
