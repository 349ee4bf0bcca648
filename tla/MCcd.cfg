SPECIFICATION FairSpecCd
CONSTANTS
    NParts = 2
    Size = 3
    PipeCap = 1
    MaxFallos = 1
    FallosDe = {"prep","cloner","compr","feed"}
    Medios = {}
    Acciones = {"none","rest"}
    Cloners = {"partclone","dd"}
    Compresiones = {"lzo"}
    Imagenes = {3}
    Vols = 3
    VolSize = 1
    NDiscos = 4
    DiscoDe <- MCDiscoDe
    MaxErrores = 1
INVARIANTS TypeOKCd AsksForItsDisc CleanHandover NoSpuriousFailure
PROPERTIES TerminationCd ImplementsActionList
