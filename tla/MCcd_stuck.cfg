SPECIFICATION FairSpecCd
CONSTANTS
    NParts = 1
    Size = 6
    PipeCap = 1
    MaxFallos = 1
    FallosDe = {"cloner"}
    Medios = {}
    Acciones = {"rest"}
    Cloners = {"partclone"}
    Compresiones = {"none"}
    Imagenes = {6}
    Vols = 2
    VolSize = 3
    NDiscos = 2
    DiscoDe <- MCUnaImagen
    MaxErrores = 0
PROPERTY ErrorEndsScript
