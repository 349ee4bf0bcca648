SPECIFICATION Spec
CONSTANTS
    NDevs = 3
    Ausentes = {3}
    Geoms <- MCDosGeoms
    Discos <- MCDiscoB
    Copias <- MCEnRaiz
    Nueva = "nueva"
    Uso <- MCUso
    SinFs <- MCSinFsB
    Medios = {"cdrom", "net"}
    Modos = {"", "gen", "rest"}
    MaxRuta = 0
    MaxSesiones = 1
    RestMbrFalla = TRUE
    UpdateFalla = TRUE
INVARIANTS DirsMatchTable MarksSound Confirmed
