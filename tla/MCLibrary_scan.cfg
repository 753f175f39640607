\* Three additions are enough for a directory with a subdirectory.
SPECIFICATION LibrarySpec
CONSTANTS
  Missing = Missing
  Empty = Empty
  Blank = Blank
  NoName <- MCNoName
  Unconverted <- MCUnconverted
  Convertible <- MCConvertible
  Lower <- MCLower
  IdMod = 8
  MaxAdds = 3
  Docs <- MCDocs
  Libs <- MCLibs
  Dirs <- MCDirs
  Matches <- MCMatches
  ManifestDir = "empty"
  PluginDir = "plugins"
  Octets <- MCOctets
  Characters <- MCCharacters
  Arguments <- MCArguments
  Plugins <- MCPlugins
INVARIANT PluginsOnPathAreFound
